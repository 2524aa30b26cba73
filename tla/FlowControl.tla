---------------------------- MODULE FlowControl -----------------------------
(***************************************************************************)
(* What full buffers do to the tunnels of one session. All connections of a *)
(* session share one connection between frps and frpc for each direction.   *)
(* At either side a forwarding task per connection reads from the end       *)
(* outside, a user or a local service, and writes to the shared connection; *)
(* one reader takes the messages off the shared connection and writes their *)
(* data to the ends. Without a data channel the shared connection is the    *)
(* control connection, and the readers write to it as well: frps answers    *)
(* PING with PONG, frpc answers NEW_CONN with INIT_CONN. After each write a  *)
(* task awaits drain(), which returns when the buffer it has written to is   *)
(* no longer too full. What fills a buffer is DATA; a call or an answer is   *)
(* small.                                                                   *)
(*                                                                         *)
(* The two sides are alike here: neither tells the other of a close. An end *)
(* that is deaf does not read, as long as it stays. FTP is left out: its     *)
(* replies drain the control connection in the reader of the data channel.  *)
(***************************************************************************)
EXTENDS Integers, Sequences, FiniteSets

CONSTANTS
    Conns,          \* connections whose forwarding tasks run at both sides
    DeafEnds,       \* sets of ends that do not read: what deaf is chosen from
    Leavers,        \* bound: the ends that may leave
    High,           \* how many chunks a buffer holds before drain() waits
    Quota,          \* bound: Quota[e] chunks are written by e
    Call, Answer,   \* PING or NEW_CONN, and PONG or INIT_CONN
    Link,           \* what a reader waits for that has answered
    None

Sides == {"frps", "frpc"}
Other(s) == IF s = "frps" THEN "frpc" ELSE "frps"

\* The user of a connection is its end at frps, its local service the end at
\* frpc. An end is a pair of a side and a connection.
Ends == Sides \X Conns
Peer(e) == <<Other(e[1]), e[2]>>

ASSUME ConstantsAssumption ==
    /\ DeafEnds \subseteq SUBSET Ends /\ Leavers \subseteq Ends
    /\ IsFiniteSet(Conns)
    /\ High \in Nat /\ Quota \in [Ends -> Nat]
    /\ {Call, Answer, Link, None} \cap Conns = {}
    /\ Call # Answer /\ Link # None

VARIABLES
    dataChannel,    \* BOOLEAN, fixed: do DATA go over a data channel?
    deaf,           \* the ends that do not read, fixed
    present,        \* the ends that have not left
    wrote,          \* wrote[e]: how many chunks e has written
    toProgram,      \* toProgram[e]: chunks of e that its side has not read
    toEnd,          \* toEnd[e]: chunks written to e that it has not read
    link,           \* link[s]: what s has sent; DATA is its connection
    open,           \* the ends whose connection is in conn_pool of their side
    forwarder,      \* forwarder[e]: "reading", "draining" or "ended"
    blocked         \* blocked[s]: the connection whose end the reader of s waits
                    \* for in drain(), Link if it waits for link[s], or None

endVars == <<dataChannel, deaf, present, wrote>>
vars == <<endVars, toProgram, toEnd, link, open, forwarder, blocked>>

\* How much of a buffer a sequence of messages takes: what drain() goes by.
Load(q) == Cardinality({i \in DOMAIN q : q[i] \in Conns})

TypeOK ==
    /\ dataChannel \in BOOLEAN /\ deaf \in DeafEnds
    /\ present \subseteq Ends /\ open \subseteq Ends
    /\ wrote \in [Ends -> Nat]
    /\ \A e \in Ends : wrote[e] <= Quota[e]
    /\ toProgram \in [Ends -> Nat]
    /\ toEnd \in [Ends -> Nat]
    /\ link \in [Sides -> Seq(Conns \cup {Call, Answer})]
    /\ forwarder \in [Ends -> {"reading", "draining", "ended"}]
    /\ blocked \in [Sides -> Conns \cup {Link, None}]

Init ==
    /\ dataChannel \in BOOLEAN /\ deaf \in DeafEnds
    /\ present = Ends /\ open = Ends
    /\ wrote = [e \in Ends |-> 0]
    /\ toProgram = [e \in Ends |-> 0]
    /\ toEnd = [e \in Ends |-> 0]
    /\ link = [s \in Sides |-> <<>>]
    /\ forwarder = [e \in Ends |-> "reading"]
    /\ blocked = [s \in Sides |-> None]

-----------------------------------------------------------------------------
(* The forwarding tasks: forward_proxy_data, forward_local_data. *)

\* Faulty variant: drain() is not awaited.
ForwardUndrained(e) ==
    /\ forwarder[e] = "reading" /\ toProgram[e] > 0
    /\ toProgram' = [toProgram EXCEPT ![e] = @ - 1]
    /\ link' = [link EXCEPT ![e[1]] = Append(@, e[2])]
    /\ UNCHANGED <<endVars, toEnd, open, forwarder, blocked>>

\* A chunk is read and written to the shared connection. What had arrived
\* before the connection was closed is still read.
Forward(e) ==
    /\ forwarder[e] = "reading" /\ toProgram[e] > 0
    /\ toProgram' = [toProgram EXCEPT ![e] = @ - 1]
    /\ link' = [link EXCEPT ![e[1]] = Append(@, e[2])]
    /\ forwarder' = [forwarder EXCEPT
                        ![e] = IF Load(link'[e[1]]) > High THEN "draining" ELSE "reading"]
    /\ UNCHANGED <<endVars, toEnd, open, blocked>>

\* The end has left, and what it wrote has been read or it reset the
\* connection; or the connection was closed elsewhere.
ForwardEnds(e) ==
    /\ forwarder[e] = "reading"
    /\ \/ e \notin open
       \/ e \notin present /\ (toProgram[e] = 0 \/ toEnd[e] > 0)
    /\ forwarder' = [forwarder EXCEPT ![e] = "ended"]
    /\ open' = open \ {e}
    /\ UNCHANGED <<endVars, toProgram, toEnd, link, blocked>>

\* Reading from the user times out, which frpc does not do for its service.
IdleTimeout(e) ==
    /\ e[1] = "frps" /\ forwarder[e] = "reading" /\ toProgram[e] = 0
    /\ forwarder' = [forwarder EXCEPT ![e] = "ended"]
    /\ open' = open \ {e}
    /\ UNCHANGED <<endVars, toProgram, toEnd, link, blocked>>

-----------------------------------------------------------------------------
(* Calls: send_heartbeat of frpc, the handler of a new connection of frps.     *)

Sent(s) == {link[s][i] : i \in DOMAIN link[s]}

\* Bound: a side calls again when its call has been answered.
SendCall(s) ==
    /\ ~dataChannel /\ Call \notin Sent(s) /\ Answer \notin Sent(Other(s))
    /\ link' = [link EXCEPT ![s] = Append(@, Call)]
    /\ UNCHANGED <<endVars, toProgram, toEnd, open, forwarder, blocked>>

-----------------------------------------------------------------------------
(* The reader of a side: its loop, process_message, handle_data, handle_ping *)
(* and handle_new_conn.                                                     *)

\* Faulty variant: only one of the tasks that drain is woken.
WakeOne(s, rest) ==
    LET waiting == {e \in Ends : e[1] = s /\ forwarder[e] = "draining"} IN
    IF Load(rest) > High \/ waiting = {} THEN UNCHANGED forwarder
    ELSE \E e \in waiting : forwarder' = [forwarder EXCEPT ![e] = "reading"]

\* A message has been taken off the connection that s writes to: if it is no
\* longer too full, every task that waits in drain() is woken.
Wake(s, rest) ==
    IF Load(rest) > High THEN UNCHANGED forwarder
    ELSE forwarder' = [e \in Ends |-> IF e[1] = s /\ forwarder[e] = "draining"
                                      THEN "reading" ELSE forwarder[e]]

\* The reader of s, which waits for nothing, takes a message off, writes the reply
\* to its own connection and goes on, or waits for something. The reader of the
\* other side may be woken by it, like the forwarding tasks there.
Take(s, message, reply, wait) ==
    LET from == Other(s)
        rest == Tail(link[from])
    IN
    /\ blocked[s] = None /\ link[from] # <<>> /\ message = Head(link[from])
    /\ link' = [link EXCEPT ![from] = rest, ![s] = @ \o reply]
    /\ Wake(from, rest)
    /\ blocked' = [blocked EXCEPT
                      ![s] = wait,
                      ![from] = IF @ = Link /\ Load(rest) <= High THEN None ELSE @]

\* DATA for a connection that is not open is dropped; a write to an end that
\* has left raises, and closes the connection.
HandleData(s) ==
    \E c \in Conns :
        LET e == <<s, c>> IN
        /\ IF e \in open /\ e \in present
           THEN /\ toEnd' = [toEnd EXCEPT ![e] = @ + 1]
                /\ Take(s, c, <<>>, IF toEnd'[e] > High THEN c ELSE None)
                /\ UNCHANGED open
           ELSE /\ open' = IF e \in present THEN open ELSE open \ {e}
                /\ Take(s, c, <<>>, None)
                /\ UNCHANGED toEnd
        /\ UNCHANGED <<endVars, toProgram>>

\* PONG or INIT_CONN is written and drained before the next message is looked at.
HandleCall(s) ==
    /\ Take(s, Call, <<Answer>>, IF Load(link[s]) > High THEN Link ELSE None)
    /\ UNCHANGED <<endVars, toProgram, toEnd, open>>

HandleAnswer(s) ==
    /\ Take(s, Answer, <<>>, None)
    /\ UNCHANGED <<endVars, toProgram, toEnd, open>>

-----------------------------------------------------------------------------
(* Users and local services. *)

\* An end writes while its own buffer has room.
EndWrites(e) ==
    /\ e \in present /\ wrote[e] < Quota[e] /\ toProgram[e] <= High
    /\ wrote' = [wrote EXCEPT ![e] = @ + 1]
    /\ toProgram' = [toProgram EXCEPT ![e] = @ + 1]
    /\ UNCHANGED <<dataChannel, deaf, present, toEnd, link, open, forwarder, blocked>>

\* The reader that waits for this end goes on when there is room again.
EndReads(e) ==
    /\ e \in present \ deaf /\ toEnd[e] > 0
    /\ toEnd' = [toEnd EXCEPT ![e] = @ - 1]
    /\ blocked' = [blocked EXCEPT ![e[1]] = IF @ = e[2] /\ toEnd'[e] <= High THEN None ELSE @]
    /\ UNCHANGED <<endVars, toProgram, link, open, forwarder>>

\* drain() raises for the reader that waits for this end, and the connection is
\* closed.
EndLeaves(e) ==
    /\ e \in present \cap Leavers
    /\ present' = present \ {e}
    /\ IF blocked[e[1]] = e[2]
       THEN blocked' = [blocked EXCEPT ![e[1]] = None] /\ open' = open \ {e}
       ELSE UNCHANGED <<blocked, open>>
    /\ UNCHANGED <<dataChannel, deaf, wrote, toProgram, toEnd, link, forwarder>>

ForwarderTask(e) == Forward(e) \/ ForwardEnds(e)
ReaderTask(s) == HandleData(s) \/ HandleCall(s) \/ HandleAnswer(s)

Next ==
    \/ \E s \in Sides : ReaderTask(s) \/ SendCall(s)
    \/ \E e \in Ends :
           ForwarderTask(e) \/ IdleTimeout(e) \/ EndWrites(e) \/ EndReads(e) \/ EndLeaves(e)

Spec == Init /\ [][Next]_vars

\* The event loops run their tasks, and the ends that are not deaf read.
FairSpec ==
    /\ Spec
    /\ \A s \in Sides : WF_vars(ReaderTask(s))
    /\ \A e \in Ends : WF_vars(ForwarderTask(e)) /\ WF_vars(EndReads(e))

-----------------------------------------------------------------------------
(* Properties. *)

\* However fast the ends write, and however slowly the other ends read, what
\* the programs hold of data is bounded: each task adds at most one chunk to a
\* buffer that is full, also when readers wait for each other.
BuffersAreBounded ==
    /\ \A s \in Sides : Load(link[s]) <= High + Cardinality(Conns)
    /\ \A e \in Ends : toEnd[e] <= High + 1

\* An end has read all there is for it, or the connection is closed at a side.
Delivered(e) ==
    \/ toProgram[Peer(e)] = 0 /\ toEnd[e] = 0 /\ e[2] \notin Sent(Other(e[1]))
    \/ {e, Peer(e)} \ (open \cap present) # {}

\* An end that does not read is there, at side s.
DeafThere(s) == \E e \in deaf \cap present : e[1] = s

\* Each reader waits for the other one to take off what it has written.
Circle == \A s \in Sides : blocked[s] = Link

\* On a data channel the tunnels of a session block each other only where an end
\* at the receiving side does not read, and no longer than it stays: no direction
\* waits for the other one. On the control connection an end that does not read
\* stops both directions; besides, only the two readers that answer into full
\* buffers at the same time do.
FlowsUnlessDeaf ==
    \A e \in Ends :
        []<>(\/ Delivered(e)
             \/ dataChannel /\ DeafThere(e[1])
             \/ ~dataChannel /\ (Circle \/ \E s \in Sides : DeafThere(s)))
=============================================================================
