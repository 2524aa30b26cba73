---------------------------- MODULE ForwardProxy -----------------------------
(***************************************************************************)
(* The forward proxy of frps (src/forward_proxy.py): a user's connection     *)
(* carries the head of a request, the proxy dials the target it names, and   *)
(* two pipes copy until both have ended. With CONNECT the pipes join the     *)
(* user and the target. With any other method the head and the body are sent *)
(* on first; the pipes that follow then get their ends in another order:     *)
(* _tunnel(target_reader, writer, reader, target_writer, reverse=True) pipes *)
(* each of the two connections back into itself.                            *)
(*                                                                         *)
(* Everything here runs on one event loop; a socket the proxy closes itself  *)
(* gives its reader the end of the file. Nothing in a pipe or in the reading *)
(* of a body times out.                                                     *)
(***************************************************************************)
EXTENDS Integers, Sequences, SequencesExt

CONSTANTS
    Conns,          \* connections of users
    Blocked,        \* those whose address access control refuses
    MaxChunks       \* bound: chunks written after the head at each end

ASSUME ConstantsAssumption == Blocked \subseteq Conns /\ MaxChunks \in Nat

Side == {"user", "target"}

VARIABLES
    stage,          \* stage[c]: where handle_conn stands
    method,         \* method[c]: "none", "connect", "http"
    body,           \* body[c]: body_remaining
    pipes,          \* pipes[c]: the running pipes, by the side they read
    open,           \* open[s]: the connections with a socket to s open
    peer,           \* peer[s][c]: "none", "open", "left"
    sent,           \* sent[s][c]: chunks s has written
    taken,          \* taken[s][c]: those the proxy has read
    got             \* got[s][c]: the chunks written to s: whose, and which

vars == <<stage, method, body, pipes, open, peer, sent, taken, got>>

Other(s) == IF s = "user" THEN "target" ELSE "user"

Stage == {"none", "head", "dialing", "body", "piping", "done"}
Chunks == [from : Side, chunk : 1..MaxChunks]

TypeOK ==
    /\ stage \in [Conns -> Stage]
    /\ method \in [Conns -> {"none", "connect", "http"}]
    /\ body \in [Conns -> 0..MaxChunks]
    /\ pipes \in [Conns -> SUBSET Side]
    /\ \A c \in Conns : pipes[c] # {} => stage[c] = "piping"
    /\ open \in [Side -> SUBSET Conns]
    /\ peer \in [Side -> [Conns -> {"none", "open", "left"}]]
    /\ {sent, taken} \subseteq [Side -> [Conns -> 0..MaxChunks]]
    /\ got \in [Side -> [Conns -> Seq(Chunks)]]
    /\ \A s \in Side, c \in Conns : taken[s][c] <= sent[s][c]

Init ==
    /\ stage = [c \in Conns |-> "none"]
    /\ method = [c \in Conns |-> "none"]
    /\ body = [c \in Conns |-> 0]
    /\ pipes = [c \in Conns |-> {}]
    /\ open = [s \in Side |-> {}]
    /\ peer = [s \in Side |-> [c \in Conns |-> "none"]]
    /\ sent = [s \in Side |-> [c \in Conns |-> 0]]
    /\ taken = [s \in Side |-> [c \in Conns |-> 0]]
    /\ got = [s \in Side |-> [c \in Conns |-> <<>>]]

Unread(s, c) == taken[s][c] < sent[s][c]

\* The next chunk of s is read and written to t. A transport that is closed
\* drops what is written.
Copy(c, s, t) ==
    /\ Unread(s, c)
    /\ taken' = [taken EXCEPT ![s][c] = @ + 1]
    /\ got' = IF c \in open[t] /\ peer[t][c] = "open"
              THEN [got EXCEPT ![t][c] = Append(@, [from |-> s, chunk |-> taken[s][c] + 1])]
              ELSE got

-----------------------------------------------------------------------------
(* handle_conn *)

Accept(c) ==
    /\ stage[c] = "none"
    /\ peer' = [peer EXCEPT !["user"][c] = "open"]
    /\ IF c \in Blocked
       THEN stage' = [stage EXCEPT ![c] = "done"] /\ UNCHANGED open
       ELSE /\ stage' = [stage EXCEPT ![c] = "head"]
            /\ open' = [open EXCEPT !["user"] = @ \cup {c}]
    /\ UNCHANGED <<method, body, pipes, sent, taken, got>>

\* However handle_conn ends, its finally block closes the user's socket. The
\* target's is closed by its pipe, and by nothing else.
Finish(c) ==
    /\ stage' = [stage EXCEPT ![c] = "done"]
    /\ open' = [open EXCEPT !["user"] = @ \ {c}]

\* The request line and the headers are there and the credentials are right.
ReadHead(c) ==
    /\ stage[c] = "head"
    /\ stage' = [stage EXCEPT ![c] = "dialing"]
    /\ \/ method' = [method EXCEPT ![c] = "connect"] /\ UNCHANGED body
       \/ /\ method' = [method EXCEPT ![c] = "http"]
          /\ \E n \in 0..MaxChunks : body' = [body EXCEPT ![c] = n]
    /\ UNCHANGED <<pipes, open, peer, sent, taken, got>>

\* A timeout, the end of the stream, 407 or 400.
RefuseHead(c) ==
    /\ stage[c] = "head"
    /\ Finish(c)
    /\ UNCHANGED <<method, body, pipes, peer, sent, taken, got>>

\* Answered with 504 or 502; a target without a host or a port, with 400.
DialFails(c) ==
    /\ stage[c] = "dialing"
    /\ Finish(c)
    /\ UNCHANGED <<method, body, pipes, peer, sent, taken, got>>

\* Faulty variant: the pipes of a request with a body start before the body.
DialSucceedsPiping(c) ==
    /\ stage[c] = "dialing"
    /\ peer' = [peer EXCEPT !["target"][c] = "open"]
    /\ open' = [open EXCEPT !["target"] = @ \cup {c}]
    /\ stage' = [stage EXCEPT ![c] = IF method[c] = "connect" THEN "piping" ELSE "body"]
    /\ pipes' = [pipes EXCEPT ![c] = Side]
    /\ UNCHANGED <<method, body, sent, taken, got>>

\* CONNECT is answered, another request is written to the target.
DialSucceeds(c) ==
    /\ stage[c] = "dialing"
    /\ peer' = [peer EXCEPT !["target"][c] = "open"]
    /\ open' = [open EXCEPT !["target"] = @ \cup {c}]
    /\ IF method[c] = "connect"
       THEN /\ stage' = [stage EXCEPT ![c] = "piping"]
            /\ pipes' = [pipes EXCEPT ![c] = Side]
       ELSE stage' = [stage EXCEPT ![c] = "body"] /\ UNCHANGED pipes
    /\ UNCHANGED <<method, body, sent, taken, got>>

\* The answer to CONNECT cannot be drained, because the user has left.
AnswerRaises(c) ==
    /\ stage[c] = "dialing" /\ method[c] = "connect" /\ peer["user"][c] = "left"
    /\ peer' = [peer EXCEPT !["target"][c] = "open"]
    /\ stage' = [stage EXCEPT ![c] = "done"]
    /\ open' = [user |-> open["user"] \ {c}, target |-> open["target"] \cup {c}]
    /\ UNCHANGED <<method, body, pipes, sent, taken, got>>

-----------------------------------------------------------------------------
(* _handle_http after the head. *)

SendBody(c) ==
    /\ stage[c] = "body" /\ body[c] > 0
    /\ Copy(c, "user", "target")
    /\ body' = [body EXCEPT ![c] = @ - 1]
    /\ UNCHANGED <<stage, method, pipes, open, peer, sent>>

BodyEnds(c) ==
    /\ stage[c] = "body"
    /\ body[c] = 0 \/ (peer["user"][c] = "left" /\ ~Unread("user", c))
    /\ stage' = [stage EXCEPT ![c] = "piping"]
    /\ pipes' = [pipes EXCEPT ![c] = Side]
    /\ UNCHANGED <<method, body, open, peer, sent, taken, got>>

\* A drain or a read raises.
BodyRaises(c) ==
    /\ stage[c] = "body" /\ "left" \in {peer["user"][c], peer["target"][c]}
    /\ Finish(c)
    /\ UNCHANGED <<method, body, pipes, peer, sent, taken, got>>

-----------------------------------------------------------------------------
(* _tunnel *)

\* Faulty variant: the reversed tunnel is used for every method.
TargetReversed(c, s) == s

\* Where the pipe that reads s writes.
Target(c, s) == IF method[c] = "connect" THEN Other(s) ELSE s

PipeCopies(c, s) ==
    /\ s \in pipes[c]
    /\ Copy(c, s, Target(c, s))
    /\ UNCHANGED <<stage, method, body, pipes, open, peer, sent>>

PipeMayEnd(c, s) ==
    LET t == Target(c, s) IN
    \/ c \notin open[s] \/ peer[s][c] = "left"
    \/ Unread(s, c) /\ (c \notin open[t] \/ peer[t][c] = "left")

\* Faulty variant: a pipe leaves its destination as it is.
PipeEndsOpen(c, s) ==
    /\ s \in pipes[c] /\ PipeMayEnd(c, s)
    /\ pipes' = [pipes EXCEPT ![c] = @ \ {s}]
    /\ UNCHANGED <<stage, method, body, open, peer, sent, taken, got>>

\* The end of the file, a reset, or a write that raises; the destination is
\* closed, in both directions.
PipeEnds(c, s) ==
    /\ s \in pipes[c] /\ PipeMayEnd(c, s)
    /\ pipes' = [pipes EXCEPT ![c] = @ \ {s}]
    /\ open' = [open EXCEPT ![Target(c, s)] = @ \ {c}]
    /\ UNCHANGED <<stage, method, body, peer, sent, taken, got>>

TunnelEnds(c) ==
    /\ stage[c] = "piping" /\ pipes[c] = {}
    /\ Finish(c)
    /\ UNCHANGED <<method, body, pipes, peer, sent, taken, got>>

\* A target socket no coroutine holds any more: the event loop lets go of it
\* at the end of the file.
LostTargetFreed(c) ==
    /\ stage[c] = "done" /\ c \in open["target"] /\ peer["target"][c] = "left"
    /\ open' = [open EXCEPT !["target"] = @ \ {c}]
    /\ UNCHANGED <<stage, method, body, pipes, peer, sent, taken, got>>

-----------------------------------------------------------------------------
(* The two ends. *)

Writes(c, s) ==
    /\ peer[s][c] = "open" /\ c \in open[s] /\ sent[s][c] < MaxChunks
    /\ sent' = [sent EXCEPT ![s][c] = @ + 1]
    /\ UNCHANGED <<stage, method, body, pipes, open, peer, taken, got>>

Leaves(c, s) ==
    /\ peer[s][c] = "open"
    /\ peer' = [peer EXCEPT ![s][c] = "left"]
    /\ UNCHANGED <<stage, method, body, pipes, open, sent, taken, got>>

-----------------------------------------------------------------------------

HandleConn(c) ==
    \/ ReadHead(c) \/ RefuseHead(c) \/ DialFails(c) \/ DialSucceeds(c) \/ AnswerRaises(c)
    \/ SendBody(c) \/ BodyEnds(c) \/ BodyRaises(c)
    \/ TunnelEnds(c)

RunsPipe(c, s) == PipeCopies(c, s) \/ PipeEnds(c, s)

Next ==
    \E c \in Conns :
        \/ Accept(c) \/ HandleConn(c) \/ LostTargetFreed(c)
        \/ \E s \in Side : RunsPipe(c, s) \/ Writes(c, s) \/ Leaves(c, s)

Spec == Init /\ [][Next]_vars

\* The event loop runs its tasks; users and targets owe nothing.
Fairness ==
    \A c \in Conns :
        /\ WF_vars(HandleConn(c)) /\ WF_vars(LostTargetFreed(c))
        /\ \A s \in Side : WF_vars(RunsPipe(c, s))

FairSpec == Spec /\ Fairness

-----------------------------------------------------------------------------
(* Properties. *)

\* What t has received from the other end, in order.
Stream(t, c) == [i \in DOMAIN got[t][c] |-> got[t][c][i].chunk]

Tunnelled(f, c, none) == IF method[c] = "connect" THEN f ELSE none

Up == INSTANCE Pipe WITH
         sent <- [c \in Conns |-> sent["user"][c]],
         got <- [c \in Conns |-> Tunnelled(Stream("target", c), c, <<>>)]

Down == INSTANCE Pipe WITH
           sent <- [c \in Conns |-> sent["target"][c]],
           got <- [c \in Conns |-> Tunnelled(Stream("user", c), c, <<>>)]

\* A CONNECT tunnel is a byte stream each way, however its two pipes end.
ConnectIsPipe == Up!Spec /\ Down!Spec

\* Chunks that reach an end by a CONNECT tunnel were written by the other end,
\* and a target of another request is written the user's body before anything
\* else.
BodyComesFirst ==
    \A c \in Conns, s \in Side :
        /\ method[c] = "connect" => \A i \in DOMAIN got[s][c] : got[s][c][i].from # s
        /\ \A i, j \in DOMAIN got["target"][c] :
               got["target"][c][i].from = "user" /\ got["target"][c][j].from = "target"
                   => i < j

\* An end that leaves gets its socket closed, and one of a CONNECT tunnel takes
\* the other with it. The reading of a body is left out: it waits as long as
\* the user does not write.
EndsTogether ==
    \A c \in Conns, s \in Side :
        /\ peer[s][c] = "left" ~> c \notin open[s] \/ stage[c] = "body"
        /\ peer[s][c] = "left" /\ pipes[c] # {} /\ method[c] = "connect"
               ~> c \notin open["user"] \cup open["target"]
=============================================================================
