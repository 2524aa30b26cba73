--------------------------- MODULE Session_proofs ----------------------------
(***************************************************************************)
(* Proofs about sessions and remote commands, for any number of retries and  *)
(* of commands. A command is in flight at most once: as CMD on its way to    *)
(* frpc, in the hands of frpc's reader, or as an answer on its way back. From *)
(* that, an answer that arrives belongs to a command that waits or has timed *)
(* out, and the books of frps follow.                                       *)
(***************************************************************************)
EXTENDS Session, SequenceTheorems, TLAPS

Has(queues, g, m) == \E i \in 1..Len(queues[g]) : queues[g][i] = m

\* A message is in at most one queue, and there once.
Once(queues, m) ==
    \A g, h \in Gens : \A i \in 1..Len(queues[g]), j \in 1..Len(queues[h]) :
        queues[g][i] = m /\ queues[h][j] = m => g = h /\ i = j

ToDo(c)     == \E g \in Gens : Has(toClient, g, Cmd(c))
Answering(c) == \E g \in Gens : Has(toServer, g, Resp(c))

\* Where a command can be.
FlightInv ==
    \A c \in Cmds :
        /\ Once(toClient, Cmd(c)) /\ Once(toServer, Resp(c))
        /\ ToDo(c) => c \notin executing /\ ~Answering(c)
        /\ c \in executing => ~Answering(c)
        /\ ToDo(c) \/ Answering(c) => cmd[c] \in {"waiting", "timedOut"}
        /\ c \in executing =>
              cmd[c] \in {"waiting", "timedOut"} \/ (cmd[c] = "failed" /\ link[gen] # "up")

\* Nothing is in flight on a connection that is not up.
LinkInv ==
    \A g \in Gens : /\ g > gen => link[g] = "none"
                    /\ link[g] # "up" => toClient[g] = <<>> /\ toServer[g] = <<>>

\* What frpc executes belongs to the session it is in.
ExecInv == executing # {} => phase = "running"

\* One connection is dialled per retry.
RetryInv ==
    /\ phase # "stopped" => retries <= MaxRetries
    /\ gen <= retries + 1
    /\ phase \in {"dialing", "waiting"} => gen <= retries
    /\ phase \in {"login", "registering", "running"} => gen # NoGen

\* frpc registers in a session that frps knows.
LoginInv ==
    /\ \A g \in Gens : Has(toClient, g, LoginOk) =>
          tokenOk /\ (g = gen /\ phase = "login" /\ link[g] = "up" => g \in sessions)
    /\ phase \in {"registering", "running"} =>
          tokenOk /\ (link[gen] = "up" => gen \in sessions)
    /\ \A g \in Gens : Has(toServer, g, Register) => g \in sessions

IInv ==
    TypeOK /\ FlightInv /\ LinkInv /\ ExecInv /\ RetryInv /\ LoginInv /\ CommandBooks

-----------------------------------------------------------------------------
(* Queues. *)

Queues == [Gens -> Seq(Msg)]

\* p holds message m where q does, or does not hold it.
Weaker(p, q, m) ==
    /\ \A g \in Gens : Has(p, g, m) => Has(q, g, m)
    /\ Once(q, m) => Once(p, m)

LEMMA Same == ASSUME NEW q, NEW m PROVE Weaker(q, q, m)
  BY DEF Weaker

LEMMA CutQueue ==
    ASSUME NEW q \in Queues, NEW g \in Gens, NEW r \in Seq(Msg), NEW k \in Nat,
           Len(q[g]) = k + Len(r), \A i \in 1..Len(r) : r[i] = q[g][k + i],
           NEW p, p = [q EXCEPT ![g] = r]
    PROVE  p \in Queues /\ \A m \in Msg : Weaker(p, q, m)
  <1>1. p \in Queues
    BY DEF Queues
  <1>2. ASSUME NEW h \in Gens, NEW i \in 1..Len(p[h])
        PROVE  LET j == IF h = g THEN k + i ELSE i IN
               j \in 1..Len(q[h]) /\ q[h][j] = p[h][i]
    <2>1. q[h] \in Seq(Msg) /\ Len(q[h]) \in Nat /\ Len(r) \in Nat
      BY DEF Queues
    <2>2. CASE h = g
      <3>1. p[h] = r
        BY <2>2 DEF Queues
      <3> QED
        BY <1>2, <2>1, <2>2, <3>1
    <2>3. CASE h # g
      <3>1. p[h] = q[h]
        BY <2>3 DEF Queues
      <3> QED
        BY <1>2, <2>3, <3>1
    <2> QED
      BY <2>2, <2>3
  <1>3. ASSUME NEW m \in Msg PROVE Weaker(p, q, m)
    <2>1. \A h \in Gens : Has(p, h, m) => Has(q, h, m)
      BY <1>2 DEF Has
    <2>2. ASSUME Once(q, m) PROVE Once(p, m)
      <3> SUFFICES ASSUME NEW h \in Gens, NEW f \in Gens,
                          NEW i \in 1..Len(p[h]), NEW j \in 1..Len(p[f]),
                          p[h][i] = m, p[f][j] = m
                   PROVE  h = f /\ i = j
        BY DEF Once
      <3> DEFINE at(x, y) == IF x = g THEN k + y ELSE y
      <3>1. at(h, i) \in 1..Len(q[h]) /\ q[h][at(h, i)] = m
        BY <1>2
      <3>2. at(f, j) \in 1..Len(q[f]) /\ q[f][at(f, j)] = m
        BY <1>2
      <3>3. h = f /\ at(h, i) = at(f, j)
        <4> HIDE DEF at
        <4> QED
          BY <2>2, <3>1, <3>2 DEF Once
      <3>4. i \in Nat /\ j \in Nat
        <4>1. p[h] \in Seq(Msg) /\ p[f] \in Seq(Msg)
          BY <1>1 DEF Queues
        <4> QED
          BY <4>1
      <3> QED
        BY <3>3, <3>4
    <2> QED
      BY <2>1, <2>2 DEF Weaker
  <1> QED
    BY <1>1, <1>3

LEMMA EmptyQueue ==
    ASSUME NEW q \in Queues, NEW g \in Gens, NEW p, p = [q EXCEPT ![g] = <<>>]
    PROVE  p \in Queues /\ \A m \in Msg : Weaker(p, q, m)
  <1>1. q[g] \in Seq(Msg) /\ Len(q[g]) \in Nat
    BY DEF Queues
  <1> DEFINE r == <<>>
             k == Len(q[g])
  <1>2. r \in Seq(Msg) /\ Len(r) = 0
    OBVIOUS
  <1>3. p = [q EXCEPT ![g] = r]
    OBVIOUS
  <1> HIDE DEF r
  <1>4. k \in Nat /\ Len(q[g]) = k + Len(r) /\ \A i \in 1..Len(r) : r[i] = q[g][k + i]
    BY <1>1, <1>2
  <1> HIDE DEF k
  <1> QED
    BY <1>2, <1>3, <1>4, CutQueue

LEMMA EmptyQueues ==
    ASSUME NEW q \in Queues, NEW p, p = [g \in Gens |-> <<>>]
    PROVE  p \in Queues /\ \A m \in Msg : Weaker(p, q, m) /\ \A g \in Gens : ~Has(p, g, m)
  <1>1. p \in Queues
    BY DEF Queues
  <1>2. \A g \in Gens : Len(p[g]) = 0
    OBVIOUS
  <1> QED
    BY <1>1, <1>2 DEF Weaker, Has, Once

\* The first message of a queue.
LEMMA HeadOfQueue ==
    ASSUME NEW q \in Queues, NEW g \in Gens, q[g] # <<>>
    PROVE  Head(q[g]) \in Msg /\ Has(q, g, Head(q[g]))
  <1>1. q[g] \in Seq(Msg)
    BY DEF Queues
  <1>2. 1 \in 1..Len(q[g]) /\ q[g][1] = Head(q[g]) /\ Head(q[g]) \in Msg
    BY <1>1
  <1> QED
    BY <1>2 DEF Has

\* Reading it.
LEMMA ReadQueue ==
    ASSUME NEW q \in Queues, NEW g \in Gens, q[g] # <<>>, NEW m, m = Head(q[g]),
           NEW t, t = Tail(q[g]), NEW p, p = [q EXCEPT ![g] = t]
    PROVE  /\ p \in Queues /\ \A x \in Msg : Weaker(p, q, x)
           /\ Once(q, m) => \A h \in Gens : ~Has(p, h, m)
  <1> DEFINE r == Tail(q[g])
  <1>1. q[g] \in Seq(Msg)
    BY DEF Queues
  <1>2. /\ Len(q[g]) \in Nat \ {0} /\ r \in Seq(Msg) /\ Len(r) = Len(q[g]) - 1
        /\ \A i \in 1..Len(r) : r[i] = q[g][1 + i]
        /\ q[g][1] = m /\ m \in Msg
    BY <1>1
  <1>3. p = [q EXCEPT ![g] = r]
    OBVIOUS
  <1>4. p \in Queues /\ \A x \in Msg : Weaker(p, q, x)
    <2> HIDE DEF r
    <2> DEFINE k == 1
    <2>1. k \in Nat /\ Len(q[g]) = k + Len(r) /\ \A i \in 1..Len(r) : r[i] = q[g][k + i]
      BY <1>2
    <2>2. r \in Seq(Msg)
      BY <1>2
    <2> HIDE DEF k
    <2> QED
      BY <1>3, <2>1, <2>2, CutQueue
  <1>5. ASSUME Once(q, m), NEW h \in Gens, Has(p, h, m) PROVE FALSE
    <2>1. PICK i \in 1..Len(p[h]) : p[h][i] = m
      BY <1>5 DEF Has
    <2>2. CASE h = g
      <3>1. p[h] = r
        BY <1>3, <2>2 DEF Queues
      <3> HIDE DEF r
      <3>2. i \in 1..Len(r) /\ r[i] = m /\ Len(r) \in Nat
        BY <1>2, <2>1, <3>1
      <3>3. 1 + i \in 1..Len(q[g]) /\ q[g][1 + i] = m /\ 1 \in 1..Len(q[g])
        BY <1>2, <3>2
      <3>4. 1 + i = 1
        BY <1>2, <1>5, <3>3 DEF Once
      <3> QED
        BY <3>2, <3>4
    <2>3. CASE h # g
      <3>1. p[h] = q[h] /\ 1 \in 1..Len(q[g])
        BY <1>2, <2>3 DEF Queues
      <3> QED
        BY <1>2, <1>5, <2>1, <2>3, <3>1 DEF Once
    <2> QED
      BY <2>2, <2>3
  <1> QED
    BY <1>4, <1>5

\* Sending a message.
LEMMA SendQueue ==
    ASSUME NEW q \in Queues, NEW g \in Gens, NEW m \in Msg, NEW p, p = Sent(q, g, <<m>>)
    PROVE  /\ p \in Queues
           /\ \A h \in Gens, x \in Msg : Has(p, h, x) =>
                 Has(q, h, x) \/ (x = m /\ h = g /\ link[g] = "up")
           /\ \A x \in Msg : x # m => Weaker(p, q, x)
           /\ Once(q, m) /\ (\A h \in Gens : ~Has(q, h, m)) => Once(p, m)
           /\ link[g] # "up" => p = q
  <1>1. CASE link[g] # "up"
    BY <1>1 DEF Sent, Weaker
  <1>2. CASE link[g] = "up"
    <2> DEFINE r == Append(q[g], m)
    <2>1. q[g] \in Seq(Msg) /\ \A h \in Gens : Len(q[h]) \in Nat
      BY DEF Queues
    <2>2. q[g] \o <<m>> = r
      BY <2>1
    <2>3. p = [q EXCEPT ![g] = r]
      BY <1>2, <2>2 DEF Sent
    <2>4. /\ r \in Seq(Msg) /\ Len(r) = Len(q[g]) + 1 /\ r[Len(q[g]) + 1] = m
          /\ \A i \in 1..Len(q[g]) : r[i] = q[g][i]
      BY <2>1
    <2> HIDE DEF r
    <2>5. p \in Queues
      BY <2>3, <2>4 DEF Queues
    <2>6. p[g] = r /\ \A h \in Gens : h # g => p[h] = q[h]
      BY <2>3 DEF Queues
    <2>7. ASSUME NEW h \in Gens, NEW i \in 1..Len(p[h])
          PROVE  \/ i \in 1..Len(q[h]) /\ p[h][i] = q[h][i]
                 \/ h = g /\ i = Len(q[g]) + 1 /\ p[h][i] = m
      BY <2>1, <2>4, <2>6, <2>7
    <2>8. \A h \in Gens, x \in Msg : Has(p, h, x) =>
             Has(q, h, x) \/ (x = m /\ h = g /\ link[g] = "up")
      BY <1>2, <2>7 DEF Has
    <2>9. ASSUME NEW x \in Msg, x # m PROVE Weaker(p, q, x)
      <3>1. ASSUME Once(q, x) PROVE Once(p, x)
        <4> SUFFICES ASSUME NEW h \in Gens, NEW f \in Gens,
                            NEW i \in 1..Len(p[h]), NEW j \in 1..Len(p[f]),
                            p[h][i] = x, p[f][j] = x
                     PROVE  h = f /\ i = j
          BY DEF Once
        <4>1. i \in 1..Len(q[h]) /\ q[h][i] = x /\ j \in 1..Len(q[f]) /\ q[f][j] = x
          BY <2>7, <2>9
        <4> QED
          BY <3>1, <4>1 DEF Once
      <3> QED
        BY <2>8, <2>9, <3>1 DEF Weaker
    <2>10. ASSUME \A h \in Gens : ~Has(q, h, m) PROVE Once(p, m)
      BY <2>7, <2>10 DEF Once, Has
    <2> QED
      BY <1>2, <2>5, <2>8, <2>9, <2>10
  <1> QED
    BY <1>1, <1>2

\* The messages.
LEMMA Messages ==
    /\ {Login, Register, LoginOk, LoginError, Error} \subseteq Msg
    /\ \A c \in Cmds : Cmd(c) \in Msg /\ Resp(c) \in Msg
    /\ \A c \in Cmds, m \in {Login, Register, LoginOk, LoginError, Error} :
          m # Cmd(c) /\ m # Resp(c)
    /\ \A c, d \in Cmds : Cmd(c) # Resp(d)
    /\ \A c, d \in Cmds : c # d => Cmd(c) # Cmd(d) /\ Resp(c) # Resp(d)
    /\ Login # Register /\ LoginOk # LoginError /\ LoginOk # Error
  BY DEF Msg, Login, Register, LoginOk, LoginError, Error, Cmd, Resp

LEMMA Generations ==
    ASSUME TypeOK
    PROVE  /\ MaxRetries \in Nat /\ Gens = 1..(MaxRetries + 1) /\ gen \in 0..(MaxRetries + 1)
           /\ retries \in 0..(MaxRetries + 1) /\ NoGen = 0
           /\ NoGen \notin Gens /\ serving \subseteq Gens /\ sessions \subseteq Gens
           /\ toServer \in Queues /\ toClient \in Queues
  BY ConstantsAssumption DEF TypeOK, Gens, NoGen, Queues

\* frpc is where it has a connection.
LEMMA HasGen ==
    ASSUME TypeOK, RetryInv, phase \in {"login", "registering", "running"}
    PROVE  gen \in Gens
  BY Generations DEF RetryInv, TypeOK

-----------------------------------------------------------------------------
(* Type correctness, with the number of retries. *)

LEMMA RetryStep == TypeOK /\ RetryInv /\ ExecInv /\ [Next]_vars => RetryInv' /\ ExecInv'
  <1> SUFFICES ASSUME TypeOK, RetryInv, ExecInv, [Next]_vars PROVE RetryInv' /\ ExecInv'
    OBVIOUS
  <1> USE Generations DEF RetryInv, ExecInv
  <1>1. CASE Dial
    BY <1>1 DEF Dial
  <1>2. CASE DialFails
    BY <1>2 DEF DialFails, Retry
  <1>3. ASSUME NEW n \in 1..3, ReadLoginResp(n) PROVE RetryInv' /\ ExecInv'
    BY <1>3 DEF ReadLoginResp, Retry
  <1>4. CASE LoginFails
    BY <1>4 DEF LoginFails, Retry
  <1>5. CASE RegisterProxies
    BY <1>5 DEF RegisterProxies, Retry
  <1>6. CASE ReadError
    BY <1>6 DEF ReadError, frpcVars
  <1>7. ASSUME NEW c \in Cmds, HandleRemoteCmd(c) PROVE RetryInv' /\ ExecInv'
    BY <1>7 DEF HandleRemoteCmd, Reads
  <1>8. ASSUME NEW c \in Cmds, RemoteCmdDone(c) PROVE RetryInv' /\ ExecInv'
    BY <1>8 DEF RemoteCmdDone
  <1>9. CASE ReaderEnds
    BY <1>9 DEF ReaderEnds, Retry
  <1>10. CASE DelayOver
    BY <1>10 DEF DelayOver
  <1>11. CASE UNCHANGED frpcVars
    BY <1>11 DEF frpcVars
  <1> QED
    BY <1>1, <1>2, <1>3, <1>4, <1>5, <1>6, <1>7, <1>8, <1>9, <1>10, <1>11
    DEF Next, Frpc, FrpsConn, Waiter, HandleLogin, LoginRespFails, HandleBadLogin, HandleRegister,
        ConnectionEnds, HandleRemoteCmdResp, Breaks, FrpsRestarts, TakeResult, CmdTimesOut,
        SendRemoteCmd, vars

\* Reading and sending keep the types of the queues.
LEMMA FrpsReadsQueue ==
    ASSUME TypeOK, NEW g \in Gens, NEW m, FrpsReads(g, m)
    PROVE  /\ toServer' \in Queues /\ \A x \in Msg : Weaker(toServer', toServer, x)
           /\ m \in Msg /\ Has(toServer, g, m) /\ g \in serving
           /\ Once(toServer, m) => \A h \in Gens : ~Has(toServer', h, m)
  <1> DEFINE t == Tail(toServer[g])
  <1>2. t = Tail(toServer[g])
    OBVIOUS
  <1>1. /\ toServer \in Queues /\ toServer[g] # <<>> /\ m = Head(toServer[g])
        /\ toServer' = [toServer EXCEPT ![g] = t] /\ g \in serving
    BY Generations DEF FrpsReads
  <1> HIDE DEF t
  <1> QED
    BY <1>1, <1>2, ReadQueue, HeadOfQueue

LEMMA FrpcReadsQueue ==
    ASSUME TypeOK, RetryInv, NEW m, Reads(m)
    PROVE  /\ toClient' \in Queues /\ \A x \in Msg : Weaker(toClient', toClient, x)
           /\ m \in Msg /\ Has(toClient, gen, m)
           /\ Once(toClient, m) => \A h \in Gens : ~Has(toClient', h, m)
  <1>1. gen \in Gens
    BY HasGen DEF Reads
  <1> DEFINE t == Tail(toClient[gen])
  <1>2. /\ toClient \in Queues /\ toClient[gen] # <<>> /\ m = Head(toClient[gen])
        /\ toClient' = [toClient EXCEPT ![gen] = t]
    BY Generations DEF Reads
  <1>3. t = Tail(toClient[gen])
    OBVIOUS
  <1> HIDE DEF t
  <1> QED
    BY <1>1, <1>2, <1>3, ReadQueue, HeadOfQueue

LEMMA LoginQueue ==
    ASSUME TypeOK, RetryInv, NEW n \in 1..3, ReadLoginResp(n)
    PROVE  /\ toClient' \in Queues /\ \A x \in Msg : Weaker(toClient', toClient, x)
           /\ Has(toClient, gen, Head(toClient[gen]))
  <1>1. gen \in Gens /\ toClient \in Queues
    BY HasGen, Generations DEF ReadLoginResp
  <1> DEFINE q == toClient[gen]
             r == SubSeq(q, n + 1, Len(q))
  <1>2. q \in Seq(Msg) /\ n \in 1..Len(q) /\ Len(q) \in Nat
    BY <1>1 DEF Queues, ReadLoginResp
  <1>3. toClient' = [toClient EXCEPT ![gen] = r]
    BY DEF ReadLoginResp
  <1>4. /\ n \in Nat /\ r \in Seq(Msg) /\ Len(q) = n + Len(r)
        /\ \A i \in 1..Len(r) : r[i] = q[n + i]
    <2> HIDE DEF q
    <2> QED
      BY <1>2
  <1>5. toClient' \in Queues /\ \A x \in Msg : Weaker(toClient', toClient, x)
    <2> HIDE DEF r
    <2> QED
      BY <1>1, <1>3, <1>4, CutQueue
  <1>6. 1 \in 1..Len(q) /\ q[1] = Head(q)
    <2> HIDE DEF q
    <2> QED
      BY <1>2
  <1> QED
    BY <1>5, <1>6 DEF Has

\* What the end of a connection at frps leaves of the types.
LEMMA EndTyped ==
    ASSUME TypeOK, NEW g \in Gens, EndServing(g), UNCHANGED gen
    PROVE  /\ toServer' \in Queues /\ \A x \in Msg : Weaker(toServer', toServer, x)
           /\ toServer' = [toServer EXCEPT ![g] = <<>>]
           /\ sessions' \subseteq 1..gen' /\ serving' \subseteq 1..gen'
           /\ owner' \in (sessions' \cap serving') \cup {NoGen}
  BY Generations, EmptyQueue DEF EndServing, TypeOK

LEMMA TypeStep ==
    TypeOK /\ RetryInv /\ ExecInv /\ LoginInv /\ [Next]_vars => TypeOK'
  <1> SUFFICES ASSUME TypeOK, RetryInv, ExecInv, LoginInv, [Next]_vars PROVE TypeOK'
    OBVIOUS
  <1>0. toServer \in Queues /\ toClient \in Queues
    BY Generations
  <1>1. CASE Dial
    <2>1. gen + 1 \in Gens
      BY <1>1, Generations DEF Dial, RetryInv
    <2>2. /\ link' \in [Gens -> {"none", "up", "broken"}]
          /\ toServer' \in [Gens -> Seq(Msg)]
      <3> DEFINE one == <<Login>>
      <3>1. one \in Seq(Msg)
        BY Messages
      <3>2. toServer' = [toServer EXCEPT ![gen + 1] = one]
        BY <1>1 DEF Dial
      <3>3. link' = [link EXCEPT ![gen + 1] = "up"]
        BY <1>1 DEF Dial
      <3> HIDE DEF one
      <3> QED
        BY <2>1, <3>1, <3>2, <3>3 DEF TypeOK
    <2>3. /\ gen' \in Gens /\ phase' \in Phase
          /\ serving' \subseteq 1..gen' /\ sessions' \subseteq 1..gen'
      <3>1. gen' = gen + 1 /\ serving' = serving \cup {gen + 1} /\ phase' = "login"
            /\ UNCHANGED sessions
        BY <1>1 DEF Dial
      <3>2. gen \in Nat /\ serving \subseteq 1..gen /\ sessions \subseteq 1..gen
        BY Generations DEF TypeOK
      <3>3. \A g \in 1..gen : g \in 1..(gen + 1)
        BY <3>2
      <3>4. gen + 1 \in 1..(gen + 1)
        BY <3>2
      <3> QED
        BY <2>1, <3>1, <3>2, <3>3, <3>4 DEF Phase
    <2>4. UNCHANGED <<fixed, retries, executing, sessions, owner, cmdVars, toClient>>
      BY <1>1 DEF Dial
    <2>5. owner' \in (sessions' \cap serving') \cup {NoGen}
      BY <1>1 DEF Dial, TypeOK
    <2> QED
      BY <2>2, <2>3, <2>4, <2>5 DEF TypeOK, fixed, cmdVars
  <1>2. ASSUME Retry, UNCHANGED <<fixed, link, frpsVars, cmdVars, toServer>>,
               toClient' \in Queues, phase # "stopped"
        PROVE  TypeOK'
    <2>1. retries' \in 0..(MaxRetries + 1) /\ phase' \in Phase
      BY <1>2, Generations DEF Retry, RetryInv, Phase
    <2> QED
      BY <1>2, <2>1 DEF TypeOK, Retry, fixed, frpsVars, cmdVars, Queues
  <1>3. CASE DialFails
    BY <1>0, <1>2, <1>3 DEF DialFails
  <1>4. ASSUME NEW n \in 1..3, ReadLoginResp(n) PROVE TypeOK'
    <2>1. toClient' \in Queues
      BY <1>4, LoginQueue
    <2>2. CASE Retry
      BY <1>2, <1>4, <2>1, <2>2 DEF ReadLoginResp
    <2>3. CASE phase' = "registering" /\ UNCHANGED <<gen, retries, executing>>
      BY <1>4, <2>1, <2>3 DEF ReadLoginResp, TypeOK, fixed, frpsVars, cmdVars, Queues, Phase
    <2> QED
      BY <1>4, <2>2, <2>3 DEF ReadLoginResp
  <1>5. CASE LoginFails
    BY <1>0, <1>2, <1>5 DEF LoginFails
  <1>6. CASE RegisterProxies
    <2>1. CASE phase' = "running" /\ UNCHANGED <<gen, retries, executing>>
                 /\ toServer' = Sent(toServer, gen, <<Register>>)
      <3>1. toServer' \in Queues
        <4>1. gen \in Gens /\ Register \in Msg
          BY <1>6, HasGen, Messages DEF RegisterProxies
        <4> QED
          BY <1>0, <2>1, <4>1, SendQueue
      <3> QED
        BY <1>6, <2>1, <3>1 DEF RegisterProxies, TypeOK, fixed, frpsVars, cmdVars, Queues,
                                Phase
    <2>2. CASE Retry /\ UNCHANGED toServer
      BY <1>0, <1>2, <1>6, <2>2 DEF RegisterProxies
    <2> QED
      BY <1>6, <2>1, <2>2 DEF RegisterProxies
  <1>7. CASE ReadError
    <2>1. toClient' \in Queues
      BY <1>7, FrpcReadsQueue DEF ReadError
    <2> QED
      BY <1>7, <2>1 DEF ReadError, TypeOK, fixed, frpcVars, frpsVars, cmdVars, Queues
  <1>8. ASSUME NEW c \in Cmds, HandleRemoteCmd(c) PROVE TypeOK'
    <2>1. toClient' \in Queues
      BY <1>8, FrpcReadsQueue DEF HandleRemoteCmd
    <2> QED
      BY <1>8, <2>1 DEF HandleRemoteCmd, TypeOK, fixed, frpsVars, cmdVars, Queues
  <1>9. ASSUME NEW c \in Cmds, RemoteCmdDone(c) PROVE TypeOK'
    <2>1. gen \in Gens /\ Resp(c) \in Msg
      BY <1>9, HasGen, Messages DEF RemoteCmdDone, ExecInv
    <2>2. toServer' \in Queues
      BY <1>0, <1>9, <2>1, SendQueue DEF RemoteCmdDone
    <2> QED
      BY <1>9, <2>2 DEF RemoteCmdDone, TypeOK, fixed, frpsVars, cmdVars, Queues
  <1>10. CASE ReaderEnds
    BY <1>0, <1>2, <1>10 DEF ReaderEnds
  <1>11. CASE DelayOver
    BY <1>11 DEF DelayOver, TypeOK, fixed, frpsVars, cmdVars, Phase
  <1>12. ASSUME NEW g \in Gens, HandleLogin(g) PROVE TypeOK'
    <2>1. toServer' \in Queues /\ g \in serving
      BY <1>12, FrpsReadsQueue DEF HandleLogin
    <2>2. toClient' \in Queues
      BY <1>0, <1>12, Messages, SendQueue DEF HandleLogin
    <2>3. sessions' = sessions \cup {g}
          /\ UNCHANGED <<fixed, link, frpcVars, serving, owner, cmdVars>>
      BY <1>12 DEF HandleLogin
    <2> QED
      BY <2>1, <2>2, <2>3 DEF TypeOK, fixed, frpcVars, cmdVars, Queues
  <1>13. ASSUME NEW g \in Gens, HandleBadLogin(g) PROVE TypeOK'
    <2>1. UNCHANGED <<fixed, link, frpcVars, cmdVars>> /\ EndServing(g)
      BY <1>13 DEF HandleBadLogin
    <2>2. toClient' \in Queues
      BY <1>0, <1>13, Messages, SendQueue DEF HandleBadLogin
    <2>3. /\ toServer' \in Queues
          /\ sessions' \subseteq 1..gen' /\ serving' \subseteq 1..gen'
          /\ owner' \in (sessions' \cap serving') \cup {NoGen}
      BY <2>1, EndTyped DEF frpcVars
    <2> QED
      BY <2>1, <2>2, <2>3 DEF TypeOK, fixed, frpcVars, cmdVars, Queues
  <1>14. ASSUME NEW g \in Gens, HandleRegister(g) PROVE TypeOK'
    <2>1. toServer' \in Queues /\ Has(toServer, g, Register)
      BY <1>14, FrpsReadsQueue DEF HandleRegister
    <2>2. g \in sessions /\ g \in serving
      BY <1>14, <2>1 DEF LoginInv, HandleRegister, FrpsReads
    <2>3. toClient' \in Queues /\ owner' \in (sessions \cap serving) \cup {NoGen}
      BY <1>0, <1>14, <2>2, Messages, SendQueue DEF HandleRegister, TypeOK
    <2>4. UNCHANGED <<fixed, link, frpcVars, serving, sessions, cmdVars>>
      BY <1>14 DEF HandleRegister
    <2> QED
      BY <2>1, <2>3, <2>4 DEF TypeOK, fixed, frpcVars, cmdVars, Queues
  <1>15. ASSUME NEW g \in Gens, ConnectionEnds(g) PROVE TypeOK'
    <2>1. UNCHANGED <<fixed, link, frpcVars, cmdVars, toClient>> /\ EndServing(g)
      BY <1>15 DEF ConnectionEnds
    <2>2. /\ toServer' \in Queues
          /\ sessions' \subseteq 1..gen' /\ serving' \subseteq 1..gen'
          /\ owner' \in (sessions' \cap serving') \cup {NoGen}
      BY <2>1, EndTyped DEF frpcVars
    <2> QED
      BY <2>1, <2>2 DEF TypeOK, fixed, frpcVars, cmdVars, Queues
  <1>16. ASSUME NEW g \in Gens, NEW c \in Cmds, HandleRemoteCmdResp(g, c) PROVE TypeOK'
    <2>1. toServer' \in Queues
      BY <1>16, FrpsReadsQueue DEF HandleRemoteCmdResp
    <2>2. cmd' \in [Cmds -> CmdState]
      BY <1>16 DEF HandleRemoteCmdResp, TypeOK, CmdState
    <2> QED
      BY <1>16, <2>1, <2>2 DEF HandleRemoteCmdResp, TypeOK, fixed, frpcVars, frpsVars, Queues
  <1>23. ASSUME NEW g \in Gens, LoginRespFails(g) PROVE TypeOK'
    <2>1. toServer' \in Queues /\ toClient' \in Queues
      BY <1>0, <1>23, EmptyQueue DEF LoginRespFails
    <2>2. /\ sessions' = sessions \cup {g} /\ serving' = serving \ {g} /\ g \in serving
          /\ owner' = IF owner = g THEN NoGen ELSE owner
          /\ link' = [link EXCEPT ![g] = "broken"]
          /\ UNCHANGED <<fixed, frpcVars, cmdVars>>
      BY <1>23 DEF LoginRespFails
    <2>3. /\ sessions' \subseteq 1..gen /\ serving' \subseteq 1..gen
          /\ owner' \in (sessions' \cap serving') \cup {NoGen}
          /\ link' \in [Gens -> {"none", "up", "broken"}]
      BY <2>2 DEF TypeOK
    <2> QED
      BY <2>1, <2>2, <2>3 DEF TypeOK, fixed, frpcVars, cmdVars, Queues
  <1>17. ASSUME NEW g \in Gens, Breaks(g) PROVE TypeOK'
    <2>1. toServer' \in Queues /\ toClient' \in Queues
      BY <1>0, <1>17, EmptyQueue DEF Breaks
    <2> QED
      BY <1>17, <2>1 DEF Breaks, TypeOK, fixed, frpcVars, frpsVars, cmdVars, Queues
  <1>18. ASSUME NEW c \in Cmds, TakeResult(c) PROVE TypeOK'
    BY <1>18 DEF TakeResult, TypeOK, fixed, frpcVars, frpsVars, CmdState
  <1>19. ASSUME NEW c \in Cmds, CmdTimesOut(c) PROVE TypeOK'
    BY <1>19 DEF CmdTimesOut, TypeOK, fixed, frpcVars, frpsVars, CmdState
  <1>20. ASSUME NEW c \in Cmds, NEW g \in Gens, SendRemoteCmd(c, g) PROVE TypeOK'
    <2>1. toClient' \in Queues
      BY <1>0, <1>20, Messages, SendQueue DEF SendRemoteCmd
    <2>2. cmd' \in [Cmds -> CmdState] /\ target' \in [Cmds -> Gens \cup {NoGen}]
          /\ pending' \subseteq Cmds
      BY <1>20 DEF SendRemoteCmd, TypeOK, CmdState
    <2> QED
      BY <1>20, <2>1, <2>2 DEF SendRemoteCmd, TypeOK, fixed, frpcVars, frpsVars, Queues
  <1>21. CASE FrpsRestarts
    <2>1. toServer' \in Queues /\ toClient' \in Queues
      BY <1>21 DEF FrpsRestarts, Queues
    <2>2. cmd' \in [Cmds -> CmdState] /\ link' \in [Gens -> {"none", "up", "broken"}]
      BY <1>21 DEF FrpsRestarts, TypeOK, CmdState
    <2> QED
      BY <1>21, <2>1, <2>2 DEF FrpsRestarts, TypeOK, fixed, frpcVars, Queues
  <1>22. CASE UNCHANGED vars
    BY <1>22 DEF vars, fixed, frpcVars, frpsVars, cmdVars, TypeOK
  <1> QED
    BY <1>1, <1>3, <1>4, <1>5, <1>6, <1>7, <1>8, <1>9, <1>10, <1>11, <1>12, <1>13, <1>14,
       <1>15, <1>16, <1>17, <1>18, <1>19, <1>20, <1>21, <1>22, <1>23
    DEF Next, Frpc, FrpsConn, Waiter

-----------------------------------------------------------------------------
(* Connections that are not up carry nothing. *)

LEMMA LinkStep ==
    TypeOK /\ RetryInv /\ ExecInv /\ LinkInv /\ [Next]_vars => LinkInv'
  <1> SUFFICES ASSUME TypeOK, RetryInv, ExecInv, LinkInv, [Next]_vars PROVE LinkInv'
    OBVIOUS
  <1>0. /\ toServer \in Queues /\ toClient \in Queues /\ gen \in Nat /\ Gens \subseteq Nat
        /\ link \in [Gens -> {"none", "up", "broken"}]
    BY Generations DEF TypeOK
  <1>1. CASE Dial
    <2>1. /\ gen' = gen + 1 /\ link' = [link EXCEPT ![gen + 1] = "up"]
          /\ toServer' = [toServer EXCEPT ![gen + 1] = <<Login>>] /\ UNCHANGED toClient
      BY <1>1 DEF Dial
    <2> QED
      BY <1>0, <2>1 DEF LinkInv, Queues
  <1>2. ASSUME NEW g \in Gens, NEW m \in Msg,
               \/ toServer' = Sent(toServer, g, <<m>>) /\ UNCHANGED toClient
               \/ toClient' = Sent(toClient, g, <<m>>) /\ UNCHANGED toServer,
               UNCHANGED <<gen, link>>
        PROVE  LinkInv'
    <2>1. ASSUME NEW h \in Gens, link[h] # "up"
          PROVE  toServer'[h] = toServer[h] /\ toClient'[h] = toClient[h]
      <3>1. CASE link[g] # "up"
        BY <1>2, <3>1 DEF Sent
      <3>2. CASE link[g] = "up"
        BY <1>0, <1>2, <2>1, <3>2 DEF Sent, Queues
      <3> QED
        BY <3>1, <3>2
    <2> QED
      BY <1>2, <2>1 DEF LinkInv
  <1>3. ASSUME NEW g \in Gens, toServer[g] # <<>>, NEW r,
               toServer' = [toServer EXCEPT ![g] = r],
               \A h \in Gens : h # g /\ link[h] # "up" => toClient'[h] = toClient[h],
               UNCHANGED <<gen, link>>
        PROVE  LinkInv'
    <2>1. link[g] = "up"
      BY <1>3 DEF LinkInv
    <2>2. \A h \in Gens : h # g => toServer'[h] = toServer[h]
      BY <1>0, <1>3 DEF Queues
    <2> QED
      BY <1>3, <2>1, <2>2 DEF LinkInv
  <1>4. ASSUME NEW g \in Gens, toClient[g] # <<>>, NEW r,
               toClient' = [toClient EXCEPT ![g] = r], UNCHANGED <<toServer, gen, link>>
        PROVE  LinkInv'
    <2>1. link[g] = "up"
      BY <1>4 DEF LinkInv
    <2>2. \A h \in Gens : h # g => toClient'[h] = toClient[h]
      BY <1>0, <1>4 DEF Queues
    <2> QED
      BY <1>4, <2>1, <2>2 DEF LinkInv
  <1>5. CASE UNCHANGED <<gen, link, toServer, toClient>>
    BY <1>5 DEF LinkInv
  <1>6. CASE DialFails \/ LoginFails \/ ReaderEnds \/ DelayOver
    BY <1>5, <1>6 DEF DialFails, LoginFails, ReaderEnds, DelayOver, Retry
  <1>7. ASSUME NEW n \in 1..3, ReadLoginResp(n) PROVE LinkInv'
    <2>1. gen \in Gens
      BY <1>7, HasGen DEF ReadLoginResp
    <2>2. toClient[gen] # <<>>
      <3>1. n \in 1..Len(toClient[gen])
        BY <1>7 DEF ReadLoginResp
      <3> QED
        BY <3>1
    <2>3. UNCHANGED <<toServer, gen, link>>
      BY <1>7 DEF ReadLoginResp, Retry
    <2>4. toClient' = [toClient EXCEPT ![gen] =
                         SubSeq(toClient[gen], n + 1, Len(toClient[gen]))]
      BY <1>7 DEF ReadLoginResp
    <2> QED
      BY <1>4, <2>1, <2>2, <2>3, <2>4
  <1>8. CASE RegisterProxies
    <2>1. gen \in Gens /\ Register \in Msg
      BY <1>8, HasGen, Messages DEF RegisterProxies
    <2>2. CASE toServer' = Sent(toServer, gen, <<Register>>)
      BY <1>2, <1>8, <2>1, <2>2 DEF RegisterProxies, Retry
    <2>3. CASE UNCHANGED toServer
      BY <1>5, <1>8, <2>3 DEF RegisterProxies, Retry
    <2> QED
      BY <1>8, <2>2, <2>3 DEF RegisterProxies
  <1>9. ASSUME NEW m, Reads(m), UNCHANGED <<toServer, gen, link>> PROVE LinkInv'
    <2>1. gen \in Gens
      BY <1>9, HasGen DEF Reads
    <2>2. toClient[gen] # <<>> /\ toClient' = [toClient EXCEPT ![gen] = Tail(toClient[gen])]
      BY <1>9 DEF Reads
    <2> QED
      BY <1>4, <1>9, <2>1, <2>2
  <1>10. CASE ReadError \/ \E c \in Cmds : HandleRemoteCmd(c)
    BY <1>9, <1>10 DEF ReadError, HandleRemoteCmd, frpcVars
  <1>11. ASSUME NEW c \in Cmds, RemoteCmdDone(c) PROVE LinkInv'
    <2>1. gen \in Gens /\ Resp(c) \in Msg
      BY <1>11, HasGen, Messages DEF RemoteCmdDone, ExecInv
    <2> QED
      BY <1>2, <1>11, <2>1 DEF RemoteCmdDone
  <1>12. ASSUME NEW g \in Gens, NEW m, FrpsReads(g, m), UNCHANGED <<gen, link>>,
                \/ UNCHANGED toClient
                \/ \E a \in Msg : toClient' = Sent(toClient, g, <<a>>)
         PROVE  LinkInv'
    <2>1. /\ toServer[g] # <<>> /\ toServer' = [toServer EXCEPT ![g] = Tail(toServer[g])]
      BY <1>12 DEF FrpsReads
    <2>2. \A h \in Gens : h # g => toClient'[h] = toClient[h]
      BY <1>0, <1>12 DEF Sent, Queues
    <2> QED
      BY <1>3, <1>12, <2>1, <2>2
  <1>13. ASSUME NEW g \in Gens, HandleLogin(g) PROVE LinkInv'
    BY <1>12, <1>13, Messages DEF HandleLogin, frpcVars
  <1>14. ASSUME NEW g \in Gens, HandleRegister(g) PROVE LinkInv'
    BY <1>12, <1>14, Messages DEF HandleRegister, frpcVars
  <1>15. ASSUME NEW g \in Gens, NEW c \in Cmds, HandleRemoteCmdResp(g, c) PROVE LinkInv'
    BY <1>12, <1>15 DEF HandleRemoteCmdResp, frpcVars
  <1>16. ASSUME NEW g \in Gens, HandleBadLogin(g) PROVE LinkInv'
    <2>1. /\ toServer[g] # <<>> /\ toServer' = [toServer EXCEPT ![g] = <<>>]
          /\ toClient' = Sent(toClient, g, <<LoginError>>) /\ UNCHANGED <<gen, link>>
      BY <1>16 DEF HandleBadLogin, EndServing, frpcVars
    <2>2. \A h \in Gens : h # g => toClient'[h] = toClient[h]
      BY <1>0, <2>1 DEF Sent, Queues
    <2> QED
      BY <1>3, <2>1, <2>2
  <1>17. ASSUME NEW g \in Gens, ConnectionEnds(g) PROVE LinkInv'
    <2>1. toServer' = [toServer EXCEPT ![g] = <<>>] /\ UNCHANGED <<toClient, gen, link>>
      BY <1>17 DEF ConnectionEnds, EndServing, frpcVars
    <2> QED
      BY <1>0, <2>1 DEF LinkInv, Queues
  <1>18. ASSUME NEW g \in Gens, Breaks(g) \/ LoginRespFails(g) PROVE LinkInv'
    <2>1. /\ link[g] = "up" /\ link' = [link EXCEPT ![g] = "broken"] /\ UNCHANGED gen
          /\ toServer' = [toServer EXCEPT ![g] = <<>>]
          /\ toClient' = [toClient EXCEPT ![g] = <<>>]
      BY <1>18 DEF Breaks, LoginRespFails, frpcVars, LinkInv
    <2> QED
      BY <1>0, <2>1 DEF LinkInv, Queues
  <1>19. ASSUME NEW c \in Cmds, NEW g \in Gens, SendRemoteCmd(c, g) PROVE LinkInv'
    <2>1. UNCHANGED <<toServer, gen, link>>
          /\ (UNCHANGED toClient \/ toClient' = Sent(toClient, g, <<Cmd(c)>>))
      BY <1>19 DEF SendRemoteCmd, frpcVars
    <2> QED
      BY <1>2, <1>5, <2>1, Messages
  <1>20. CASE FrpsRestarts
    <2>1. /\ link' = [g \in Gens |-> IF link[g] = "up" THEN "broken" ELSE link[g]]
          /\ toServer' = [g \in Gens |-> <<>>] /\ toClient' = [g \in Gens |-> <<>>]
          /\ UNCHANGED gen
      BY <1>20 DEF FrpsRestarts, frpcVars
    <2> QED
      BY <2>1 DEF LinkInv
  <1>21. CASE UNCHANGED vars \/ \E c \in Cmds : TakeResult(c) \/ CmdTimesOut(c)
    BY <1>5, <1>21 DEF TakeResult, CmdTimesOut, vars, frpcVars
  <1> QED
    BY <1>1, <1>6, <1>7, <1>8, <1>10, <1>11, <1>13, <1>14, <1>15, <1>16, <1>17, <1>18, <1>19,
       <1>20, <1>21 DEF Next, Frpc, FrpsConn, Waiter

-----------------------------------------------------------------------------
(* frpc registers in a session that frps knows. *)

LEMMA LoginKept ==
    ASSUME TypeOK, LoginInv, UNCHANGED <<tokenOk, gen>>,
           Weaker(toClient', toClient, LoginOk), Weaker(toServer', toServer, Register),
           phase' \in {"login", "registering", "running"} =>
              /\ phase' = phase \/ (phase = "registering" /\ phase' = "running")
              /\ link'[gen] = "up" => link[gen] = "up",
           sessions \subseteq sessions'
    PROVE  LoginInv'
  <1>1. ASSUME NEW g \in Gens, Has(toClient', g, LoginOk)
        PROVE  tokenOk' /\ (g = gen' /\ phase' = "login" /\ link'[g] = "up" => g \in sessions')
    <2>1. Has(toClient, g, LoginOk)
      BY <1>1 DEF Weaker
    <2> QED
      BY <2>1 DEF LoginInv
  <1>2. phase' \in {"registering", "running"} =>
           tokenOk' /\ (link'[gen'] = "up" => gen' \in sessions')
    BY DEF LoginInv
  <1>3. \A g \in Gens : Has(toServer', g, Register) => g \in sessions'
    BY DEF LoginInv, Weaker
  <1> QED
    BY <1>1, <1>2, <1>3 DEF LoginInv

\* The same when frps ends a connection frpc does not use.
LEMMA LoginEnds ==
    ASSUME TypeOK, LoginInv, NEW g \in Gens, EndServing(g), UNCHANGED <<tokenOk, gen, phase, link>>,
           Weaker(toClient', toClient, LoginOk),
           \/ ~tokenOk
           \/ g # gen \/ link[g] # "up" \/ phase \in {"waiting", "dialing", "stopped"}
    PROVE  LoginInv'
  <1>1. /\ \A m \in Msg : Weaker(toServer', toServer, m)
        /\ toServer' = [toServer EXCEPT ![g] = <<>>] /\ toServer \in Queues
        /\ sessions' = sessions \ {g}
    BY EndTyped, Generations DEF EndServing
  <1>2. ASSUME NEW h \in Gens, Has(toServer', h, Register) PROVE h \in sessions'
    <2>1. Has(toServer, h, Register)
      BY <1>1, <1>2, Messages DEF Weaker
    <2>2. h # g
      <3>1. toServer'[g] = <<>>
        BY <1>1 DEF Queues
      <3> QED
        BY <1>2, <3>1 DEF Has
    <2> QED
      BY <1>1, <2>1, <2>2 DEF LoginInv
  <1>3. ASSUME NEW h \in Gens, Has(toClient', h, LoginOk)
        PROVE  tokenOk' /\ (h = gen' /\ phase' = "login" /\ link'[h] = "up" => h \in sessions')
    <2>1. Has(toClient, h, LoginOk)
      BY <1>3 DEF Weaker
    <2>2. tokenOk /\ (h = gen /\ phase = "login" /\ link[h] = "up" => h \in sessions)
      BY <2>1 DEF LoginInv
    <2>3. ASSUME h = gen', phase' = "login", link'[h] = "up" PROVE h \in sessions'
      <3>1. h \in sessions /\ h # g
        BY <2>2, <2>3
      <3> QED
        BY <1>1, <3>1
    <2> QED
      BY <2>2, <2>3
  <1>4. ASSUME phase' \in {"registering", "running"}
        PROVE  tokenOk' /\ (link'[gen'] = "up" => gen' \in sessions')
    <2>1. tokenOk /\ (link[gen] = "up" => gen \in sessions)
      BY <1>4 DEF LoginInv
    <2>2. ASSUME link'[gen'] = "up" PROVE gen' \in sessions'
      <3>1. gen \in sessions /\ gen # g
        BY <1>4, <2>1, <2>2
      <3> QED
        BY <1>1, <3>1
    <2> QED
      BY <2>1, <2>2
  <1> QED
    BY <1>2, <1>3, <1>4 DEF LoginInv

LEMMA LoginStep ==
    TypeOK /\ RetryInv /\ ExecInv /\ LinkInv /\ LoginInv /\ [Next]_vars => LoginInv'
  <1> SUFFICES ASSUME TypeOK, RetryInv, ExecInv, LinkInv, LoginInv, [Next]_vars
               PROVE  LoginInv'
    OBVIOUS
  <1>0. /\ toServer \in Queues /\ toClient \in Queues
        /\ {Login, Register, LoginOk, LoginError, Error} \subseteq Msg
        /\ Weaker(toClient, toClient, LoginOk) /\ Weaker(toServer, toServer, Register)
    BY Generations, Messages, Same
  <1>1. CASE Dial
    <2>1. gen + 1 \in Gens /\ gen \in Nat
      BY <1>1, Generations DEF Dial, RetryInv
    <2>2. /\ gen' = gen + 1 /\ toServer' = [toServer EXCEPT ![gen + 1] = <<Login>>]
          /\ phase' = "login" /\ UNCHANGED <<tokenOk, sessions, toClient>>
      BY <1>1 DEF Dial, fixed
    <2>3. toClient[gen + 1] = <<>>
      BY <2>1 DEF LinkInv
    <2>4. ASSUME NEW h \in Gens, Has(toServer', h, Register) PROVE h \in sessions
      <3>1. CASE h = gen + 1
        <4>1. toServer'[h] = <<Login>>
          BY <1>0, <2>2, <3>1 DEF Queues
        <4> QED
          BY <2>4, <4>1, Messages DEF Has
      <3>2. CASE h # gen + 1
        <4>1. toServer'[h] = toServer[h]
          BY <1>0, <2>2, <3>2 DEF Queues
        <4> QED
          BY <2>4, <4>1 DEF Has, LoginInv
      <3> QED
        BY <3>1, <3>2
    <2>5. ~Has(toClient, gen + 1, LoginOk)
      BY <2>3 DEF Has
    <2> QED
      BY <2>1, <2>2, <2>4, <2>5 DEF LoginInv
  <1>2. ASSUME Retry, UNCHANGED <<tokenOk, sessions, toServer>>,
               Weaker(toClient', toClient, LoginOk)
        PROVE  LoginInv'
    BY <1>0, <1>2, LoginKept DEF Retry
  <1>3. CASE DialFails \/ LoginFails \/ ReaderEnds
    BY <1>0, <1>2, <1>3 DEF DialFails, LoginFails, ReaderEnds, fixed, frpsVars
  <1>4. ASSUME NEW n \in 1..3, ReadLoginResp(n) PROVE LoginInv'
    <2>1. /\ Weaker(toClient', toClient, LoginOk) /\ gen \in Gens
          /\ Has(toClient, gen, Head(toClient[gen]))
      BY <1>0, <1>4, LoginQueue, HasGen DEF ReadLoginResp
    <2>2. UNCHANGED <<tokenOk, sessions, toServer, link>> /\ phase = "login"
      BY <1>4 DEF ReadLoginResp, fixed, frpsVars
    <2>3. CASE Retry
      BY <1>2, <2>1, <2>2, <2>3
    <2>4. CASE /\ Head(toClient[gen]) = LoginOk
               /\ phase' = "registering" /\ UNCHANGED <<gen, retries, executing>>
      BY <2>1, <2>2, <2>4 DEF LoginInv, Weaker
    <2> QED
      BY <1>4, <2>3, <2>4 DEF ReadLoginResp
  <1>5. CASE RegisterProxies
    <2>1. UNCHANGED <<tokenOk, sessions, toClient, link>> /\ phase = "registering"
          /\ gen \in Gens
      BY <1>5, HasGen DEF RegisterProxies, fixed, frpsVars
    <2>2. CASE Retry /\ UNCHANGED toServer
      BY <1>0, <1>2, <2>1, <2>2
    <2>3. CASE /\ phase' = "running" /\ UNCHANGED <<gen, retries, executing>>
               /\ toServer' = Sent(toServer, gen, <<Register>>)
      <3>1. \A h \in Gens : Has(toServer', h, Register) =>
               Has(toServer, h, Register) \/ (h = gen /\ link[gen] = "up")
        BY <1>0, <2>1, <2>3, SendQueue
      <3> QED
        BY <2>1, <2>3, <3>1 DEF LoginInv
    <2> QED
      BY <1>5, <2>2, <2>3 DEF RegisterProxies
  <1>6. CASE ReadError \/ \E c \in Cmds : HandleRemoteCmd(c)
    <2>1. PICK m : Reads(m)
      BY <1>6 DEF ReadError, HandleRemoteCmd
    <2>2. Weaker(toClient', toClient, LoginOk)
      BY <1>0, <2>1, FrpcReadsQueue
    <2>3. UNCHANGED <<tokenOk, gen, toServer, phase, link, sessions>>
      BY <1>6 DEF ReadError, HandleRemoteCmd, fixed, frpsVars, frpcVars
    <2> QED
      BY <1>0, <2>2, <2>3, LoginKept
  <1>7. ASSUME NEW c \in Cmds, RemoteCmdDone(c) PROVE LoginInv'
    <2>1. gen \in Gens /\ Resp(c) \in Msg /\ Resp(c) # Register
      BY <1>7, HasGen, Messages DEF RemoteCmdDone, ExecInv
    <2>2. Weaker(toServer', toServer, Register)
      BY <1>0, <1>7, <2>1, SendQueue DEF RemoteCmdDone
    <2>3. UNCHANGED <<tokenOk, gen, toClient, phase, link, sessions>>
      BY <1>7 DEF RemoteCmdDone, fixed, frpsVars
    <2> QED
      BY <1>0, <2>2, <2>3, LoginKept
  <1>8. CASE DelayOver
    BY <1>0, <1>8, LoginKept DEF DelayOver, fixed, frpsVars
  <1>9. ASSUME NEW g \in Gens, HandleLogin(g) PROVE LoginInv'
    <2>1. /\ tokenOk /\ UNCHANGED <<tokenOk, gen, phase, link>>
          /\ sessions' = sessions \cup {g}
          /\ toClient' = Sent(toClient, g, <<LoginOk>>)
      BY <1>9 DEF HandleLogin, fixed, frpcVars
    <2>2. Weaker(toServer', toServer, Register)
      BY <1>0, <1>9, FrpsReadsQueue DEF HandleLogin
    <2>3. \A h \in Gens : Has(toClient', h, LoginOk) => Has(toClient, h, LoginOk) \/ h = g
      BY <1>0, <2>1, SendQueue
    <2> QED
      BY <2>1, <2>2, <2>3 DEF LoginInv, Weaker
  <1>10. ASSUME NEW g \in Gens, HandleBadLogin(g) PROVE LoginInv'
    <2>1. /\ EndServing(g) /\ UNCHANGED <<tokenOk, gen, phase, link>> /\ ~tokenOk
          /\ toClient' = Sent(toClient, g, <<LoginError>>)
      BY <1>10 DEF HandleBadLogin, fixed, frpcVars
    <2>2. Weaker(toClient', toClient, LoginOk)
      BY <1>0, <2>1, Messages, SendQueue
    <2> QED
      BY <2>1, <2>2, LoginEnds
  <1>11. ASSUME NEW g \in Gens, HandleRegister(g) PROVE LoginInv'
    <2>1. UNCHANGED <<tokenOk, gen, phase, link, sessions>>
      BY <1>11 DEF HandleRegister, fixed, frpcVars
    <2>2. Weaker(toServer', toServer, Register)
      BY <1>0, <1>11, FrpsReadsQueue DEF HandleRegister
    <2>3. Weaker(toClient', toClient, LoginOk)
      <3>1. toClient' = Sent(toClient, g, <<Error>>) \/ UNCHANGED toClient
        BY <1>11 DEF HandleRegister
      <3> QED
        BY <1>0, <3>1, Messages, SendQueue
    <2> QED
      BY <2>1, <2>2, <2>3, LoginKept
  <1>12. ASSUME NEW g \in Gens, ConnectionEnds(g) PROVE LoginInv'
    <2>1. /\ EndServing(g) /\ UNCHANGED <<tokenOk, gen, phase, link, toClient>>
          /\ g # gen \/ link[g] # "up" \/ phase \in {"waiting", "dialing", "stopped"}
      BY <1>12 DEF ConnectionEnds, fixed, frpcVars
    <2> QED
      BY <1>0, <2>1, LoginEnds
  <1>13. ASSUME NEW g \in Gens, NEW c \in Cmds, HandleRemoteCmdResp(g, c) PROVE LoginInv'
    <2>1. UNCHANGED <<tokenOk, gen, phase, link, sessions, toClient>>
      BY <1>13 DEF HandleRemoteCmdResp, fixed, frpcVars, frpsVars
    <2>2. Weaker(toServer', toServer, Register)
      BY <1>0, <1>13, FrpsReadsQueue DEF HandleRemoteCmdResp
    <2> QED
      BY <1>0, <2>1, <2>2, LoginKept
  <1>14. ASSUME NEW g \in Gens, Breaks(g) \/ LoginRespFails(g) PROVE LoginInv'
    <2>1. /\ UNCHANGED <<tokenOk, gen, phase>> /\ sessions \subseteq sessions'
          /\ link' = [link EXCEPT ![g] = "broken"]
          /\ toServer' = [toServer EXCEPT ![g] = <<>>]
          /\ toClient' = [toClient EXCEPT ![g] = <<>>]
      BY <1>14 DEF Breaks, LoginRespFails, fixed, frpcVars, frpsVars
    <2>2. Weaker(toClient', toClient, LoginOk) /\ Weaker(toServer', toServer, Register)
      BY <1>0, <2>1, EmptyQueue
    <2>3. \A h \in Gens : link'[h] = "up" => link[h] = "up"
      BY <2>1 DEF TypeOK
    <2>4. phase' \in {"login", "registering", "running"} => gen \in Gens
      BY <2>1, HasGen
    <2> QED
      BY <2>1, <2>2, <2>3, <2>4, LoginKept
  <1>15. ASSUME NEW c \in Cmds, NEW g \in Gens, SendRemoteCmd(c, g) PROVE LoginInv'
    <2>1. UNCHANGED <<tokenOk, gen, phase, link, sessions, toServer>>
      BY <1>15 DEF SendRemoteCmd, fixed, frpcVars, frpsVars
    <2>2. Weaker(toClient', toClient, LoginOk)
      <3>1. toClient' = Sent(toClient, g, <<Cmd(c)>>) \/ UNCHANGED toClient
        BY <1>15 DEF SendRemoteCmd
      <3> QED
        BY <1>0, <3>1, Messages, SendQueue
    <2> QED
      BY <1>0, <2>1, <2>2, LoginKept
  <1>16. CASE FrpsRestarts
    <2>1. /\ UNCHANGED <<tokenOk, gen, phase>>
          /\ link' = [g \in Gens |-> IF link[g] = "up" THEN "broken" ELSE link[g]]
          /\ toServer' = [g \in Gens |-> <<>>] /\ toClient' = [g \in Gens |-> <<>>]
      BY <1>16 DEF FrpsRestarts, fixed, frpcVars
    <2>2. /\ \A g \in Gens : ~Has(toServer', g, Register)
          /\ \A g \in Gens : ~Has(toClient', g, LoginOk)
      BY <1>0, <2>1, EmptyQueues
    <2>3. phase' \in {"registering", "running"} => gen \in Gens
      BY <2>1, HasGen
    <2> QED
      BY <2>1, <2>2, <2>3 DEF LoginInv
  <1>17. CASE UNCHANGED vars \/ \E c \in Cmds : TakeResult(c) \/ CmdTimesOut(c)
    BY <1>0, <1>17, LoginKept DEF TakeResult, CmdTimesOut, vars, fixed, frpcVars, frpsVars
  <1> QED
    BY <1>1, <1>3, <1>4, <1>5, <1>6, <1>7, <1>8, <1>9, <1>10, <1>11, <1>12, <1>13, <1>14,
       <1>15, <1>16, <1>17 DEF Next, Frpc, FrpsConn, Waiter

-----------------------------------------------------------------------------
(* A command is in flight once, and its books are right. *)

\* A step that sends and takes up no command, and ends the wait for none that is
\* in flight.
LEMMA FlightKept ==
    ASSUME FlightInv, executing' = executing,
           executing # {} => gen' = gen /\ (link'[gen] = "up" => link[gen] = "up"),
           \A c \in Cmds :
              /\ Weaker(toClient', toClient, Cmd(c)) /\ Weaker(toServer', toServer, Resp(c))
              /\ cmd[c] \in {"waiting", "timedOut"} => cmd'[c] \in {"waiting", "timedOut"}
              /\ cmd[c] = "failed" => cmd'[c] = "failed"
    PROVE  FlightInv'
  <1>1. \A c \in Cmds : (ToDo(c)' => ToDo(c)) /\ (Answering(c)' => Answering(c))
    BY DEF ToDo, Answering, Weaker
  <1>2. \A c \in Cmds : Once(toClient', Cmd(c)) /\ Once(toServer', Resp(c))
    BY DEF FlightInv, Weaker
  <1>3. ASSUME NEW c \in Cmds
        PROVE  /\ ToDo(c)' => c \notin executing' /\ ~Answering(c)'
               /\ c \in executing' => ~Answering(c)'
               /\ ToDo(c)' \/ Answering(c)' => cmd'[c] \in {"waiting", "timedOut"}
               /\ c \in executing' => \/ cmd'[c] \in {"waiting", "timedOut"}
                                      \/ cmd'[c] = "failed" /\ link'[gen'] # "up"
    <2>1. /\ ToDo(c) => c \notin executing /\ ~Answering(c)
          /\ c \in executing => ~Answering(c)
          /\ ToDo(c) \/ Answering(c) => cmd[c] \in {"waiting", "timedOut"}
          /\ c \in executing => \/ cmd[c] \in {"waiting", "timedOut"}
                                \/ cmd[c] = "failed" /\ link[gen] # "up"
      BY DEF FlightInv
    <2> QED
      BY <1>1, <2>1
  <1> QED
    BY <1>2, <1>3 DEF FlightInv

LEMMA FlightStep ==
    TypeOK /\ RetryInv /\ ExecInv /\ LinkInv /\ FlightInv /\ CommandBooks /\ [Next]_vars
        => FlightInv'
  <1> SUFFICES ASSUME TypeOK, RetryInv, ExecInv, LinkInv, FlightInv, CommandBooks,
                      [Next]_vars
               PROVE  FlightInv'
    OBVIOUS
  <1> DEFINE Flights == \A c \in Cmds : Weaker(toClient', toClient, Cmd(c))
             Answers == \A c \in Cmds : Weaker(toServer', toServer, Resp(c))
             Waits == \A c \in Cmds :
                /\ cmd[c] \in {"waiting", "timedOut"} => cmd'[c] \in {"waiting", "timedOut"}
                /\ cmd[c] = "failed" => cmd'[c] = "failed"
  <1>0. /\ toServer \in Queues /\ toClient \in Queues
        /\ UNCHANGED toClient => Flights
        /\ UNCHANGED toServer => Answers
        /\ UNCHANGED cmd => Waits
    BY Generations, Same
  <1>1. ASSUME Flights, Answers, Waits, UNCHANGED <<executing, gen, link>>
        PROVE  FlightInv'
    BY <1>1, FlightKept
  <1>2. CASE Dial
    <2>1. gen + 1 \in Gens
      BY <1>2, Generations DEF Dial, RetryInv
    <2>2. /\ toServer' = [toServer EXCEPT ![gen + 1] = <<Login>>]
          /\ UNCHANGED <<toClient, cmd, executing>> /\ executing = {}
      BY <1>2 DEF Dial, cmdVars, ExecInv
    <2>3. ASSUME NEW c \in Cmds PROVE Weaker(toServer', toServer, Resp(c))
      <3>1. \A h \in Gens : toServer'[h] = IF h = gen + 1 THEN <<Login>> ELSE toServer[h]
        BY <1>0, <2>1, <2>2 DEF Queues
      <3>2. \A h \in Gens : \A i \in 1..Len(toServer'[h]) :
               toServer'[h][i] = Resp(c) => h # gen + 1 /\ toServer'[h] = toServer[h]
        BY <3>1, Messages
      <3> QED
        BY <3>2 DEF Weaker, Has, Once
    <2> QED
      BY <1>0, <2>2, <2>3, FlightKept
  <1>3. CASE DialFails \/ LoginFails \/ ReaderEnds \/ DelayOver
    BY <1>0, <1>1, <1>3 DEF DialFails, LoginFails, ReaderEnds, DelayOver, Retry, frpsVars,
                           cmdVars
  <1>4. ASSUME NEW n \in 1..3, ReadLoginResp(n) PROVE FlightInv'
    <2>1. Flights
      BY <1>4, LoginQueue, Messages
    <2>2. UNCHANGED <<toServer, cmd, executing, gen, link>>
      BY <1>4 DEF ReadLoginResp, Retry, cmdVars
    <2> QED
      BY <1>0, <1>1, <2>1, <2>2
  <1>5. CASE RegisterProxies
    <2>1. gen \in Gens /\ UNCHANGED <<toClient, cmd, executing, gen, link>>
      BY <1>5, HasGen DEF RegisterProxies, Retry, cmdVars
    <2>2. toServer' = Sent(toServer, gen, <<Register>>) \/ UNCHANGED toServer
      BY <1>5 DEF RegisterProxies
    <2>3. Answers
      BY <1>0, <2>1, <2>2, Messages, SendQueue
    <2> QED
      BY <1>0, <1>1, <2>1, <2>3
  <1>6. CASE ReadError
    <2>1. Flights
      BY <1>6, FrpcReadsQueue, Messages DEF ReadError
    <2>2. UNCHANGED <<toServer, cmd, executing, gen, link>>
      BY <1>6 DEF ReadError, frpcVars, cmdVars
    <2> QED
      BY <1>0, <1>1, <2>1, <2>2
  <1>7. ASSUME NEW c \in Cmds, HandleRemoteCmd(c) PROVE FlightInv'
    <2>1. /\ Flights /\ Has(toClient, gen, Cmd(c))
          /\ Once(toClient, Cmd(c)) => \A h \in Gens : ~Has(toClient', h, Cmd(c))
      BY <1>7, FrpcReadsQueue, Messages DEF HandleRemoteCmd
    <2>2. /\ UNCHANGED <<toServer, cmd, gen, link>> /\ executing = {} /\ executing' = {c}
          /\ gen \in Gens
      BY <1>7, HasGen DEF HandleRemoteCmd, Reads, cmdVars
    <2>3. ToDo(c)
      BY <2>1, <2>2 DEF ToDo
    <2>4. /\ Once(toClient, Cmd(c)) /\ ~Answering(c)
          /\ cmd[c] \in {"waiting", "timedOut"}
      BY <2>3 DEF FlightInv
    <2>5. ~ToDo(c)' /\ ~Answering(c)'
      BY <2>1, <2>2, <2>4 DEF ToDo, Answering
    <2>6. \A d \in Cmds : /\ ToDo(d)' => ToDo(d)
                          /\ Answering(d)' <=> Answering(d)
      BY <2>1, <2>2 DEF ToDo, Answering, Weaker
    <2>7. \A d \in Cmds : Once(toClient', Cmd(d)) /\ Once(toServer', Resp(d))
      BY <2>1, <2>2 DEF FlightInv, Weaker
    <2> QED
      BY <2>2, <2>4, <2>5, <2>6, <2>7 DEF FlightInv
  <1>8. ASSUME NEW c \in Cmds, RemoteCmdDone(c) PROVE FlightInv'
    <2>1. gen \in Gens /\ Resp(c) \in Msg /\ c \in executing
      BY <1>8, HasGen, Messages DEF RemoteCmdDone, ExecInv
    <2>2. /\ UNCHANGED <<toClient, cmd, gen, link>> /\ executing' = {}
          /\ toServer' = Sent(toServer, gen, <<Resp(c)>>)
      BY <1>8 DEF RemoteCmdDone, cmdVars
    <2>3. /\ ~Answering(c) /\ ~ToDo(c) /\ Once(toServer, Resp(c))
          /\ cmd[c] \in {"waiting", "timedOut"} \/ link[gen] # "up"
      BY <2>1 DEF FlightInv
    <2>4. /\ \A h \in Gens, x \in Msg : Has(toServer', h, x) =>
                Has(toServer, h, x) \/ (x = Resp(c) /\ h = gen /\ link[gen] = "up")
          /\ \A x \in Msg : x # Resp(c) => Weaker(toServer', toServer, x)
          /\ Once(toServer, Resp(c)) /\ (\A h \in Gens : ~Has(toServer, h, Resp(c)))
                 => Once(toServer', Resp(c))
      BY <1>0, <2>1, <2>2, SendQueue
    <2>5. Once(toServer', Resp(c))
      BY <2>3, <2>4 DEF Answering
    <2>6. \A d \in Cmds : Answering(d)' =>
             Answering(d) \/ (d = c /\ cmd[c] \in {"waiting", "timedOut"})
      BY <2>3, <2>4, Messages DEF Answering
    <2>7. \A d \in Cmds : Once(toClient', Cmd(d)) /\ Once(toServer', Resp(d))
      BY <2>2, <2>4, <2>5, Messages DEF FlightInv, Weaker
    <2>8. \A d \in Cmds : ToDo(d)' <=> ToDo(d)
      BY <2>2 DEF ToDo
    <2> QED
      BY <2>2, <2>3, <2>6, <2>7, <2>8 DEF FlightInv
  <1>9. ASSUME NEW g \in Gens, NEW m \in Msg, FrpsReads(g, m) PROVE Answers
    BY <1>9, FrpsReadsQueue, Messages
  <1>10. ASSUME NEW g \in Gens, HandleLogin(g) \/ HandleRegister(g) PROVE FlightInv'
    <2>1. Answers
      BY <1>9, <1>10, Messages DEF HandleLogin, HandleRegister
    <2>2. UNCHANGED <<cmd, executing, gen, link>>
      BY <1>10 DEF HandleLogin, HandleRegister, frpcVars, cmdVars
    <2>3. \/ UNCHANGED toClient
          \/ \E m \in {LoginOk, Error} : toClient' = Sent(toClient, g, <<m>>)
      BY <1>10 DEF HandleLogin, HandleRegister
    <2>4. Flights
      BY <1>0, <2>3, Messages, SendQueue
    <2> QED
      BY <1>0, <1>1, <2>1, <2>2, <2>4
  <1>11. ASSUME NEW g \in Gens, HandleBadLogin(g) \/ ConnectionEnds(g) PROVE FlightInv'
    <2>1. UNCHANGED <<cmd, executing, gen, link>> /\ EndServing(g)
      BY <1>11 DEF HandleBadLogin, ConnectionEnds, frpcVars, cmdVars
    <2>2. Answers
      BY <2>1, EndTyped, Messages
    <2>3. UNCHANGED toClient \/ toClient' = Sent(toClient, g, <<LoginError>>)
      BY <1>11 DEF HandleBadLogin, ConnectionEnds
    <2>4. Flights
      BY <1>0, <2>3, Messages, SendQueue
    <2> QED
      BY <1>0, <1>1, <2>1, <2>2, <2>4
  <1>12. ASSUME NEW g \in Gens, NEW c \in Cmds, HandleRemoteCmdResp(g, c) PROVE FlightInv'
    <2>1. /\ Answers /\ Has(toServer, g, Resp(c))
          /\ Once(toServer, Resp(c)) => \A h \in Gens : ~Has(toServer', h, Resp(c))
      BY <1>12, FrpsReadsQueue, Messages DEF HandleRemoteCmdResp
    <2>2. /\ UNCHANGED <<toClient, executing, gen, link>>
          /\ \A d \in Cmds : d # c => cmd'[d] = cmd[d]
      BY <1>12 DEF HandleRemoteCmdResp, frpcVars, TypeOK
    <2>3. Answering(c)
      BY <2>1 DEF Answering
    <2>4. Once(toServer, Resp(c)) /\ ~ToDo(c) /\ c \notin executing
      BY <2>3 DEF FlightInv
    <2>5. ~Answering(c)' /\ ~ToDo(c)'
      BY <2>1, <2>2, <2>4 DEF Answering, ToDo
    <2>6. \A d \in Cmds : (Answering(d)' => Answering(d)) /\ (ToDo(d)' <=> ToDo(d))
      BY <2>1, <2>2 DEF ToDo, Answering, Weaker
    <2>7. \A d \in Cmds : Once(toClient', Cmd(d)) /\ Once(toServer', Resp(d))
      BY <2>1, <2>2 DEF FlightInv, Weaker
    <2> QED
      BY <2>2, <2>4, <2>5, <2>6, <2>7 DEF FlightInv
  <1>13. ASSUME NEW g \in Gens, Breaks(g) \/ LoginRespFails(g) PROVE FlightInv'
    <2>1. /\ UNCHANGED <<cmd, executing, gen>>
          /\ link' = [link EXCEPT ![g] = "broken"]
          /\ toServer' = [toServer EXCEPT ![g] = <<>>]
          /\ toClient' = [toClient EXCEPT ![g] = <<>>]
      BY <1>13 DEF Breaks, LoginRespFails, frpcVars, cmdVars
    <2>2. Flights /\ Answers
      BY <1>0, <2>1, EmptyQueue, Messages
    <2>3. executing # {} => (link'[gen] = "up" => link[gen] = "up")
      BY <2>1, HasGen DEF TypeOK, ExecInv
    <2> QED
      BY <1>0, <2>1, <2>2, <2>3, FlightKept
  <1>14. ASSUME NEW c \in Cmds, TakeResult(c) \/ CmdTimesOut(c) PROVE FlightInv'
    <2>1. UNCHANGED <<toServer, toClient, executing, gen, link>>
      BY <1>14 DEF TakeResult, CmdTimesOut, frpcVars
    <2>2. Waits
      BY <1>14 DEF TakeResult, CmdTimesOut, TypeOK
    <2> QED
      BY <1>0, <1>1, <2>1, <2>2
  <1>15. ASSUME NEW c \in Cmds, NEW g \in Gens, SendRemoteCmd(c, g) PROVE FlightInv'
    <2>1. /\ UNCHANGED <<toServer, executing, gen, link>> /\ cmd[c] = "new"
          /\ \A d \in Cmds : d # c => cmd'[d] = cmd[d]
      BY <1>15 DEF SendRemoteCmd, frpcVars, TypeOK
    <2>2. ~ToDo(c) /\ ~Answering(c) /\ c \notin executing
      BY <2>1 DEF FlightInv
    <2>3. CASE UNCHANGED toClient
      <3>1. Waits
        BY <2>1
      <3> QED
        BY <1>0, <1>1, <2>1, <2>3, <3>1
    <2>4. CASE cmd' = [cmd EXCEPT ![c] = "waiting"] /\ toClient' = Sent(toClient, g, <<Cmd(c)>>)
      <3>1. cmd'[c] = "waiting"
        BY <2>4 DEF TypeOK
      <3>2. /\ \A h \in Gens, x \in Msg : Has(toClient', h, x) =>
                  Has(toClient, h, x) \/ (x = Cmd(c) /\ h = g /\ link[g] = "up")
            /\ \A x \in Msg : x # Cmd(c) => Weaker(toClient', toClient, x)
            /\ Once(toClient, Cmd(c)) /\ (\A h \in Gens : ~Has(toClient, h, Cmd(c)))
                   => Once(toClient', Cmd(c))
        BY <1>0, <2>4, Messages, SendQueue
      <3>3. Once(toClient', Cmd(c))
        BY <2>2, <3>2 DEF ToDo, FlightInv
      <3>4. \A d \in Cmds : ToDo(d)' => ToDo(d) \/ d = c
        BY <3>2, Messages DEF ToDo
      <3>5. \A d \in Cmds : Once(toClient', Cmd(d)) /\ Once(toServer', Resp(d))
        BY <2>1, <3>2, <3>3, Messages DEF FlightInv, Weaker
      <3>6. \A d \in Cmds : Answering(d)' <=> Answering(d)
        BY <2>1 DEF Answering
      <3> QED
        BY <2>1, <2>2, <3>1, <3>4, <3>5, <3>6 DEF FlightInv
    <2> QED
      BY <1>15, <2>3, <2>4 DEF SendRemoteCmd
  <1>16. CASE FrpsRestarts
    <2>1. /\ UNCHANGED <<executing, gen>>
          /\ link' = [g \in Gens |-> IF link[g] = "up" THEN "broken" ELSE link[g]]
          /\ cmd' = [c \in Cmds |-> IF cmd[c] \in {"waiting", "woken"} THEN "failed"
                                    ELSE cmd[c]]
          /\ toServer' = [g \in Gens |-> <<>>] /\ toClient' = [g \in Gens |-> <<>>]
      BY <1>16 DEF FrpsRestarts, frpcVars
    <2>2. /\ Flights /\ Answers
          /\ \A c \in Cmds, g \in Gens : ~Has(toServer', g, Resp(c)) /\ ~Has(toClient', g, Cmd(c))
      BY <1>0, <2>1, EmptyQueues, Messages
    <2>3. \A c \in Cmds : ~ToDo(c)' /\ ~Answering(c)'
      BY <2>2 DEF ToDo, Answering
    <2>4. executing # {} => link'[gen] # "up"
      BY <2>1, HasGen DEF ExecInv
    <2>5. \A c \in Cmds : c \in executing => cmd'[c] \in {"timedOut", "failed"}
      BY <2>1 DEF FlightInv
    <2>6. \A c \in Cmds : Once(toClient', Cmd(c)) /\ Once(toServer', Resp(c))
      BY <2>2 DEF FlightInv, Weaker
    <2> QED
      BY <2>1, <2>3, <2>4, <2>5, <2>6 DEF FlightInv
  <1>17. CASE UNCHANGED vars
    BY <1>0, <1>1, <1>17 DEF vars, frpcVars, cmdVars
  <1> QED
    BY <1>2, <1>3, <1>4, <1>5, <1>6, <1>7, <1>8, <1>10, <1>11, <1>12, <1>13, <1>14, <1>15,
       <1>16, <1>17 DEF Next, Frpc, FrpsConn, Waiter

LEMMA BooksStep ==
    TypeOK /\ FlightInv /\ CommandBooks /\ [Next]_vars => CommandBooks'
  <1> SUFFICES ASSUME TypeOK, FlightInv, CommandBooks, [Next]_vars PROVE CommandBooks'
    OBVIOUS
  <1>1. CASE UNCHANGED cmdVars
    BY <1>1 DEF cmdVars, CommandBooks
  <1>2. ASSUME NEW g \in Gens, NEW c \in Cmds, HandleRemoteCmdResp(g, c) PROVE CommandBooks'
    <2>1. Has(toServer, g, Resp(c))
      BY <1>2, FrpsReadsQueue DEF HandleRemoteCmdResp
    <2>2. cmd[c] \in {"waiting", "timedOut"}
      BY <2>1 DEF FlightInv, Answering
    <2> QED
      BY <1>2, <2>2 DEF HandleRemoteCmdResp, CommandBooks, TypeOK
  <1>3. ASSUME NEW c \in Cmds, TakeResult(c) PROVE CommandBooks'
    BY <1>3 DEF TakeResult, CommandBooks, TypeOK
  <1>4. ASSUME NEW c \in Cmds, CmdTimesOut(c) PROVE CommandBooks'
    BY <1>4 DEF CmdTimesOut, CommandBooks, TypeOK
  <1>5. ASSUME NEW c \in Cmds, NEW g \in Gens, SendRemoteCmd(c, g) PROVE CommandBooks'
    BY <1>5 DEF SendRemoteCmd, CommandBooks, TypeOK
  <1>6. CASE FrpsRestarts
    BY <1>6 DEF FrpsRestarts, CommandBooks, TypeOK
  <1> QED
    BY <1>1, <1>2, <1>3, <1>4, <1>5, <1>6
    DEF Next, Frpc, FrpsConn, Waiter, Dial, DialFails, ReadLoginResp, LoginFails,
        RegisterProxies, ReadError, HandleRemoteCmd, RemoteCmdDone, ReaderEnds, DelayOver,
        HandleLogin, LoginRespFails, HandleBadLogin, HandleRegister, ConnectionEnds, Breaks, vars

-----------------------------------------------------------------------------
(* The theorems. *)

LEMMA Initially == Init => IInv
  <1> SUFFICES ASSUME Init PROVE IInv
    OBVIOUS
  <1>1. TypeOK
    BY ConstantsAssumption DEF Init, TypeOK, Phase, CmdState, Gens, NoGen
  <1>2. \A g \in Gens, m \in Msg : ~Has(toClient, g, m) /\ ~Has(toServer, g, m)
    BY DEF Init, Has
  <1>3. FlightInv
    BY <1>2, Messages DEF Init, FlightInv, ToDo, Answering, Once, Has
  <1>4. LoginInv
    BY <1>2, Messages DEF Init, LoginInv
  <1>5. LinkInv /\ ExecInv /\ RetryInv /\ CommandBooks
    BY ConstantsAssumption DEF Init, LinkInv, ExecInv, RetryInv, CommandBooks, NoGen
  <1> QED
    BY <1>1, <1>3, <1>4, <1>5 DEF IInv

LEMMA Inductive == IInv /\ [Next]_vars => IInv'
  BY RetryStep, TypeStep, LinkStep, LoginStep, FlightStep, BooksStep DEF IInv

\* The type invariant of a session's two ends: among others, frpc opens no more
\* connections than its retries allow, and the proxy belongs to a session whose
\* connection is served (start, handle_register, _remove_session).
THEOREM TypeCorrect == Spec => []TypeOK
  <1>1. IInv => TypeOK
    BY DEF IInv
  <1> QED
    BY <1>1, Initially, Inductive, PTL DEF Spec

\* Whatever breaks, times out or restarts, pending_cmds holds exactly the commands
\* that wait, a command that is woken finds its answer, and cmd_results holds
\* nothing else but answers that came too late (send_remote_cmd and
\* handle_remote_cmd_resp).
THEOREM BooksCorrect == Spec => []CommandBooks
  <1>1. IInv => CommandBooks
    BY DEF IInv
  <1> QED
    BY <1>1, Initially, Inductive, PTL DEF Spec

=============================================================================
