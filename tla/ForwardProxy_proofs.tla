------------------------ MODULE ForwardProxy_proofs -------------------------
(***************************************************************************)
(* Proofs about the forward proxy, for any number of connections. A CONNECT  *)
(* tunnel implements Pipe in each direction. The invariant behind it says    *)
(* that what an end has received are the first chunks of the other end, and  *)
(* all that have been read from there as long as the end takes what is       *)
(* written to it: a chunk is dropped only by an end that takes nothing more. *)
(***************************************************************************)
EXTENDS ForwardProxy, SequenceTheorems, TLAPS

\* Nothing is copied before the target has been dialled.
HeadInv(c) ==
    stage[c] \in {"none", "head", "dialing"} =>
        \A s \in Side : got[s][c] = <<>> /\ taken[s][c] = 0

\* While a body is sent on, the method is not CONNECT and the target has got
\* nothing but the user's chunks.
BodyInv(c) ==
    stage[c] = "body" =>
        /\ method[c] # "connect"
        /\ \A i \in DOMAIN got["target"][c] : got["target"][c][i].from = "user"

\* With CONNECT, an end has got the first chunks of the other.
StreamInv(c) ==
    method[c] = "connect" => \A s \in Side :
        LET t == Other(s) IN
        /\ \A i \in DOMAIN got[t][c] : got[t][c][i] = [from |-> s, chunk |-> i]
        /\ Len(got[t][c]) <= taken[s][c]
        /\ c \in open[t] /\ peer[t][c] = "open" => Len(got[t][c]) = taken[s][c]

BodyFirst(c) ==
    \A i, j \in DOMAIN got["target"][c] :
        got["target"][c][i].from = "user" /\ got["target"][c][j].from = "target" => i < j

ConnInv(c) == HeadInv(c) /\ BodyInv(c) /\ StreamInv(c) /\ BodyFirst(c)

IInv == TypeOK /\ \A c \in Conns : ConnInv(c)

-----------------------------------------------------------------------------
(* Lemmas. *)

LEMMA OtherSide == \A s \in Side : Other(s) \in Side /\ Other(s) # s /\ Other(Other(s)) = s
  BY DEF Side, Other

\* Changing one value of a function of two arguments.
LEMMA Update ==
    ASSUME NEW A, NEW B, NEW S, NEW f \in [A -> [B -> S]], NEW a \in A, NEW b \in B,
           NEW v \in S, NEW g, g = [f EXCEPT ![a][b] = v]
    PROVE  /\ g \in [A -> [B -> S]]
           /\ g[a][b] = v
           /\ \A x \in A, y \in B : x # a \/ y # b => g[x][y] = f[x][y]
  <1>1. g = [f EXCEPT ![a] = [f[a] EXCEPT ![b] = v]]
    OBVIOUS
  <1>2. [f[a] EXCEPT ![b] = v] \in [B -> S]
    OBVIOUS
  <1>3. g \in [A -> [B -> S]]
    BY <1>1, <1>2
  <1> QED
    BY <1>1, <1>3

\* What Copy does to the counters and the chunks.
LEMMA CopyType ==
    ASSUME TypeOK, NEW c \in Conns, NEW s \in Side, NEW t \in Side, Copy(c, s, t)
    PROVE  /\ taken' \in [Side -> [Conns -> 0..MaxChunks]]
           /\ \A r \in Side, d \in Conns : taken'[r][d] <= sent[r][d]
           /\ taken'[s][c] = taken[s][c] + 1
           /\ \A r \in Side, d \in Conns : r # s \/ d # c => taken'[r][d] = taken[r][d]
           /\ got' \in [Side -> [Conns -> Seq(Chunks)]]
           /\ \A r \in Side, d \in Conns : r # t \/ d # c => got'[r][d] = got[r][d]
           /\ IF c \in open[t] /\ peer[t][c] = "open"
              THEN got'[t][c] = Append(got[t][c], [from |-> s, chunk |-> taken[s][c] + 1])
              ELSE got'[t][c] = got[t][c]
  <1> DEFINE k == taken[s][c] + 1
             e == [from |-> s, chunk |-> k]
  <1>1. /\ taken \in [Side -> [Conns -> 0..MaxChunks]]
        /\ sent \in [Side -> [Conns -> 0..MaxChunks]]
        /\ got \in [Side -> [Conns -> Seq(Chunks)]]
        /\ \A r \in Side, d \in Conns : taken[r][d] <= sent[r][d]
    BY DEF TypeOK
  <1>2. taken[s][c] < sent[s][c]
    BY DEF Copy, Unread
  <1>3. k \in 1..MaxChunks /\ k <= sent[s][c]
    BY <1>1, <1>2, ConstantsAssumption
  <1>4. taken' = [taken EXCEPT ![s][c] = k]
    BY DEF Copy
  <1>5. /\ taken' \in [Side -> [Conns -> 0..MaxChunks]]
        /\ \A r \in Side, d \in Conns : taken'[r][d] <= sent[r][d]
        /\ taken'[s][c] = k
        /\ \A r \in Side, d \in Conns : r # s \/ d # c => taken'[r][d] = taken[r][d]
    <2> HIDE DEF k
    <2>0. k \in 0..MaxChunks
      BY <1>3
    <2>1. /\ taken' \in [Side -> [Conns -> 0..MaxChunks]]
          /\ taken'[s][c] = k
          /\ \A r \in Side, d \in Conns : r # s \/ d # c => taken'[r][d] = taken[r][d]
      BY <1>1, <1>4, <2>0, Update
    <2> QED
      BY <1>1, <1>3, <2>1
  <1>6. e \in Chunks
    BY <1>3 DEF Chunks
  <1>7. CASE c \in open[t] /\ peer[t][c] = "open"
    <2>1. got' = [got EXCEPT ![t][c] = Append(got[t][c], e)]
      BY <1>7 DEF Copy
    <2>2. Append(got[t][c], e) \in Seq(Chunks)
      BY <1>1, <1>6
    <2> HIDE DEF e, k
    <2>3. /\ got' \in [Side -> [Conns -> Seq(Chunks)]]
          /\ got'[t][c] = Append(got[t][c], e)
          /\ \A r \in Side, d \in Conns : r # t \/ d # c => got'[r][d] = got[r][d]
      BY <1>1, <2>1, <2>2, Update
    <2> USE DEF e, k
    <2> QED
      BY <1>5, <1>7, <2>3
  <1>8. CASE ~(c \in open[t] /\ peer[t][c] = "open")
    BY <1>1, <1>5, <1>8 DEF Copy
  <1> QED
    BY <1>7, <1>8

\* Copy writes to one end of one connection.
LEMMA CopyOthers ==
    ASSUME TypeOK, NEW c \in Conns, NEW s \in Side, NEW t \in Side, Copy(c, s, t)
    PROVE  \A r \in Side, d \in Conns : r # t \/ d # c => got'[r][d] = got[r][d]
  <1>1. CASE c \in open[t] /\ peer[t][c] = "open"
    <2> DEFINE v == Append(got[t][c], [from |-> s, chunk |-> taken[s][c] + 1])
    <2>1. got' = [got EXCEPT ![t][c] = v]
      BY <1>1 DEF Copy
    <2>2. got \in [Side -> [Conns -> Seq(Chunks)]]
      BY DEF TypeOK
    <2> HIDE DEF v
    <2> QED
      BY <2>1, <2>2
  <1>2. CASE ~(c \in open[t] /\ peer[t][c] = "open")
    BY <1>2 DEF Copy
  <1> QED
    BY <1>1, <1>2

-----------------------------------------------------------------------------
(* Type correctness. *)

LEMMA InitType == Init => TypeOK
  BY ConstantsAssumption DEF Init, TypeOK, Side, Stage, Chunks

LEMMA NextType == TypeOK /\ [Next]_vars => TypeOK'
  <1> SUFFICES ASSUME TypeOK, [Next]_vars PROVE TypeOK'
    OBVIOUS
  <1>1. CASE UNCHANGED vars
    BY <1>1 DEF vars, TypeOK
  <1>2. CASE Next
    <2>1. PICK c \in Conns :
             \/ Accept(c) \/ HandleConn(c) \/ LostTargetFreed(c)
             \/ \E s \in Side : RunsPipe(c, s) \/ Writes(c, s) \/ Leaves(c, s)
      BY <1>2 DEF Next
    <2>2. CASE Accept(c)
      <3>1. "user" \in Side /\ "done" \in Stage /\ "head" \in Stage
        BY DEF Side, Stage
      <3>2. peer' \in [Side -> [Conns -> {"none", "open", "left"}]]
        BY <2>2, <3>1, Update DEF Accept, TypeOK
      <3>3. stage' \in [Conns -> Stage] /\ open' \in [Side -> SUBSET Conns]
        <4>1. CASE c \in Blocked
          BY <2>2, <3>1, <4>1 DEF Accept, TypeOK
        <4>2. CASE c \notin Blocked
          <5>1. open["user"] \cup {c} \in SUBSET Conns
            BY <3>1 DEF TypeOK
          <5>2. open' = [open EXCEPT !["user"] = open["user"] \cup {c}]
            BY <2>2, <4>2 DEF Accept
          <5> QED
            BY <2>2, <3>1, <4>2, <5>1, <5>2 DEF Accept, TypeOK
        <4> QED
          BY <4>1, <4>2
      <3>4. \A d \in Conns : pipes'[d] # {} => stage'[d] = "piping"
        BY <2>2 DEF Accept, TypeOK
      <3> QED
        BY <2>2, <3>2, <3>3, <3>4 DEF Accept, TypeOK
    <2>3. CASE ReadHead(c)
      <3>1. stage' \in [Conns -> Stage]
        BY <2>3 DEF ReadHead, TypeOK, Stage
      <3>2. method' \in [Conns -> {"none", "connect", "http"}]
        BY <2>3 DEF ReadHead, TypeOK
      <3>3. body' \in [Conns -> 0..MaxChunks]
        BY <2>3 DEF ReadHead, TypeOK
      <3>4. \A d \in Conns : pipes'[d] # {} => stage'[d] = "piping"
        BY <2>3 DEF ReadHead, TypeOK
      <3> QED
        BY <2>3, <3>1, <3>2, <3>3, <3>4 DEF ReadHead, TypeOK
    <2>4. CASE RefuseHead(c)
      BY <2>4 DEF RefuseHead, Finish, TypeOK, Side, Stage
    <2>5. CASE DialFails(c)
      BY <2>5 DEF DialFails, Finish, TypeOK, Side, Stage
    <2>6. CASE DialSucceeds(c)
      <3>1. "target" \in Side /\ "piping" \in Stage /\ "body" \in Stage
        BY DEF Side, Stage
      <3>2. peer' \in [Side -> [Conns -> {"none", "open", "left"}]]
        BY <2>6, <3>1 DEF DialSucceeds, TypeOK
      <3>3. stage' \in [Conns -> Stage] /\ open' \in [Side -> SUBSET Conns]
        BY <2>6, <3>1 DEF DialSucceeds, TypeOK
      <3>4. pipes' \in [Conns -> SUBSET Side]
        BY <2>6 DEF DialSucceeds, TypeOK
      <3>5. \A d \in Conns : pipes'[d] # {} => stage'[d] = "piping"
        BY <2>6 DEF DialSucceeds, TypeOK
      <3> QED
        BY <2>6, <3>2, <3>3, <3>4, <3>5 DEF DialSucceeds, TypeOK
    <2>7. CASE AnswerRaises(c)
      BY <2>7 DEF AnswerRaises, TypeOK, Side, Stage
    <2>8. CASE SendBody(c)
      <3>1. "user" \in Side /\ "target" \in Side
        BY DEF Side
      <3>2. Copy(c, "user", "target")
        BY <2>8 DEF SendBody
      <3>3. /\ taken' \in [Side -> [Conns -> 0..MaxChunks]]
            /\ \A r \in Side, d \in Conns : taken'[r][d] <= sent[r][d]
            /\ got' \in [Side -> [Conns -> Seq(Chunks)]]
        BY <3>1, <3>2, CopyType
      <3>4. body' \in [Conns -> 0..MaxChunks]
        BY <2>8, ConstantsAssumption DEF SendBody, TypeOK
      <3> QED
        BY <2>8, <3>3, <3>4 DEF SendBody, TypeOK
    <2>9. CASE BodyEnds(c)
      BY <2>9 DEF BodyEnds, TypeOK, Side, Stage
    <2>10. CASE BodyRaises(c)
      BY <2>10 DEF BodyRaises, Finish, TypeOK, Side, Stage
    <2>11. CASE TunnelEnds(c)
      BY <2>11 DEF TunnelEnds, Finish, TypeOK, Side, Stage
    <2>12. CASE LostTargetFreed(c)
      BY <2>12 DEF LostTargetFreed, TypeOK, Side, Stage
    <2>13. ASSUME NEW s \in Side, PipeCopies(c, s) PROVE TypeOK'
      <3>1. Target(c, s) \in Side
        BY OtherSide DEF Target
      <3>2. Copy(c, s, Target(c, s))
        BY <2>13 DEF PipeCopies
      <3>3. /\ taken' \in [Side -> [Conns -> 0..MaxChunks]]
            /\ \A r \in Side, d \in Conns : taken'[r][d] <= sent[r][d]
            /\ got' \in [Side -> [Conns -> Seq(Chunks)]]
        BY <3>1, <3>2, CopyType
      <3> QED
        BY <2>13, <3>3 DEF PipeCopies, TypeOK
    <2>14. ASSUME NEW s \in Side, PipeEnds(c, s) PROVE TypeOK'
      BY <2>14, OtherSide DEF PipeEnds, Target, TypeOK
    <2>15. ASSUME NEW s \in Side, Writes(c, s) PROVE TypeOK'
      <3>1. sent' \in [Side -> [Conns -> 0..MaxChunks]]
        BY <2>15, ConstantsAssumption DEF Writes, TypeOK
      <3>2. \A r \in Side, d \in Conns : taken[r][d] <= sent'[r][d]
        BY <2>15, ConstantsAssumption DEF Writes, TypeOK
      <3> QED
        BY <2>15, <3>1, <3>2 DEF Writes, TypeOK
    <2>16. ASSUME NEW s \in Side, Leaves(c, s) PROVE TypeOK'
      BY <2>16 DEF Leaves, TypeOK
    <2> QED
      BY <2>1, <2>2, <2>3, <2>4, <2>5, <2>6, <2>7, <2>8, <2>9, <2>10, <2>11, <2>12,
         <2>13, <2>14, <2>15, <2>16 DEF HandleConn, RunsPipe
  <1> QED
    BY <1>1, <1>2

\* The type invariant of the forward proxy: pipes run in a tunnel only, and the
\* proxy never reads a chunk before it has been written.
THEOREM TypeCorrect == Spec => []TypeOK
  BY InitType, NextType, PTL DEF Spec
-----------------------------------------------------------------------------
(* The invariant. *)

\* Appending to a sequence.
LEMMA Appended ==
    ASSUME NEW S, NEW q \in Seq(S), NEW e \in S
    PROVE  /\ Append(q, e) \in Seq(S)
           /\ Len(q) \in Nat /\ Len(Append(q, e)) = Len(q) + 1
           /\ DOMAIN q = 1..Len(q) /\ DOMAIN Append(q, e) = 1..(Len(q) + 1)
           /\ \A i \in 1..Len(q) : Append(q, e)[i] = q[i]
           /\ Append(q, e)[Len(q) + 1] = e
  OBVIOUS

\* A step that copies nothing on a connection, opens nothing of it again, and
\* takes it to none of the stages the invariant is about.
LEMMA QuietStep ==
    ASSUME NEW d \in Conns, ConnInv(d),
           method'[d] = method[d],
           stage'[d] \in {"none", "head", "dialing"} => stage[d] \in {"none", "head", "dialing"},
           stage'[d] = "body" => stage[d] = "body",
           \A s \in Side : /\ got'[s][d] = got[s][d] /\ taken'[s][d] = taken[s][d]
                           /\ d \in open'[s] => d \in open[s]
                           /\ peer'[s][d] = "open" => peer[s][d] = "open"
    PROVE  ConnInv(d)'
  <1>1. "user" \in Side /\ "target" \in Side
    BY DEF Side
  <1>2. HeadInv(d)'
    BY DEF ConnInv, HeadInv
  <1>3. BodyInv(d)'
    BY <1>1 DEF ConnInv, BodyInv
  <1>4. StreamInv(d)'
    <2> SUFFICES ASSUME method'[d] = "connect", NEW s \in Side
                 PROVE  LET t == Other(s) IN
                        /\ \A i \in DOMAIN got'[t][d] : got'[t][d][i] = [from |-> s, chunk |-> i]
                        /\ Len(got'[t][d]) <= taken'[s][d]
                        /\ d \in open'[t] /\ peer'[t][d] = "open"
                               => Len(got'[t][d]) = taken'[s][d]
      BY DEF StreamInv, Other
    <2> DEFINE t == Other(s)
    <2>1. t \in Side
      BY OtherSide
    <2>2. /\ \A i \in DOMAIN got[t][d] : got[t][d][i] = [from |-> s, chunk |-> i]
          /\ Len(got[t][d]) <= taken[s][d]
          /\ d \in open[t] /\ peer[t][d] = "open" => Len(got[t][d]) = taken[s][d]
      BY DEF ConnInv, StreamInv
    <2> HIDE DEF t
    <2>3. /\ \A i \in DOMAIN got'[t][d] : got'[t][d][i] = [from |-> s, chunk |-> i]
          /\ Len(got'[t][d]) <= taken'[s][d]
          /\ d \in open'[t] /\ peer'[t][d] = "open" => Len(got'[t][d]) = taken'[s][d]
      BY <2>1, <2>2
    <2> QED
      BY <2>3 DEF t
  <1>5. BodyFirst(d)'
    BY <1>1 DEF ConnInv, BodyFirst
  <1> QED
    BY <1>2, <1>3, <1>4, <1>5 DEF ConnInv

\* A step before anything has been copied.
LEMMA EarlyStep ==
    ASSUME NEW d \in Conns, ConnInv(d), stage[d] \in {"none", "head", "dialing"},
           UNCHANGED <<got, taken>>,
           stage'[d] = "body" => method'[d] # "connect"
    PROVE  ConnInv(d)'
  <1>1. \A s \in Side : got'[s][d] = <<>> /\ taken'[s][d] = 0
    BY DEF ConnInv, HeadInv
  <1>2. "user" \in Side /\ "target" \in Side
    BY DEF Side
  <1>3. HeadInv(d)' /\ BodyInv(d)' /\ BodyFirst(d)'
    BY <1>1, <1>2 DEF HeadInv, BodyInv, BodyFirst
  <1>4. \A s \in Side : /\ DOMAIN got'[Other(s)][d] = {} /\ Len(got'[Other(s)][d]) = 0
    BY <1>1, OtherSide
  <1>5. StreamInv(d)'
    BY <1>1, <1>4 DEF StreamInv, Other
  <1> QED
    BY <1>3, <1>5 DEF ConnInv

\* A chunk of a body is sent on.
LEMMA BodyStep ==
    ASSUME TypeOK, NEW c \in Conns, ConnInv(c), SendBody(c)
    PROVE  ConnInv(c)'
  <1>1. "user" \in Side /\ "target" \in Side
    BY DEF Side
  <1>2. Copy(c, "user", "target") /\ stage[c] = "body" /\ UNCHANGED <<stage, method>>
    BY DEF SendBody
  <1> DEFINE e == [from |-> "user", chunk |-> taken["user"][c] + 1]
             q == got["target"][c]
  <1>3. got'["target"][c] \in {q, Append(q, e)}
    <2>1. IF c \in open["target"] /\ peer["target"][c] = "open"
          THEN got'["target"][c] = Append(q, e)
          ELSE got'["target"][c] = q
      BY <1>1, <1>2, CopyType
    <2> QED
      BY ONLY <2>1
  <1>4. /\ method[c] # "connect"
        /\ \A i \in DOMAIN q : q[i].from = "user"
    BY <1>2 DEF ConnInv, BodyInv
  <1>5. q \in Seq(Chunks) /\ e \in Chunks
    <2>1. taken["user"][c] < sent["user"][c]
      BY <1>2 DEF Copy, Unread
    <2>2. taken["user"][c] \in 0..MaxChunks /\ sent["user"][c] \in 0..MaxChunks
      BY <1>1 DEF TypeOK
    <2>3. q \in Seq(Chunks)
      BY <1>1 DEF TypeOK
    <2> QED
      BY <1>1, <2>1, <2>2, <2>3, ConstantsAssumption DEF Chunks
  <1>6. \A i \in DOMAIN got'["target"][c] : got'["target"][c][i].from = "user"
    <2>1. e.from = "user"
      OBVIOUS
    <2> HIDE DEF e, q
    <2>2. \A i \in DOMAIN Append(q, e) : Append(q, e)[i].from = "user"
      BY <1>4, <1>5, <2>1, Appended
    <2> QED
      BY <1>3, <1>4, <2>2
  <1>7. HeadInv(c)' /\ BodyInv(c)' /\ StreamInv(c)' /\ BodyFirst(c)'
    BY <1>2, <1>4, <1>6 DEF HeadInv, BodyInv, StreamInv, BodyFirst
  <1> QED
    BY <1>7 DEF ConnInv

\* A pipe copies a chunk.
LEMMA PipeStep ==
    ASSUME TypeOK, NEW c \in Conns, ConnInv(c), NEW s \in Side, PipeCopies(c, s)
    PROVE  ConnInv(c)'
  <1> DEFINE t == Target(c, s)
             e == [from |-> s, chunk |-> taken[s][c] + 1]
             q == got[t][c]
  <1>1. /\ Copy(c, s, t) /\ UNCHANGED <<stage, method, open, peer>>
        /\ s \in pipes[c]
    BY DEF PipeCopies
  <1>2. stage[c] = "piping"
    BY <1>1 DEF TypeOK
  <1>3. t \in Side
    BY OtherSide DEF Target
  <1>4. q \in Seq(Chunks) /\ e \in Chunks /\ taken[s][c] \in Nat
    <2>1. taken[s][c] < sent[s][c]
      BY <1>1 DEF Copy, Unread
    <2>2. taken[s][c] \in 0..MaxChunks /\ sent[s][c] \in 0..MaxChunks
      BY DEF TypeOK
    <2>3. q \in Seq(Chunks)
      BY <1>3 DEF TypeOK
    <2> QED
      BY <2>1, <2>2, <2>3, ConstantsAssumption DEF Chunks
  <1>5. /\ taken'[s][c] = taken[s][c] + 1
        /\ \A r \in Side : r # s => taken'[r][c] = taken[r][c]
        /\ \A r \in Side : r # t => got'[r][c] = got[r][c]
        /\ IF c \in open[t] /\ peer[t][c] = "open"
           THEN got'[t][c] = Append(q, e) ELSE got'[t][c] = q
    <2> HIDE DEF t
    <2> QED
      BY <1>1, <1>3, CopyType
  <1>6. HeadInv(c)' /\ BodyInv(c)'
    BY <1>1, <1>2 DEF HeadInv, BodyInv
  <1>7. /\ Len(q) \in Nat /\ Len(Append(q, e)) = Len(q) + 1
        /\ DOMAIN q = 1..Len(q) /\ DOMAIN Append(q, e) = 1..(Len(q) + 1)
        /\ \A i \in 1..Len(q) : Append(q, e)[i] = q[i]
        /\ Append(q, e)[Len(q) + 1] = e
    <2> HIDE DEF q, e
    <2> QED
      BY <1>4, Appended
  <1>8. e.from = s
    OBVIOUS
  <1>9. CASE method[c] = "connect"
    <2>1. t = Other(s) /\ t # s
      BY <1>9, OtherSide DEF Target
    <2>2. /\ \A i \in DOMAIN q : q[i] = [from |-> s, chunk |-> i]
          /\ Len(q) <= taken[s][c]
          /\ c \in open[t] /\ peer[t][c] = "open" => Len(q) = taken[s][c]
      BY <1>9, <2>1 DEF ConnInv, StreamInv
    <2>3. /\ \A i \in DOMAIN got'[t][c] : got'[t][c][i] = [from |-> s, chunk |-> i]
          /\ Len(got'[t][c]) <= taken'[s][c]
          /\ c \in open[t] /\ peer[t][c] = "open" => Len(got'[t][c]) = taken'[s][c]
      <3>1. CASE c \in open[t] /\ peer[t][c] = "open"
        <4>1. Len(q) = taken[s][c] /\ got'[t][c] = Append(q, e) /\ e = [from |-> s, chunk |-> Len(q) + 1]
          BY <1>5, <2>2, <3>1
        <4> HIDE DEF q, e, t
        <4>2. \A i \in DOMAIN Append(q, e) : Append(q, e)[i] = [from |-> s, chunk |-> i]
          BY <1>7, <2>2, <4>1
        <4> QED
          BY <1>4, <1>5, <1>7, <4>1, <4>2
      <3>2. CASE ~(c \in open[t] /\ peer[t][c] = "open")
        <4>1. got'[t][c] = q
          BY <1>5, <3>2
        <4> HIDE DEF q, e, t
        <4>2. Len(q) <= taken'[s][c]
          BY <1>4, <1>5, <1>7, <2>2
        <4>3. \A i \in DOMAIN got'[t][c] : got'[t][c][i] = [from |-> s, chunk |-> i]
          BY <2>2, <4>1
        <4>4. Len(got'[t][c]) <= taken'[s][c]
          BY <4>1, <4>2
        <4> QED
          BY <3>2, <4>3, <4>4
      <3> QED
        BY <3>1, <3>2
    <2>4. /\ Other(t) = s /\ s \in Side
          /\ \A r \in Side : r = s \/ r = t
      BY <1>3, <2>1, OtherSide DEF Side
    <2>5. /\ \A i \in DOMAIN got'[s][c] : got'[s][c][i] = [from |-> t, chunk |-> i]
          /\ Len(got'[s][c]) <= taken'[t][c]
          /\ c \in open[s] /\ peer[s][c] = "open" => Len(got'[s][c]) = taken'[t][c]
      <3>1. /\ \A i \in DOMAIN got[s][c] : got[s][c][i] = [from |-> t, chunk |-> i]
            /\ Len(got[s][c]) <= taken[t][c]
            /\ c \in open[s] /\ peer[s][c] = "open" => Len(got[s][c]) = taken[t][c]
        BY <1>3, <1>9, <2>4 DEF ConnInv, StreamInv
      <3>2. got'[s][c] = got[s][c] /\ taken'[t][c] = taken[t][c]
        BY <1>3, <1>5, <2>1
      <3> HIDE DEF t
      <3> QED
        BY <3>1, <3>2
    <2>6. StreamInv(c)'
      <3>1. open' = open /\ peer' = peer /\ method' = method
        BY <1>1
      <3> HIDE DEF t
      <3> DEFINE Follows(r, u) ==
             /\ \A i \in DOMAIN got'[u][c] : got'[u][c][i] = [from |-> r, chunk |-> i]
             /\ Len(got'[u][c]) <= taken'[r][c]
             /\ c \in open'[u] /\ peer'[u][c] = "open" => Len(got'[u][c]) = taken'[r][c]
      <3>2. Follows(s, t) /\ Follows(t, s)
        BY <2>3, <2>5, <3>1
      <3>3. \A r \in Side : Follows(r, Other(r))
        <4> HIDE DEF Follows
        <4> QED
          BY <2>1, <2>4, <3>2
      <3> USE DEF t
      <3> QED
        BY <3>3 DEF StreamInv, Other
    <2>7. BodyFirst(c)'
      <3>1. \A i \in DOMAIN got'["target"][c] : got'["target"][c][i].from = "user"
        <4>1. CASE t = "target"
          <5>1. s = "user"
            BY <2>1, <4>1 DEF Side
          <5> HIDE DEF t
          <5>2. \A i \in DOMAIN got'["target"][c] :
                   got'["target"][c][i] = [from |-> "user", chunk |-> i]
            BY <2>3, <4>1, <5>1
          <5> DEFINE G == got'["target"][c]
          <5>3. \A i \in DOMAIN G : G[i] = [from |-> "user", chunk |-> i]
            BY <5>2
          <5> HIDE DEF G
          <5>4. \A i \in DOMAIN G : G[i].from = "user"
            BY <5>3
          <5> QED
            BY <5>4 DEF G
        <4>2. CASE s = "target"
          <5>1. t = "user"
            BY <2>1, <4>2 DEF Other
          <5> HIDE DEF t
          <5>2. \A i \in DOMAIN got'["target"][c] :
                   got'["target"][c][i] = [from |-> "user", chunk |-> i]
            BY <2>5, <4>2, <5>1
          <5> DEFINE G == got'["target"][c]
          <5>3. \A i \in DOMAIN G : G[i] = [from |-> "user", chunk |-> i]
            BY <5>2
          <5> HIDE DEF G
          <5>4. \A i \in DOMAIN G : G[i].from = "user"
            BY <5>3
          <5> QED
            BY <5>4 DEF G
        <4> QED
          BY <2>4, <4>1, <4>2 DEF Side
      <3> QED
        BY <3>1 DEF BodyFirst
    <2> QED
      BY <1>6, <2>6, <2>7 DEF ConnInv
  <1>10. CASE method[c] # "connect"
    <2>1. t = s
      BY <1>10 DEF Target
    <2>2. StreamInv(c)'
      BY <1>1, <1>10 DEF StreamInv
    <2>3. BodyFirst(c)'
      <3>1. "user" \in Side /\ "target" \in Side /\ s \in {"user", "target"}
        BY DEF Side
      <3>2. CASE s = "user"
        BY <1>5, <2>1, <3>1, <3>2 DEF ConnInv, BodyFirst
      <3>3. CASE s = "target"
        <4>1. /\ q = got["target"][c]
              /\ got'["target"][c] \in {q, Append(q, e)}
          BY <1>5, <2>1, <3>3
        <4>2. \A i, j \in DOMAIN q : q[i].from = "user" /\ q[j].from = "target" => i < j
          BY <4>1 DEF ConnInv, BodyFirst
        <4>3. e.from = "target"
          BY <1>8, <3>3
        <4> HIDE DEF q, e
        <4>4. \A i, j \in DOMAIN Append(q, e) :
                 Append(q, e)[i].from = "user" /\ Append(q, e)[j].from = "target" => i < j
          BY <1>7, <4>2, <4>3
        <4> QED
          BY <4>1, <4>2, <4>4 DEF BodyFirst
      <3> QED
        BY <3>1, <3>2, <3>3
    <2> QED
      BY <1>6, <2>2, <2>3 DEF ConnInv
  <1> QED
    BY <1>9, <1>10

-----------------------------------------------------------------------------
(* The invariant holds. *)

LEMMA InitInv == Init => IInv
  <1> SUFFICES ASSUME Init PROVE IInv
    OBVIOUS
  <1>1. TypeOK
    BY InitType
  <1>2. ASSUME NEW c \in Conns PROVE ConnInv(c)
    <2>1. \A s \in Side : got[s][c] = <<>> /\ taken[s][c] = 0
      BY DEF Init
    <2>2. stage[c] = "none" /\ method[c] = "none"
      BY DEF Init
    <2>3. "target" \in Side
      BY DEF Side
    <2> QED
      BY <2>1, <2>2, <2>3 DEF ConnInv, HeadInv, BodyInv, StreamInv, BodyFirst
  <1> QED
    BY <1>1, <1>2 DEF IInv

\* A step that reads nothing and opens no socket of connection d, and takes it
\* to no earlier stage and to no body.
Quiet(d) ==
    /\ method'[d] = method[d]
    /\ stage'[d] \in {"none", "head", "dialing"} => stage[d] \in {"none", "head", "dialing"}
    /\ stage'[d] = "body" => stage[d] = "body"
    /\ \A s \in Side : /\ got'[s][d] = got[s][d] /\ taken'[s][d] = taken[s][d]
                       /\ d \in open'[s] => d \in open[s]
                       /\ peer'[s][d] = "open" => peer[s][d] = "open"

\* A step of one connection is quiet for the others.
LEMMA OtherQuiet ==
    ASSUME TypeOK, NEW c \in Conns, NEW d \in Conns, d # c,
           \/ Accept(c) \/ HandleConn(c) \/ LostTargetFreed(c)
           \/ \E s \in Side : RunsPipe(c, s) \/ Writes(c, s) \/ Leaves(c, s)
    PROVE  Quiet(d)
  <1>1. CASE Accept(c)
    BY <1>1 DEF Accept, TypeOK, Quiet
  <1>2. CASE ReadHead(c)
    BY <1>2 DEF ReadHead, TypeOK, Quiet
  <1>3. CASE RefuseHead(c)
    BY <1>3 DEF RefuseHead, Finish, TypeOK, Quiet
  <1>4. CASE DialFails(c)
    BY <1>4 DEF DialFails, Finish, TypeOK, Quiet
  <1>5. CASE DialSucceeds(c)
    BY <1>5 DEF DialSucceeds, TypeOK, Quiet
  <1>6. CASE AnswerRaises(c)
    BY <1>6 DEF AnswerRaises, TypeOK, Quiet, Side
  <1>7. CASE SendBody(c)
    <2>1. Copy(c, "user", "target") /\ UNCHANGED <<stage, method, open, peer>>
      BY <1>7 DEF SendBody
    <2>2. "user" \in Side /\ "target" \in Side
      BY DEF Side
    <2>3. \A r \in Side, b \in Conns : r # "user" \/ b # c => taken'[r][b] = taken[r][b]
      BY <2>1, <2>2, CopyType
    <2>4. \A r \in Side, b \in Conns : b # c => got'[r][b] = got[r][b]
      BY <2>1, <2>2, CopyOthers
    <2> QED
      BY <2>1, <2>3, <2>4 DEF Quiet
  <1>8. CASE BodyEnds(c)
    BY <1>8 DEF BodyEnds, TypeOK, Quiet
  <1>9. CASE BodyRaises(c)
    BY <1>9 DEF BodyRaises, Finish, TypeOK, Quiet
  <1>10. CASE TunnelEnds(c)
    BY <1>10 DEF TunnelEnds, Finish, TypeOK, Quiet
  <1>11. CASE LostTargetFreed(c)
    BY <1>11 DEF LostTargetFreed, TypeOK, Quiet
  <1>12. ASSUME NEW s \in Side, PipeCopies(c, s) PROVE Quiet(d)
    <2>1. Copy(c, s, Target(c, s)) /\ UNCHANGED <<stage, method, open, peer>>
      BY <1>12 DEF PipeCopies
    <2>2. Target(c, s) \in Side
      BY OtherSide DEF Target
    <2>3. \A r \in Side, b \in Conns : r # s \/ b # c => taken'[r][b] = taken[r][b]
      BY <2>1, <2>2, CopyType
    <2>4. \A r \in Side, b \in Conns : b # c => got'[r][b] = got[r][b]
      BY <2>1, <2>2, CopyOthers
    <2> QED
      BY <2>1, <2>3, <2>4 DEF Quiet
  <1>13. ASSUME NEW s \in Side, PipeEnds(c, s) PROVE Quiet(d)
    BY <1>13 DEF PipeEnds, TypeOK, Quiet
  <1>14. ASSUME NEW s \in Side, Writes(c, s) PROVE Quiet(d)
    BY <1>14 DEF Writes, Quiet
  <1>15. ASSUME NEW s \in Side, Leaves(c, s) PROVE Quiet(d)
    BY <1>15 DEF Leaves, TypeOK, Quiet
  <1> QED
    BY <1>1, <1>2, <1>3, <1>4, <1>5, <1>6, <1>7, <1>8, <1>9, <1>10, <1>11, <1>12, <1>13,
       <1>14, <1>15 DEF HandleConn, RunsPipe

\* A step of a connection keeps its part of the invariant.
LEMMA OwnStep ==
    ASSUME TypeOK, NEW c \in Conns, ConnInv(c),
           \/ Accept(c) \/ HandleConn(c) \/ LostTargetFreed(c)
           \/ \E s \in Side : RunsPipe(c, s) \/ Writes(c, s) \/ Leaves(c, s)
    PROVE  ConnInv(c)'
  <1>0. Quiet(c) => ConnInv(c)'
    BY QuietStep DEF Quiet
  <1>1. CASE Accept(c)
    <2>1. stage'[c] # "body" /\ stage[c] = "none" /\ UNCHANGED <<got, taken>>
      BY <1>1 DEF Accept, TypeOK
    <2> QED
      BY <2>1, EarlyStep
  <1>2. CASE ReadHead(c)
    <2>1. stage'[c] # "body" /\ stage[c] = "head" /\ UNCHANGED <<got, taken>>
      BY <1>2 DEF ReadHead, TypeOK
    <2> QED
      BY <2>1, EarlyStep
  <1>3. CASE RefuseHead(c)
    BY <1>0, <1>3 DEF RefuseHead, Finish, TypeOK, Quiet
  <1>4. CASE DialFails(c)
    BY <1>0, <1>4 DEF DialFails, Finish, TypeOK, Quiet
  <1>5. CASE DialSucceeds(c)
    <2>1. /\ stage[c] = "dialing" /\ UNCHANGED <<got, taken>>
          /\ stage'[c] = "body" => method'[c] # "connect"
      BY <1>5 DEF DialSucceeds, TypeOK
    <2> QED
      BY <2>1, EarlyStep
  <1>6. CASE AnswerRaises(c)
    <2>1. /\ stage[c] = "dialing" /\ UNCHANGED <<got, taken>>
          /\ stage'[c] # "body"
      BY <1>6 DEF AnswerRaises, TypeOK
    <2> QED
      BY <2>1, EarlyStep
  <1>7. CASE SendBody(c)
    BY <1>7, BodyStep
  <1>8. CASE BodyEnds(c)
    BY <1>0, <1>8 DEF BodyEnds, TypeOK, Quiet
  <1>9. CASE BodyRaises(c)
    BY <1>0, <1>9 DEF BodyRaises, Finish, TypeOK, Quiet
  <1>10. CASE TunnelEnds(c)
    BY <1>0, <1>10 DEF TunnelEnds, Finish, TypeOK, Quiet
  <1>11. CASE LostTargetFreed(c)
    BY <1>0, <1>11 DEF LostTargetFreed, TypeOK, Quiet
  <1>12. ASSUME NEW s \in Side, PipeCopies(c, s) PROVE ConnInv(c)'
    BY <1>12, PipeStep
  <1>13. ASSUME NEW s \in Side, PipeEnds(c, s) PROVE Quiet(c)
    BY <1>13 DEF PipeEnds, TypeOK, Quiet
  <1>14. ASSUME NEW s \in Side, Writes(c, s) PROVE Quiet(c)
    BY <1>14 DEF Writes, Quiet
  <1>15. ASSUME NEW s \in Side, Leaves(c, s) PROVE Quiet(c)
    BY <1>15 DEF Leaves, TypeOK, Quiet
  <1> QED
    BY <1>0, <1>1, <1>2, <1>3, <1>4, <1>5, <1>6, <1>7, <1>8, <1>9, <1>10, <1>11, <1>12,
       <1>13, <1>14, <1>15 DEF HandleConn, RunsPipe

LEMMA NextInv == IInv /\ [Next]_vars => IInv'
  <1> SUFFICES ASSUME IInv, [Next]_vars PROVE IInv'
    OBVIOUS
  <1>1. TypeOK /\ TypeOK'
    BY NextType DEF IInv
  <1>2. ASSUME NEW d \in Conns PROVE ConnInv(d)'
    <2>1. ConnInv(d)
      BY DEF IInv
    <2>2. Quiet(d) => ConnInv(d)'
      BY <2>1, QuietStep DEF Quiet
    <2>3. CASE UNCHANGED vars
      BY <2>2, <2>3 DEF vars, Quiet
    <2>4. CASE Next
      <3>1. PICK c \in Conns :
               \/ Accept(c) \/ HandleConn(c) \/ LostTargetFreed(c)
               \/ \E s \in Side : RunsPipe(c, s) \/ Writes(c, s) \/ Leaves(c, s)
        BY <2>4 DEF Next
      <3>2. CASE c = d
        BY <1>1, <2>1, <3>1, <3>2, OwnStep
      <3>3. CASE c # d
        BY <1>1, <2>2, <3>1, <3>3, OtherQuiet
      <3> QED
        BY <3>2, <3>3
    <2> QED
      BY <2>3, <2>4
  <1> QED
    BY <1>1, <1>2 DEF IInv

LEMMA InvHolds == Spec => []IInv
  BY InitInv, NextInv, PTL DEF Spec

LEMMA InvGives == IInv => BodyComesFirst
  <1> SUFFICES ASSUME IInv, NEW c \in Conns, NEW s \in Side
               PROVE  /\ method[c] = "connect" => \A i \in DOMAIN got[s][c] : got[s][c][i].from # s
                      /\ \A i, j \in DOMAIN got["target"][c] :
                            got["target"][c][i].from = "user" /\ got["target"][c][j].from = "target"
                                => i < j
    BY DEF BodyComesFirst
  <1>1. ASSUME method[c] = "connect", NEW i \in DOMAIN got[s][c]
        PROVE  got[s][c][i].from # s
    <2>1. PICK r \in Side : r # s /\ Other(r) = s
      BY OtherSide
    <2>2. got[s][c][i] = [from |-> r, chunk |-> i]
      BY <1>1, <2>1 DEF IInv, ConnInv, StreamInv
    <2> QED
      BY <2>1, <2>2
  <1> QED
    BY <1>1 DEF IInv, ConnInv, BodyFirst

\* Chunks that reach an end by a CONNECT tunnel were written by the other end,
\* and a target of another request is written the user's body before anything
\* else (_handle_connect, _handle_http, _tunnel).
THEOREM BodyFirstCorrect == Spec => []BodyComesFirst
  BY InvHolds, InvGives, PTL

-----------------------------------------------------------------------------
(* A CONNECT tunnel implements Pipe. *)

\* The chunks 1, 2, ..., n.
Upto(n) == [i \in 1..n |-> i]

\* How many chunks an end has received by a CONNECT tunnel.
Count(t, c) == IF method[c] = "connect" THEN Len(got[t][c]) ELSE 0

SentBy(s) == [c \in Conns |-> sent[s][c]]
GotBy(t) == [c \in Conns |-> Tunnelled(Stream(t, c), c, <<>>)]

\* Appending a sequence of one element.
LEMMA OneMore ==
    ASSUME NEW q \in Seq(Nat), NEW one \in Seq(Nat), NEW n \in Nat, Len(q) = n, Len(one) = 1
    PROVE  /\ q \o one \in Seq(Nat) /\ Len(q \o one) = n + 1
           /\ \A i \in 1..n : (q \o one)[i] = q[i]
           /\ (q \o one)[n + 1] = one[1]
  <1> DEFINE w == q \o one
  <1>1. /\ w \in Seq(Nat) /\ Len(w) = Len(q) + Len(one)
        /\ \A i \in 1..(Len(q) + Len(one)) :
               w[i] = IF i <= Len(q) THEN q[i] ELSE one[i - Len(q)]
    BY ConcatProperties, Zenon
  <1> HIDE DEF w
  <1>2. \A i \in 1..(n + 1) : w[i] = IF i <= n THEN q[i] ELSE one[i - n]
    BY <1>1
  <1>3. n + 1 \in 1..(n + 1) /\ (n + 1) - n = 1 /\ ~(n + 1 <= n)
    OBVIOUS
  <1>4. w[n + 1] = one[1]
    BY <1>2, <1>3
  <1>5. \A i \in 1..n : w[i] = q[i]
    BY <1>2
  <1> QED
    BY <1>1, <1>4, <1>5 DEF w

LEMMA UptoGrows ==
    ASSUME NEW n \in Nat
    PROVE  /\ Upto(n) \in Seq(Nat) /\ Len(Upto(n)) = n
           /\ Upto(n) \o [i \in 1..1 |-> Len(Upto(n)) + i] = Upto(n + 1)
  <1>1. Upto(n) \in Seq(Nat) /\ Len(Upto(n)) = n
    BY DEF Upto
  <1> DEFINE one == [i \in 1..1 |-> n + i]
  <1>2. one \in Seq(Nat) /\ Len(one) = 1 /\ one[1] = n + 1
    OBVIOUS
  <1>3. /\ Upto(n) \o one \in Seq(Nat) /\ Len(Upto(n) \o one) = n + 1
        /\ \A i \in 1..(n + 1) : (Upto(n) \o one)[i] = i
    <2> HIDE DEF one
    <2>1. \A i \in 1..n : Upto(n)[i] = i
      BY DEF Upto
    <2> HIDE DEF Upto
    <2>2. /\ Upto(n) \o one \in Seq(Nat) /\ Len(Upto(n) \o one) = n + 1
          /\ \A i \in 1..n : (Upto(n) \o one)[i] = Upto(n)[i]
      BY <1>1, <1>2, OneMore
    <2>3. (Upto(n) \o one)[n + 1] = one[1]
      BY <1>1, <1>2, OneMore
    <2>4. \A i \in 1..(n + 1) : i \in 1..n \/ i = n + 1
      OBVIOUS
    <2> QED
      BY <1>2, <2>1, <2>2, <2>3, <2>4
  <1>4. /\ Upto(n + 1) \in Seq(Nat) /\ Len(Upto(n + 1)) = n + 1
        /\ \A i \in 1..(n + 1) : Upto(n + 1)[i] = i
    BY DEF Upto
  <1>5. Upto(n) \o one = Upto(n + 1)
    <2> HIDE DEF one, Upto
    <2> QED
      BY <1>3, <1>4, SeqEqual
  <1> QED
    BY <1>1, <1>5

\* What an end has received are the first chunks of the other.
Known ==
    \A t \in Side : /\ \A c \in Conns : Count(t, c) \in Nat
                    /\ GotBy(t) = [c \in Conns |-> Upto(Count(t, c))]

LEMMA Received == IInv => Known
  <1> SUFFICES ASSUME IInv, NEW t \in Side, NEW c \in Conns
               PROVE  Count(t, c) \in Nat /\ Tunnelled(Stream(t, c), c, <<>>) = Upto(Count(t, c))
    BY DEF Known, GotBy
  <1>1. got[t][c] \in Seq(Chunks)
    BY DEF IInv, TypeOK
  <1>2. Len(got[t][c]) \in Nat /\ DOMAIN got[t][c] = 1..Len(got[t][c])
    BY <1>1
  <1>3. CASE method[c] = "connect"
    <2>1. PICK s \in Side : Other(s) = t
      BY OtherSide
    <2>2. \A i \in DOMAIN got[t][c] : got[t][c][i] = [from |-> s, chunk |-> i]
      BY <1>3, <2>1 DEF IInv, ConnInv, StreamInv
    <2> DEFINE G == got[t][c]
    <2>3. \A i \in DOMAIN G : G[i] = [from |-> s, chunk |-> i]
      BY <2>2
    <2>4. Stream(t, c) = [i \in DOMAIN G |-> G[i].chunk]
      BY DEF Stream
    <2>5. Tunnelled(Stream(t, c), c, <<>>) = Stream(t, c)
      BY <1>3 DEF Tunnelled
    <2>6. Count(t, c) = Len(G) /\ DOMAIN G = 1..Len(G) /\ Len(G) \in Nat
      BY <1>2, <1>3 DEF Count
    <2> HIDE DEF G
    <2>7. \A i \in DOMAIN G : G[i].chunk = i
      BY <2>3
    <2> QED
      BY <2>4, <2>5, <2>6, <2>7 DEF Upto
  <1>4. CASE method[c] # "connect"
    <2>1. Upto(0) = <<>>
      BY UptoGrows, EmptySeq DEF Upto
    <2> QED
      BY <1>4, <2>1 DEF Count, Tunnelled
  <1> QED
    BY <1>3, <1>4

\* How a step of a connection changes the count.
LEMMA Moves ==
    ASSUME IInv, NEW t \in Side, NEW c \in Conns,
           \/ Accept(c) \/ HandleConn(c) \/ LostTargetFreed(c)
           \/ \E s \in Side : RunsPipe(c, s) \/ Writes(c, s) \/ Leaves(c, s)
    PROVE  \/ Count(t, c)' = Count(t, c) /\ (UNCHANGED sent \/ \E s \in Side : Writes(c, s))
           \/ /\ Count(t, c)' = Count(t, c) + 1 /\ Count(t, c) < sent[Other(t)][c]
              /\ UNCHANGED sent
  <1>0. TypeOK /\ ConnInv(c)
    BY DEF IInv
  <1>1. CASE ReadHead(c)
    <2>1. got[t][c] = <<>> /\ got'[t][c] = <<>> /\ UNCHANGED sent
      BY <1>0, <1>1 DEF ReadHead, ConnInv, HeadInv
    <2>2. Count(t, c) = 0 /\ Count(t, c)' = 0
      BY <2>1 DEF Count
    <2> QED
      BY <2>1, <2>2
  <1>2. CASE SendBody(c)
    BY <1>0, <1>2 DEF SendBody, ConnInv, BodyInv, Count
  <1>3. ASSUME NEW s \in Side, PipeCopies(c, s)
        PROVE  \/ Count(t, c)' = Count(t, c)
               \/ Count(t, c)' = Count(t, c) + 1 /\ Count(t, c) < sent[Other(t)][c]
    <2>1. Copy(c, s, Target(c, s)) /\ UNCHANGED method
      BY <1>3 DEF PipeCopies
    <2>2. CASE method[c] = "connect"
      <3>1. Target(c, s) = Other(s)
        BY <2>2 DEF Target
      <3>2. CASE t = Other(s) /\ c \in open[t] /\ peer[t][c] = "open"
        <4>1. s = Other(t) /\ taken[s][c] < sent[s][c]
          BY <2>1, <3>2, OtherSide DEF Copy, Unread
        <4>2. got'[t][c] = Append(got[t][c], [from |-> s, chunk |-> taken[s][c] + 1])
          BY <1>0, <2>1, <3>1, <3>2, CopyType
        <4>3. Len(got[t][c]) = taken[s][c]
          BY <1>0, <2>2, <3>2 DEF ConnInv, StreamInv
        <4>4. got[t][c] \in Seq(Chunks)
          BY <1>0 DEF TypeOK
        <4> DEFINE G == got[t][c]
                   e == [from |-> s, chunk |-> taken[s][c] + 1]
        <4>5. Len(Append(G, e)) = Len(G) + 1
          <5> HIDE DEF e
          <5> QED
            BY <4>4
        <4> QED
          BY <2>1, <2>2, <4>1, <4>2, <4>3, <4>5 DEF Count
      <3>3. CASE t # Other(s)
        <4>1. Other(s) \in Side
          BY OtherSide
        <4>2. got'[t][c] = got[t][c]
          BY <1>0, <2>1, <3>1, <3>3, <4>1, CopyOthers
        <4> QED
          BY <2>1, <4>2 DEF Count
      <3>4. CASE t = Other(s) /\ ~(c \in open[t] /\ peer[t][c] = "open")
        BY <2>1, <3>1, <3>4 DEF Copy, Count
      <3> QED
        BY <3>2, <3>3, <3>4
    <2>3. CASE method[c] # "connect"
      BY <2>1, <2>3 DEF Count
    <2> QED
      BY <2>2, <2>3
  <1>4. CASE \/ Accept(c) \/ RefuseHead(c) \/ DialFails(c) \/ DialSucceeds(c)
             \/ AnswerRaises(c) \/ BodyEnds(c) \/ BodyRaises(c) \/ TunnelEnds(c)
             \/ LostTargetFreed(c)
    <2>1. UNCHANGED <<method, got, sent>>
      BY <1>4 DEF Accept, RefuseHead, DialFails, DialSucceeds, AnswerRaises, BodyEnds,
                  BodyRaises, TunnelEnds, LostTargetFreed
    <2> QED
      BY <2>1 DEF Count
  <1>5. CASE \E s \in Side : PipeEnds(c, s) \/ Leaves(c, s)
    <2>1. UNCHANGED <<method, got, sent>>
      BY <1>5 DEF PipeEnds, Leaves
    <2> QED
      BY <2>1 DEF Count
  <1>6. CASE \E s \in Side : Writes(c, s)
    <2>1. UNCHANGED <<method, got>>
      BY <1>6 DEF Writes
    <2> QED
      BY <1>6, <2>1 DEF Count
  <1>7. ASSUME NEW s \in Side, PipeCopies(c, s) PROVE UNCHANGED sent
    BY <1>7 DEF PipeCopies
  <1> QED
    BY <1>1, <1>2, <1>3, <1>4, <1>5, <1>6, <1>7 DEF HandleConn, RunsPipe

\* A step of the proxy is a step of the byte stream from s, or none.
LEMMA StreamStep ==
    ASSUME IInv, Known, Known', [Next]_vars, NEW s \in Side
    PROVE  \/ UNCHANGED <<SentBy(s), GotBy(Other(s))>>
           \/ \E c \in Conns :
                 /\ SentBy(s)' = [SentBy(s) EXCEPT ![c] = @ + 1]
                 /\ UNCHANGED GotBy(Other(s))
           \/ \E c \in Conns : \E n \in 1..(SentBy(s)[c] - Len(GotBy(Other(s))[c])) :
                 /\ GotBy(Other(s))' = [GotBy(Other(s)) EXCEPT ![c] =
                                           @ \o [i \in 1..n |-> Len(@) + i]]
                 /\ UNCHANGED SentBy(s)
  <1> DEFINE t == Other(s)
             K == [c \in Conns |-> Count(t, c)]
  <1>1. t \in Side /\ Other(t) = s
    BY OtherSide
  <1>2. /\ \A c \in Conns : Count(t, c) \in Nat
        /\ GotBy(t) = [c \in Conns |-> Upto(Count(t, c))]
    BY <1>1 DEF Known
  <1>3. /\ \A r \in Side : GotBy(r)' = [c \in Conns |-> Upto(Count(r, c)')]
    BY DEF Known, GotBy, Count, Upto, Stream, Tunnelled
  <1>4. GotBy(t)' = [c \in Conns |-> Upto(Count(t, c)')]
    BY <1>1, <1>3
  <1>5. TypeOK
    BY DEF IInv
  <1>6. CASE UNCHANGED vars
    BY <1>6 DEF vars, SentBy, GotBy, Tunnelled, Stream
  <1>7. CASE Next
    <2>1. PICK c \in Conns :
             \/ Accept(c) \/ HandleConn(c) \/ LostTargetFreed(c)
             \/ \E r \in Side : RunsPipe(c, r) \/ Writes(c, r) \/ Leaves(c, r)
      BY <1>7 DEF Next
    <2>2. \A d \in Conns : d # c => Count(t, d)' = Count(t, d)
      <3>1. \A d \in Conns : d # c => Quiet(d)
        BY <1>5, <2>1, OtherQuiet
      <3> QED
        BY <1>1, <3>1 DEF Quiet, Count
    <2>3. CASE Count(t, c)' = Count(t, c)
      <3>1. UNCHANGED GotBy(t)
        BY <1>2, <1>4, <2>2, <2>3
      <3>2. UNCHANGED sent \/ \E r \in Side : Writes(c, r)
        BY <1>1, <1>2, <2>1, <2>3, Moves
      <3>3. CASE UNCHANGED sent
        BY <3>1, <3>3 DEF SentBy
      <3>4. ASSUME NEW r \in Side, Writes(c, r)
            PROVE  UNCHANGED SentBy(s) \/ SentBy(s)' = [SentBy(s) EXCEPT ![c] = @ + 1]
        BY <1>5, <3>4 DEF Writes, SentBy, TypeOK
      <3> QED
        BY <3>1, <3>2, <3>3, <3>4
    <2>4. CASE Count(t, c)' # Count(t, c)
      <3>1. /\ Count(t, c)' = Count(t, c) + 1 /\ Count(t, c) < sent[s][c]
            /\ UNCHANGED sent
        BY <1>1, <2>1, <2>4, Moves
      <3> DEFINE k == Count(t, c)
      <3>2. UNCHANGED SentBy(s) /\ SentBy(s)[c] = sent[s][c] /\ sent[s][c] \in Nat
        BY <1>5, <3>1, ConstantsAssumption DEF SentBy, TypeOK
      <3>3. k \in Nat /\ GotBy(t)[c] = Upto(k) /\ Len(Upto(k)) = k
        BY <1>2, UptoGrows
      <3>4. GotBy(t)' = [GotBy(t) EXCEPT ![c] = Upto(k + 1)]
        BY <1>2, <1>4, <2>2, <3>1
      <3>5. Upto(k + 1) = GotBy(t)[c] \o [i \in 1..1 |-> Len(GotBy(t)[c]) + i]
        BY <3>3, UptoGrows
      <3>6. 1 \in 1..(SentBy(s)[c] - Len(GotBy(t)[c]))
        <4> HIDE DEF k
        <4> QED
          BY <3>1, <3>2, <3>3 DEF k
      <3>7. GotBy(t)' = [GotBy(t) EXCEPT ![c] = @ \o [i \in 1..1 |-> Len(@) + i]]
        BY <3>4, <3>5
      <3> QED
        BY <3>2, <3>6, <3>7
    <2> QED
      BY <2>3, <2>4
  <1> QED
    BY <1>6, <1>7

LEMMA InitStream ==
    ASSUME Init, NEW s \in Side
    PROVE  SentBy(s) = [c \in Conns |-> 0] /\ GotBy(s) = [c \in Conns |-> <<>>]
  BY DEF Init, SentBy, GotBy, Tunnelled

\* The byte streams of the two directions.
LEMMA UpImplemented == Spec => Up!Spec
  <1>1. "user" \in Side /\ "target" \in Side /\ Other("user") = "target"
    BY DEF Side, Other
  <1>2. Init => Up!Init
    BY <1>1, InitStream DEF Up!Init, SentBy, GotBy
  <1>3. ASSUME IInv, Known, Known', [Next]_vars PROVE [Up!Next]_(Up!vars)
    <2>1. \/ UNCHANGED <<SentBy("user"), GotBy("target")>>
          \/ \E c \in Conns :
                /\ SentBy("user")' = [SentBy("user") EXCEPT ![c] = @ + 1]
                /\ UNCHANGED GotBy("target")
          \/ \E c \in Conns : \E n \in 1..(SentBy("user")[c] - Len(GotBy("target")[c])) :
                /\ GotBy("target")' = [GotBy("target") EXCEPT ![c] =
                                          @ \o [i \in 1..n |-> Len(@) + i]]
                /\ UNCHANGED SentBy("user")
      BY <1>1, <1>3, StreamStep
    <2> QED
      BY <2>1 DEF Up!Next, Up!Write, Up!Read, Up!vars, SentBy, GotBy
  <1> QED
    BY <1>2, <1>3, InvHolds, Received, PTL DEF Spec, Up!Spec

LEMMA DownImplemented == Spec => Down!Spec
  <1>1. "user" \in Side /\ "target" \in Side /\ Other("target") = "user"
    BY DEF Side, Other
  <1>2. Init => Down!Init
    BY <1>1, InitStream DEF Down!Init, SentBy, GotBy
  <1>3. ASSUME IInv, Known, Known', [Next]_vars PROVE [Down!Next]_(Down!vars)
    <2>1. \/ UNCHANGED <<SentBy("target"), GotBy("user")>>
          \/ \E c \in Conns :
                /\ SentBy("target")' = [SentBy("target") EXCEPT ![c] = @ + 1]
                /\ UNCHANGED GotBy("user")
          \/ \E c \in Conns : \E n \in 1..(SentBy("target")[c] - Len(GotBy("user")[c])) :
                /\ GotBy("user")' = [GotBy("user") EXCEPT ![c] =
                                          @ \o [i \in 1..n |-> Len(@) + i]]
                /\ UNCHANGED SentBy("target")
      BY <1>1, <1>3, StreamStep
    <2> QED
      BY <2>1 DEF Down!Next, Down!Write, Down!Read, Down!vars, SentBy, GotBy
  <1> QED
    BY <1>2, <1>3, InvHolds, Received, PTL DEF Spec, Down!Spec

\* A CONNECT tunnel is a byte stream each way, however its two pipes end and
\* whichever of the ends closes first (_handle_connect, _tunnel, _pipe).
THEOREM ConnectCorrect == Spec => ConnectIsPipe
  BY UpImplemented, DownImplemented DEF ConnectIsPipe

=============================================================================
