------------------------- MODULE FlowControl_proofs --------------------------
(***************************************************************************)
(* Proofs about full buffers, for any finite set of connections, any limit  *)
(* of a buffer and any amount of data. A buffer above its limit is charged   *)
(* to those who wait for it: each forwarding task that drains the shared     *)
(* connection has put one chunk too many into it, and an end that holds one  *)
(* too many is the one its side's reader waits for, or has left.             *)
(***************************************************************************)
EXTENDS FlowControl, FiniteSetTheorems, FunctionTheorems, SequenceTheorems, TLAPS

\* The connections whose tasks at side s wait in drain().
Draining(s) == {c \in Conns : forwarder[<<s, c>>] = "draining"}

LinkInv == \A s \in Sides : Load(link[s]) <= High + Cardinality(Draining(s))

EndInv ==
    \A e \in Ends :
        /\ toEnd[e] <= High + 1
        /\ toEnd[e] > High => blocked[e[1]] = e[2] \/ e \notin present

BoundsInv == LinkInv /\ EndInv

-----------------------------------------------------------------------------
(* Type correctness. *)

LEMMA SidesAreTwo ==
    /\ Sides = {"frps", "frpc"}
    /\ \A s \in Sides : Other(s) \in Sides /\ Other(s) # s
BY DEF Sides, Other

Messages == Conns \cup {Call, Answer}

\* A message at the end of a sequence takes room exactly if it is DATA.
LEMMA LoadAppend ==
    ASSUME NEW q \in Seq(Messages), NEW m \in Messages
    PROVE  /\ Load(q) \in Nat
           /\ Load(Append(q, m)) = IF m \in Conns THEN Load(q) + 1 ELSE Load(q)
<1> DEFINE S == {i \in DOMAIN q : q[i] \in Conns}
           T == {i \in DOMAIN Append(q, m) : Append(q, m)[i] \in Conns}
           n == Len(q) + 1
<1>1. DOMAIN q = 1..Len(q) /\ Len(q) \in Nat
  OBVIOUS
<1>2. DOMAIN Append(q, m) = (DOMAIN q) \cup {n} /\ n \notin DOMAIN q
  BY <1>1
<1>3. /\ Append(q, m)[n] = m
      /\ \A i \in DOMAIN q : Append(q, m)[i] = q[i]
  BY <1>1
<1>4. IsFiniteSet(S) /\ Cardinality(S) \in Nat
  <2>1. S \in SUBSET (1..Len(q)) /\ IsFiniteSet(1..Len(q))
    BY <1>1, FS_Interval
  <2> HIDE DEF S
  <2> QED BY <2>1, FS_Subset, FS_CardinalityType
<1>5. CASE m \in Conns
  <2>1. T = S \cup {n} /\ n \notin S
    BY <1>2, <1>3, <1>5
  <2> QED BY <1>4, <1>5, <2>1, FS_AddElement DEF Load
<1>6. CASE m \notin Conns
  <2>1. T = S
    BY <1>2, <1>3, <1>6
  <2> QED BY <1>4, <1>6, <2>1 DEF Load
<1> QED BY <1>5, <1>6

\* Taking the first message off gives its room back.
LEMMA LoadTail ==
    ASSUME NEW q \in Seq(Messages), q # <<>>
    PROVE  Load(Tail(q)) = IF Head(q) \in Conns THEN Load(q) - 1 ELSE Load(q)
<1> DEFINE S == {i \in DOMAIN q : q[i] \in Conns}
           R == S \ {1}
           T == {i \in DOMAIN Tail(q) : Tail(q)[i] \in Conns}
           f == [i \in T |-> i + 1]
<1>1. /\ DOMAIN q = 1..Len(q) /\ Len(q) \in Nat \ {0} /\ Head(q) = q[1]
      /\ DOMAIN Tail(q) = 1..(Len(q) - 1)
      /\ \A i \in 1..(Len(q) - 1) : Tail(q)[i] = q[i + 1]
  OBVIOUS
<1>2. IsFiniteSet(S) /\ Cardinality(S) \in Nat
  <2>1. S \in SUBSET (1..Len(q)) /\ IsFiniteSet(1..Len(q))
    BY <1>1, FS_Interval
  <2> HIDE DEF S
  <2> QED BY <2>1, FS_Subset, FS_CardinalityType
<1>3. IsFiniteSet(T)
  <2>1. T \in SUBSET (1..(Len(q) - 1)) /\ IsFiniteSet(1..(Len(q) - 1))
    BY <1>1, FS_Interval
  <2> HIDE DEF T
  <2> QED BY <2>1, FS_Subset
<1>4. f \in Bijection(T, R)
  <2>1. T \subseteq 1..(Len(q) - 1) /\ \A i \in T : q[i + 1] \in Conns
    BY <1>1
  <2>2. \A i \in T : i + 1 \in R
    BY <1>1, <2>1
  <2>3. f \in [T -> R]
    BY <2>2
  <2>4. \A i, j \in T : f[i] = f[j] => i = j
    BY <2>1
  <2>5. ASSUME NEW j \in R PROVE \E i \in T : f[i] = j
    <3>1. j - 1 \in 1..(Len(q) - 1) /\ q[j] \in Conns
      BY <1>1
    <3>2. Tail(q)[j - 1] = q[(j - 1) + 1] /\ (j - 1) + 1 = j
      BY <1>1, <3>1
    <3>3. j - 1 \in T
      BY <1>1, <3>1, <3>2
    <3> QED BY <3>2, <3>3
  <2> QED BY <2>3, <2>4, <2>5 DEF Bijection, Injection, IsInjective, Surjection
<1>5. Cardinality(R) = Cardinality(T)
  BY <1>3, <1>4, FS_Bijection DEF ExistsBijection
<1>6. CASE Head(q) \in Conns
  <2>1. 1 \in S
    BY <1>1, <1>6
  <2>2. Cardinality(R) = Cardinality(S) - 1
    BY <1>2, <2>1, FS_RemoveElement
  <2> QED BY <1>5, <1>6, <2>2 DEF Load
<1>7. CASE Head(q) \notin Conns
  <2>1. R = S
    BY <1>1, <1>7
  <2> QED BY <1>5, <1>7, <2>1 DEF Load
<1> QED BY <1>6, <1>7

\* What a reader's step does to the connections: the types of all that it changes.
LEMMA TakeType ==
    ASSUME NEW s \in Sides, NEW message, NEW reply \in {<<>>, <<Answer>>},
           NEW wait \in Conns \cup {Link, None}, TypeOK, Take(s, message, reply, wait)
    PROVE  /\ link' \in [Sides -> Seq(Messages)]
           /\ forwarder' \in [Ends -> {"reading", "draining", "ended"}]
           /\ blocked' \in [Sides -> Conns \cup {Link, None}]
<1> DEFINE from == Other(s)
<1>1. /\ from \in Sides /\ link \in [Sides -> Seq(Messages)]
      /\ link[from] \in Seq(Messages) /\ link[from] # <<>>
      /\ link' = [link EXCEPT ![from] = Tail(link[from]), ![s] = @ \o reply]
  BY SidesAreTwo DEF Take, TypeOK, Messages
<1>2. Tail(link[from]) \in Seq(Messages) /\ reply \in Seq(Messages)
  <2>1. Answer \in Messages
    BY DEF Messages
  <2>2. <<>> \in Seq(Messages) /\ <<Answer>> \in Seq(Messages)
    BY <2>1
  <2>3. reply \in Seq(Messages)
    BY <2>2
  <2>4. Tail(link[from]) \in Seq(Messages)
    BY <1>1
  <2> QED BY <2>3, <2>4
<1>3. \A q \in Seq(Messages) : q \o reply \in Seq(Messages)
  BY <1>2
<1>4. link' \in [Sides -> Seq(Messages)]
  BY <1>1, <1>2, <1>3
<1>5. forwarder' \in [Ends -> {"reading", "draining", "ended"}]
  BY DEF Take, Wake, TypeOK
<1>6. blocked' \in [Sides -> Conns \cup {Link, None}]
  BY DEF Take, TypeOK
<1> QED BY <1>4, <1>5, <1>6

LEMMA TypeInit == Init => TypeOK
BY ConstantsAssumption DEF Init, TypeOK, endVars, Ends

\* An end is its side and its connection.
LEMMA EndsArePairs ==
    \A e \in Ends : e[1] \in Sides /\ e[2] \in Conns /\ e = <<e[1], e[2]>>
BY DEF Ends

LEMMA TypeForward ==
    ASSUME NEW e \in Ends, TypeOK, Forward(e)
    PROVE  TypeOK'
<1>1. /\ toProgram' = [toProgram EXCEPT ![e] = @ - 1]
      /\ toProgram[e] > 0
      /\ link' = [link EXCEPT ![e[1]] = Append(@, e[2])]
      /\ UNCHANGED <<dataChannel, deaf, present, wrote, toEnd, open, blocked>>
  BY DEF Forward, endVars
<1>2. toProgram' \in [Ends -> Nat]
  BY <1>1 DEF TypeOK
<1>3. link' \in [Sides -> Seq(Conns \cup {Call, Answer})]
  BY <1>1, EndsArePairs DEF TypeOK
<1>4. forwarder' \in [Ends -> {"reading", "draining", "ended"}]
  BY DEF TypeOK, Forward
<1> QED BY <1>1, <1>2, <1>3, <1>4 DEF TypeOK

LEMMA TypeHandleData ==
    ASSUME NEW s \in Sides, TypeOK, HandleData(s)
    PROVE  TypeOK'
<1>1. PICK c \in Conns :
        LET e == <<s, c>> IN
        /\ IF e \in open /\ e \in present
           THEN /\ toEnd' = [toEnd EXCEPT ![e] = @ + 1]
                /\ Take(s, c, <<>>, IF toEnd'[e] > High THEN c ELSE None)
                /\ UNCHANGED open
           ELSE /\ open' = IF e \in present THEN open ELSE open \ {e}
                /\ Take(s, c, <<>>, None)
                /\ UNCHANGED toEnd
        /\ UNCHANGED <<endVars, toProgram>>
  BY DEF HandleData
<1> DEFINE e == <<s, c>>
<1>2. e \in Ends
  BY DEF Ends
<1>3. toEnd' \in [Ends -> Nat] /\ open' \subseteq Ends
  <2>1. \A d \in Ends : [toEnd EXCEPT ![d] = @ + 1] \in [Ends -> Nat]
    BY DEF TypeOK
  <2> QED BY <1>1, <1>2, <2>1 DEF TypeOK
<1>4. \E wait \in Conns \cup {Link, None} : Take(s, c, <<>>, wait)
  BY <1>1
<1>5. /\ link' \in [Sides -> Seq(Messages)]
      /\ forwarder' \in [Ends -> {"reading", "draining", "ended"}]
      /\ blocked' \in [Sides -> Conns \cup {Link, None}]
  BY <1>4, TakeType
<1> QED BY <1>1, <1>3, <1>5 DEF TypeOK, endVars, Messages

LEMMA TypeHandleOther ==
    ASSUME NEW s \in Sides, TypeOK, HandleCall(s) \/ HandleAnswer(s)
    PROVE  TypeOK'
<1>1. /\ \E message \in {Call, Answer}, reply \in {<<>>, <<Answer>>},
            wait \in Conns \cup {Link, None} : Take(s, message, reply, wait)
      /\ UNCHANGED <<endVars, toProgram, toEnd, open>>
  BY DEF HandleCall, HandleAnswer
<1>2. /\ link' \in [Sides -> Seq(Messages)]
      /\ forwarder' \in [Ends -> {"reading", "draining", "ended"}]
      /\ blocked' \in [Sides -> Conns \cup {Link, None}]
  BY <1>1, TakeType
<1> QED BY <1>1, <1>2 DEF TypeOK, endVars, Messages

LEMMA TypeStep == TypeOK /\ [Next]_vars => TypeOK'
<1> SUFFICES ASSUME TypeOK, [Next]_vars PROVE TypeOK'
  OBVIOUS
<1>1. ASSUME NEW s \in Sides, HandleData(s) PROVE TypeOK'
  BY <1>1, TypeHandleData
<1>2. ASSUME NEW e \in Ends, Forward(e) PROVE TypeOK'
  BY <1>2, TypeForward
<1>3. ASSUME NEW e \in Ends, ForwardEnds(e) PROVE TypeOK'
  BY <1>3 DEF ForwardEnds, TypeOK, endVars
<1>4. ASSUME NEW e \in Ends, IdleTimeout(e) PROVE TypeOK'
  BY <1>4 DEF IdleTimeout, TypeOK, endVars
<1>5. ASSUME NEW e \in Ends, EndWrites(e) PROVE TypeOK'
  <2>0. wrote[e] \in Nat /\ Quota[e] \in Nat /\ wrote[e] < Quota[e]
    BY <1>5, ConstantsAssumption DEF EndWrites, TypeOK
  <2>1. wrote' \in [Ends -> Nat] /\ toProgram' \in [Ends -> Nat]
    BY <1>5 DEF EndWrites, TypeOK
  <2>2. ASSUME NEW d \in Ends PROVE wrote'[d] <= Quota[d]
    <3>1. wrote'[d] = IF d = e THEN wrote[d] + 1 ELSE wrote[d]
      BY <1>5 DEF EndWrites, TypeOK
    <3> QED BY <2>0, <3>1 DEF TypeOK
  <2> QED BY <1>5, <2>1, <2>2 DEF EndWrites, TypeOK
<1>6. ASSUME NEW e \in Ends, EndReads(e) PROVE TypeOK'
  <2>1. toEnd' \in [Ends -> Nat]
    <3>1. toEnd[e] > 0 /\ toEnd' = [toEnd EXCEPT ![e] = @ - 1]
      BY <1>6 DEF EndReads
    <3> QED BY <3>1 DEF TypeOK
  <2>2. blocked' \in [Sides -> Conns \cup {Link, None}]
    BY <1>6 DEF EndReads, TypeOK
  <2> QED BY <1>6, <2>1, <2>2 DEF EndReads, TypeOK, endVars
<1>7. ASSUME NEW e \in Ends, EndLeaves(e) PROVE TypeOK'
  BY <1>7 DEF EndLeaves, TypeOK
<1>8. CASE UNCHANGED vars
  BY <1>8 DEF vars, endVars, TypeOK
<1>9. ASSUME NEW s \in Sides, HandleCall(s) \/ HandleAnswer(s) PROVE TypeOK'
  BY <1>9, TypeHandleOther
<1>10. ASSUME NEW s \in Sides, SendCall(s) PROVE TypeOK'
  <2>1. link' = [link EXCEPT ![s] = Append(@, Call)]
    BY <1>10 DEF SendCall
  <2>2. link' \in [Sides -> Seq(Conns \cup {Call, Answer})]
    BY <2>1 DEF TypeOK
  <2> QED BY <1>10, <2>2 DEF SendCall, TypeOK, endVars
<1> QED
  BY <1>1, <1>2, <1>3, <1>4, <1>5, <1>6, <1>7, <1>8, <1>9, <1>10
  DEF Next, ForwarderTask, ReaderTask

\* The type invariant holds for any ends, limits and quotas: an end writes no
\* more than its quota, and a reader waits for one end at a time.
THEOREM TypeCorrect == Spec => []TypeOK
BY TypeInit, TypeStep, PTL DEF Spec

-----------------------------------------------------------------------------
(* The bounds. *)

LEMMA DrainingIsFinite ==
    \A s \in Sides : /\ IsFiniteSet(Draining(s)) /\ Cardinality(Draining(s)) \in Nat
                     /\ Cardinality(Draining(s)) <= Cardinality(Conns)
                     /\ Cardinality(Conns) \in Nat
<1> TAKE s \in Sides
<1>1. Draining(s) \subseteq Conns
  BY DEF Draining
<1>2. IsFiniteSet(Conns)
  BY ConstantsAssumption
<1>3. IsFiniteSet(Draining(s)) /\ Cardinality(Draining(s)) <= Cardinality(Conns)
  BY <1>1, <1>2, FS_Subset
<1> QED BY <1>2, <1>3, FS_CardinalityType

LEMMA BoundsInit == Init => BoundsInv
<1> SUFFICES ASSUME Init PROVE BoundsInv
  OBVIOUS
<1>1. Load(<<>>) = 0
  <2>1. {i \in DOMAIN <<>> : <<>>[i] \in Conns} = {}
    OBVIOUS
  <2> QED BY <2>1, FS_EmptySet DEF Load
<1>2. LinkInv
  BY <1>1, DrainingIsFinite, ConstantsAssumption DEF Init, LinkInv
<1>3. EndInv
  BY ConstantsAssumption DEF Init, EndInv, Ends
<1> QED BY <1>2, <1>3 DEF BoundsInv

\* A task that is not draining adds one chunk, and drains if that is too many.
LEMMA ForwardKeepsLink ==
    ASSUME NEW e \in Ends, TypeOK, LinkInv, Forward(e)
    PROVE  LinkInv'
<1>1. PICK s \in Sides, c \in Conns : e = <<s, c>>
  BY DEF Ends
<1>2. /\ forwarder[e] = "reading"
      /\ link' = [link EXCEPT ![s] = Append(@, c)]
      /\ forwarder' = [forwarder EXCEPT ![e] = IF Load(link'[s]) > High THEN "draining"
                                               ELSE "reading"]
  BY <1>1 DEF Forward
<1>3. Load(link'[s]) = Load(link[s]) + 1 /\ Load(link[s]) \in Nat /\ High \in Nat
  <2>1. link[s] \in Seq(Messages) /\ c \in Messages /\ link'[s] = Append(link[s], c)
    BY <1>2 DEF TypeOK, Messages
  <2> QED BY <2>1, LoadAppend, ConstantsAssumption
<1> SUFFICES ASSUME NEW t \in Sides
             PROVE  Load(link'[t]) <= High + Cardinality(Draining(t)')
  BY DEF LinkInv
<1>4. CASE t # s
  <2>1. \A d \in Conns : <<t, d>> \in Ends /\ <<t, d>> # e
    BY <1>1, <1>4 DEF Ends
  <2>2. \A d \in Conns : forwarder'[<<t, d>>] = forwarder[<<t, d>>]
    BY <1>2, <2>1 DEF TypeOK
  <2>3. Draining(t)' = Draining(t) /\ link'[t] = link[t]
    BY <1>2, <1>4, <2>2 DEF Draining, TypeOK
  <2> QED BY <2>3 DEF LinkInv
<1>5. CASE t = s /\ Load(link'[s]) > High
  <2>1. \A d \in Conns : forwarder'[<<s, d>>] = IF d = c THEN "draining" ELSE forwarder[<<s, d>>]
    BY <1>1, <1>2, <1>5 DEF TypeOK, Ends
  <2>2. Draining(s)' = Draining(s) \cup {c} /\ c \notin Draining(s)
    BY <1>1, <1>2, <2>1 DEF Draining
  <2>3. Cardinality(Draining(s)') = Cardinality(Draining(s)) + 1
    BY <2>2, DrainingIsFinite, FS_AddElement
  <2> QED BY <1>3, <1>5, <2>3, DrainingIsFinite DEF LinkInv
<1>6. CASE t = s /\ ~(Load(link'[s]) > High)
  <2>1. \A d \in Conns : forwarder'[<<s, d>>] = forwarder[<<s, d>>]
    BY <1>1, <1>2, <1>6 DEF TypeOK, Ends
  <2>2. Draining(s)' = Draining(s)
    BY <2>1 DEF Draining
  <2> QED BY <1>3, <1>6, <2>2, DrainingIsFinite
<1> QED BY <1>4, <1>5, <1>6

\* The side that writes the connection: its tasks wake only once the buffer is
\* within its limit. A reply is small.
LEMMA TakeKeepsLink ==
    ASSUME NEW s \in Sides, NEW message, NEW reply \in {<<>>, <<Answer>>}, NEW wait,
           TypeOK, LinkInv, Take(s, message, reply, wait)
    PROVE  LinkInv'
<1> DEFINE from == Other(s)
<1>1. /\ from \in Sides /\ from # s
      /\ link[from] \in Seq(Messages) /\ link[from] # <<>> /\ link[s] \in Seq(Messages)
      /\ link'[from] = Tail(link[from]) /\ link'[s] = link[s] \o reply
      /\ Wake(from, Tail(link[from]))
  BY SidesAreTwo DEF Take, TypeOK, Messages
<1>2. High \in Nat /\ Load(link[from]) \in Nat /\ Load(link[s]) \in Nat
  <2>1. Answer \in Messages
    BY DEF Messages
  <2> QED BY <1>1, <2>1, LoadAppend, ConstantsAssumption
<1>3. Load(link'[s]) = Load(link[s])
  <2>1. CASE reply = <<>>
    BY <1>1, <2>1
  <2>2. CASE reply = <<Answer>>
    <3>1. link'[s] = Append(link[s], Answer) /\ Answer \in Messages /\ Answer \notin Conns
      BY <1>1, <2>2, ConstantsAssumption DEF Messages
    <3> QED BY <1>1, <3>1, LoadAppend
  <2> QED BY <2>1, <2>2
<1>4. Load(link'[from]) \in Nat /\ Load(link'[from]) <= Load(link[from])
  <2>1. link'[from] \in Seq(Messages) /\ Answer \in Messages
    BY <1>1 DEF Messages
  <2>2. Load(link'[from]) \in Nat
    BY <2>1, LoadAppend
  <2>3. Load(link'[from]) = Load(link[from]) - 1 \/ Load(link'[from]) = Load(link[from])
    BY <1>1, LoadTail
  <2> QED BY <1>2, <2>2, <2>3
<1> SUFFICES ASSUME NEW t \in Sides
             PROVE  Load(link'[t]) <= High + Cardinality(Draining(t)')
  BY DEF LinkInv
<1>5. CASE t # from
  <2>1. t = s
    BY <1>5, SidesAreTwo DEF Other
  <2>2. \A d \in Conns : <<t, d>> \in Ends /\ <<t, d>>[1] = t
    BY DEF Ends
  <2>3. \A d \in Conns : forwarder'[<<t, d>>] = forwarder[<<t, d>>]
    BY <1>1, <1>5, <2>2 DEF Wake
  <2>4. Draining(t)' = Draining(t)
    BY <2>3 DEF Draining
  <2> QED BY <1>3, <2>1, <2>4 DEF LinkInv
<1>6. CASE t = from /\ Load(link'[from]) > High
  <2>1. Draining(t)' = Draining(t)
    BY <1>1, <1>6 DEF Wake, Draining
  <2> QED BY <1>1, <1>2, <1>4, <1>6, <2>1, DrainingIsFinite DEF LinkInv
<1>7. CASE t = from /\ ~(Load(link'[from]) > High)
  <2>1. IsFiniteSet(Draining(t)') /\ Cardinality(Draining(t)') \in Nat
    <3>1. Draining(t)' \subseteq Conns
      BY DEF Draining
    <3> QED BY <3>1, ConstantsAssumption, FS_Subset, FS_CardinalityType
  <2> QED BY <1>2, <1>4, <1>7, <2>1
<1> QED BY <1>5, <1>6, <1>7

\* A call is small.
LEMMA SendCallKeepsLink ==
    ASSUME NEW s \in Sides, TypeOK, LinkInv, SendCall(s)
    PROVE  LinkInv'
<1>1. /\ link' = [link EXCEPT ![s] = Append(@, Call)] /\ UNCHANGED forwarder
      /\ link[s] \in Seq(Messages) /\ Call \in Messages /\ Call \notin Conns
  BY ConstantsAssumption DEF SendCall, TypeOK, Messages
<1>2. \A t \in Sides : Load(link'[t]) = Load(link[t])
  BY <1>1, LoadAppend DEF TypeOK
<1> QED BY <1>1, <1>2 DEF LinkInv, Draining

\* The other steps neither add to a connection nor end a drain.
LEMMA OthersKeepLink ==
    ASSUME TypeOK, LinkInv, UNCHANGED link,
           \A s \in Sides, c \in Conns :
               forwarder'[<<s, c>>] = "draining" <=> forwarder[<<s, c>>] = "draining"
    PROVE  LinkInv'
<1>1. \A s \in Sides : Draining(s)' = Draining(s)
  BY DEF Draining
<1> QED BY <1>1 DEF LinkInv

LEMMA LinkStep == TypeOK /\ LinkInv /\ [Next]_vars => LinkInv'
<1> SUFFICES ASSUME TypeOK, LinkInv, [Next]_vars PROVE LinkInv'
  OBVIOUS
<1>1. ASSUME NEW s \in Sides, ReaderTask(s) PROVE LinkInv'
  <2>1. \E message \in Messages, reply \in {<<>>, <<Answer>>},
           wait \in Conns \cup {Link, None} : Take(s, message, reply, wait)
    BY <1>1 DEF ReaderTask, HandleData, HandleCall, HandleAnswer, Messages
  <2> QED BY <2>1, TakeKeepsLink
<1>2. ASSUME NEW e \in Ends, Forward(e) PROVE LinkInv'
  BY <1>2, ForwardKeepsLink
<1>3. ASSUME NEW e \in Ends, ForwardEnds(e) PROVE LinkInv'
  BY <1>3, OthersKeepLink DEF ForwardEnds, TypeOK, Ends
<1>4. ASSUME NEW e \in Ends, IdleTimeout(e) PROVE LinkInv'
  BY <1>4, OthersKeepLink DEF IdleTimeout, TypeOK, Ends
<1>5. CASE UNCHANGED <<link, forwarder>>
  BY <1>5, OthersKeepLink
<1>6. ASSUME NEW s \in Sides, SendCall(s) PROVE LinkInv'
  BY <1>6, SendCallKeepsLink
<1> QED
  BY <1>1, <1>2, <1>3, <1>4, <1>5, <1>6
  DEF Next, ForwarderTask, EndWrites, EndReads, EndLeaves, vars

\* A reader that waits for nothing writes one chunk to an end that has room. The
\* other side's reader stays with the end it waits for.
LEMMA TakeKeepsBlocked ==
    ASSUME NEW s \in Sides, NEW message, NEW reply, NEW wait,
           TypeOK, Take(s, message, reply, wait)
    PROVE  /\ blocked[s] = None /\ blocked'[s] = wait
           /\ \A t \in Sides, c \in Conns : blocked[t] = c => blocked'[t] = c
<1>1. /\ blocked[s] = None /\ Other(s) \in Sides /\ Other(s) # s
      /\ blocked' = [blocked EXCEPT
                        ![s] = wait,
                        ![Other(s)] = IF @ = Link /\ Load(Tail(link[Other(s)])) <= High
                                      THEN None ELSE @]
  BY SidesAreTwo DEF Take
<1>2. \A c \in Conns : c # None /\ c # Link
  BY ConstantsAssumption
<1> QED BY <1>1, <1>2 DEF TypeOK

LEMMA HandleDataKeepsEnds ==
    ASSUME NEW s \in Sides, TypeOK, EndInv, HandleData(s)
    PROVE  EndInv'
<1>0. PICK h \in Conns :
        LET e == <<s, h>> IN
        /\ IF e \in open /\ e \in present
           THEN /\ toEnd' = [toEnd EXCEPT ![e] = @ + 1]
                /\ Take(s, h, <<>>, IF toEnd'[e] > High THEN h ELSE None)
                /\ UNCHANGED open
           ELSE /\ open' = IF e \in present THEN open ELSE open \ {e}
                /\ Take(s, h, <<>>, None)
                /\ UNCHANGED toEnd
        /\ UNCHANGED <<endVars, toProgram>>
  BY DEF HandleData
<1> DEFINE e == <<s, h>>
<1>1. /\ None \notin Conns /\ High \in Nat /\ UNCHANGED present /\ e \in Ends
      /\ e[1] = s /\ e[2] = h
  BY <1>0, ConstantsAssumption DEF endVars, Ends
<1>2. /\ blocked[s] = None
      /\ \A t \in Sides, c \in Conns : blocked[t] = c => blocked'[t] = c
  <2>1. \E wait \in {h, None} : Take(s, h, <<>>, wait)
    BY <1>0
  <2> QED BY <2>1, TakeKeepsBlocked
<1>3. CASE e \in open /\ e \in present
  <2>1. /\ toEnd' = [toEnd EXCEPT ![e] = @ + 1]
        /\ Take(s, h, <<>>, IF toEnd'[e] > High THEN h ELSE None)
    BY <1>0, <1>3
  <2>2. blocked'[s] = IF toEnd'[e] > High THEN h ELSE None
    BY <2>1, TakeKeepsBlocked
  <2>3. toEnd[e] \in Nat /\ toEnd[e] <= High
    <3>1. toEnd[e] \in Nat
      BY <1>1 DEF TypeOK
    <3>2. toEnd[e] > High => blocked[e[1]] = e[2] \/ e \notin present
      BY <1>1 DEF EndInv
    <3>3. blocked[e[1]] # e[2]
      BY <1>1, <1>2
    <3> HIDE DEF e
    <3> QED BY <1>1, <1>3, <3>1, <3>2, <3>3
  <2>4. toEnd'[e] = toEnd[e] + 1
    BY <1>1, <2>1 DEF TypeOK
  <2> SUFFICES ASSUME NEW d \in Ends
               PROVE  /\ toEnd'[d] <= High + 1
                      /\ toEnd'[d] > High => blocked'[d[1]] = d[2] \/ d \notin present
    BY <1>1 DEF EndInv
  <2>5. CASE d = e
    BY <1>1, <2>2, <2>3, <2>4, <2>5
  <2>6. CASE d # e
    <3>1. toEnd'[d] = toEnd[d]
      BY <2>1, <2>6 DEF TypeOK
    <3> QED BY <1>2, <3>1, EndsArePairs DEF EndInv
  <2> QED BY <2>5, <2>6
<1>4. CASE ~(e \in open /\ e \in present)
  <2>1. UNCHANGED toEnd
    BY <1>0, <1>4
  <2> QED BY <1>1, <1>2, <2>1, EndsArePairs DEF EndInv
<1> QED BY <1>3, <1>4

\* Calls and answers leave the ends alone.
LEMMA HandleOtherKeepsEnds ==
    ASSUME NEW s \in Sides, TypeOK, EndInv, HandleCall(s) \/ HandleAnswer(s)
    PROVE  EndInv'
<1>1. /\ \E message \in {Call, Answer}, reply \in {<<>>, <<Answer>>},
            wait \in {Link, None} : Take(s, message, reply, wait)
      /\ UNCHANGED <<toEnd, present>>
  BY DEF HandleCall, HandleAnswer, endVars
<1>2. \A t \in Sides, c \in Conns : blocked[t] = c => blocked'[t] = c
  BY <1>1, TakeKeepsBlocked
<1> QED BY <1>1, <1>2, EndsArePairs DEF EndInv

LEMMA EndReadsKeepsEnds ==
    ASSUME NEW e \in Ends, TypeOK, EndInv, EndReads(e)
    PROVE  EndInv'
<1>1. /\ toEnd[e] > 0 /\ toEnd' = [toEnd EXCEPT ![e] = @ - 1]
      /\ blocked' = [blocked EXCEPT ![e[1]] = IF @ = e[2] /\ toEnd'[e] <= High THEN None ELSE @]
      /\ UNCHANGED present /\ High \in Nat
  BY ConstantsAssumption DEF EndReads, endVars
<1> SUFFICES ASSUME NEW d \in Ends
             PROVE  /\ toEnd'[d] <= High + 1
                    /\ toEnd'[d] > High => blocked'[d[1]] = d[2] \/ d \notin present'
  BY DEF EndInv
<1>2. toEnd[d] \in Nat /\ toEnd[e] \in Nat
  BY DEF TypeOK
<1>3. CASE d = e
  <2>1. toEnd'[d] = toEnd[d] - 1
    BY <1>1, <1>3 DEF TypeOK
  <2> QED BY <1>1, <1>2, <2>1 DEF EndInv
<1>4. CASE d # e
  <2>1. toEnd'[d] = toEnd[d]
    BY <1>1, <1>4 DEF TypeOK
  <2>2. d[1] # e[1] \/ d[2] # e[2]
    BY <1>4, EndsArePairs
  <2>3. blocked[d[1]] = d[2] => blocked'[d[1]] = d[2]
    BY <1>1, <2>2, EndsArePairs DEF TypeOK
  <2> QED BY <1>1, <2>1, <2>3 DEF EndInv
<1> QED BY <1>3, <1>4

LEMMA EndLeavesKeepsEnds ==
    ASSUME NEW e \in Ends, TypeOK, EndInv, EndLeaves(e)
    PROVE  EndInv'
<1>1. /\ present' = present \ {e} /\ UNCHANGED toEnd
      /\ \/ blocked' = blocked
         \/ blocked[e[1]] = e[2] /\ blocked' = [blocked EXCEPT ![e[1]] = None]
  BY DEF EndLeaves
<1> SUFFICES ASSUME NEW d \in Ends, toEnd[d] > High
             PROVE  blocked'[d[1]] = d[2] \/ d \notin present'
  BY <1>1 DEF EndInv
<1>2. CASE d = e
  BY <1>1, <1>2
<1>3. CASE d # e
  <2>1. d[1] # e[1] \/ d[2] # e[2]
    BY <1>3, EndsArePairs
  <2>2. blocked[d[1]] = d[2] => blocked'[d[1]] = d[2]
    BY <1>1, <2>1, EndsArePairs DEF TypeOK
  <2> QED BY <1>1, <2>2 DEF EndInv
<1> QED BY <1>2, <1>3

LEMMA EndStep == TypeOK /\ EndInv /\ [Next]_vars => EndInv'
<1> SUFFICES ASSUME TypeOK, EndInv, [Next]_vars PROVE EndInv'
  OBVIOUS
<1>1. ASSUME NEW s \in Sides, HandleData(s) PROVE EndInv'
  BY <1>1, HandleDataKeepsEnds
<1>2. ASSUME NEW e \in Ends, EndReads(e) PROVE EndInv'
  BY <1>2, EndReadsKeepsEnds
<1>3. ASSUME NEW e \in Ends, EndLeaves(e) PROVE EndInv'
  BY <1>3, EndLeavesKeepsEnds
<1>4. CASE UNCHANGED <<toEnd, blocked, present>>
  BY <1>4 DEF EndInv
<1>5. ASSUME NEW s \in Sides, HandleCall(s) \/ HandleAnswer(s) PROVE EndInv'
  BY <1>5, HandleOtherKeepsEnds
<1> QED
  BY <1>1, <1>2, <1>3, <1>4, <1>5
  DEF Next, ForwarderTask, ReaderTask, SendCall, Forward, ForwardEnds, IdleTimeout,
      EndWrites, vars, endVars

LEMMA BoundsImplied == BoundsInv /\ TypeOK => BuffersAreBounded
<1> SUFFICES ASSUME BoundsInv, TypeOK PROVE BuffersAreBounded
  OBVIOUS
<1>1. ASSUME NEW s \in Sides PROVE Load(link[s]) <= High + Cardinality(Conns)
  <2>1. Load(link[s]) \in Nat
    BY LoadAppend DEF TypeOK, Messages
  <2> QED BY <2>1, DrainingIsFinite, ConstantsAssumption DEF BoundsInv, LinkInv
<1>2. ASSUME NEW e \in Ends PROVE toEnd[e] <= High + 1
  BY DEF BoundsInv, EndInv, Ends
<1> QED BY <1>1, <1>2 DEF BuffersAreBounded

\* What the programs hold is bounded for any number of connections and however
\* much the ends write: at most one chunk above the limit per connection on a
\* connection between the programs, and one per end.
THEOREM BoundsCorrect == Spec => []BuffersAreBounded
<1>1. BoundsInv /\ TypeOK /\ [Next]_vars => BoundsInv'
  BY LinkStep, EndStep DEF BoundsInv
<1> QED BY TypeCorrect, BoundsInit, BoundsImplied, <1>1, PTL DEF Spec
=============================================================================
