-------------------------- MODULE StcpRelay_proofs ---------------------------
(***************************************************************************)
(* Proofs about the STCP relay of frps, for any set of connections and any   *)
(* way the system may run.                                                 *)
(***************************************************************************)
EXTENDS StcpRelay, FiniteSetTheorems, SequenceTheorems, TLAPS

ToVisitor == Ctrl("visitor")

\* A queue holds a message of this type about this connection.
Says(q, t, c) == \E i \in 1..Len(q) : q[i].type = t /\ q[i].conn = c
HasClose(q, c) == \E i \in 1..Len(q) : q[i] = Close(c)

-----------------------------------------------------------------------------
(* Messages and queues. *)

Queues == [Writers -> Seq(Msg)]

LEMMA WriterType ==
    /\ \A cl \in Clients : Ctrl(cl) \in Writers /\ Ctrl(cl)[1] = cl
    /\ \A cl \in Clients : DataWriter(cl) \in Writers /\ DataWriter(cl)[1] = cl
    /\ \A w \in Writers : w[1] \in Clients /\ w # None
    /\ \A w \in Links : w \in Writers
    /\ Ctrl("provider") # ToVisitor
  BY ConstantsAssumption DEF Writers, Clients, Ctrl, DataWriter, Links, ToVisitor

LEMMA SideType == \A cl \in Clients : Other(cl) \in Clients /\ Other(cl) # cl
  BY DEF Other, Clients

LEMMA Messages ==
    /\ \A c \in Conns : NewVisitor(c) \in Msg /\ Ready(c) \in Msg /\ Close(c) \in Msg
    /\ \A c \in Conns, s \in Seq(Nat) : Data(c, s) \in Msg
  BY DEF Msg, NewVisitor, Ready, Close, Data

LEMMA SeqType ==
    ASSUME NEW S, NEW q \in Seq(S)
    PROVE  /\ \A m \in S : Append(q, m) \in Seq(S) /\ <<m>> \in Seq(S)
           /\ \A m \in S, n \in S : <<m, n>> \in Seq(S)
           /\ \A r \in Seq(S) : q \o r \in Seq(S)
           /\ q # <<>> => Tail(q) \in Seq(S) /\ Head(q) \in S
           /\ <<>> \in Seq(S)
  OBVIOUS

\* A message carries consecutive chunks.
LEMMA PayloadType == Payload \subseteq Seq(Nat)
  <1>1. ASSUME NEW m \in 1..MaxChunks, NEW n \in 1..MaxChunks
        PROVE  [i \in 1..(n - m + 1) |-> m + i - 1] \in Seq(Nat)
    <2>1. m \in Nat /\ n \in Nat
      BY <1>1, ConstantsAssumption
    <2>2. \A i \in 1..(n - m + 1) : m + i - 1 \in Nat
      BY <2>1
    <2>3. CASE n >= m
      <3>1. n - m + 1 \in Nat
        BY <2>1, <2>3
      <3> QED
        BY <2>2, <3>1
    <2>4. CASE n < m
      <3>1. 1..(n - m + 1) = {} /\ 1..0 = {}
        BY <2>1, <2>4
      <3>2. [i \in 1..(n - m + 1) |-> m + i - 1] = [i \in 1..0 |-> m + i - 1]
        BY <3>1
      <3>3. [i \in 1..0 |-> m + i - 1] \in [1..0 -> Nat]
        BY <3>1
      <3> QED
        BY <3>2, <3>3
    <2> QED
      BY <2>1, <2>3, <2>4
  <1> QED
    BY <1>1 DEF Payload

LEMMA WrittenType ==
    ASSUME toClient \in Queues, NEW w \in Writers, NEW msgs \in Seq(Msg)
    PROVE  /\ Written(w, msgs) \in Queues
           /\ \A v \in Writers : v # w => Written(w, msgs)[v] = toClient[v]
           /\ w[1] \in up => Written(w, msgs)[w] = toClient[w] \o msgs
  BY SeqType DEF Written, Queues

\* The closing messages of any connections are a sequence of messages.
LEMMA ClosesType ==
    ASSUME NEW cs \in SUBSET Conns, NEW q \in Closes(cs)
    PROVE  /\ q \in Seq(Msg)
           /\ \A c \in cs : HasClose(q, c)
  <1>1. Cardinality(cs) \in Nat /\ IsFiniteSet(cs)
    BY FS_Subset, FS_CardinalityType, ConstantsAssumption
  <1>2. PICK order \in SetToSeqs(cs) : q = [i \in DOMAIN order |-> Close(order[i])]
    BY DEF Closes
  <1>3. order \in [1..Cardinality(cs) -> cs] /\ \A i, j \in 1..Cardinality(cs) : i # j => order[i] # order[j]
    BY <1>2 DEF SetToSeqs
  <1>4. q \in [1..Cardinality(cs) -> Msg]
    BY <1>2, <1>3, Messages
  <1>5. q \in Seq(Msg) /\ Len(q) = Cardinality(cs)
    BY <1>1, <1>4
  <1>6. ASSUME NEW c \in cs PROVE HasClose(q, c)
    <2>1. order \in Surjection(1..Cardinality(cs), cs)
      <3>1. order \in Injection(1..Cardinality(cs), cs)
        BY <1>3 DEF Injection, IsInjective
      <3>2. Cardinality(1..Cardinality(cs)) = Cardinality(cs)
        BY <1>1, FS_Interval
      <3> QED
        BY <1>1, <3>1, <3>2, FS_Injection
    <2>2. PICK i \in 1..Cardinality(cs) : order[i] = c
      BY <2>1 DEF Surjection
    <2> QED
      BY <1>2, <1>3, <1>5, <2>2 DEF HasClose
  <1> QED
    BY <1>5, <1>6

-----------------------------------------------------------------------------
(* Types. *)

LEMMA Initially == Init => TypeOK
  BY ConstantsAssumption DEF Init, TypeOK, PerConn

\* Setting one entry of a table of both sides.
LEMMA SideTable ==
    ASSUME NEW T, NEW table \in [Clients -> [Conns -> T]],
           NEW cl \in Clients, NEW c \in Conns, NEW x \in T
    PROVE  [table EXCEPT ![cl][c] = x] \in [Clients -> [Conns -> T]]
  OBVIOUS

LEMMA BufferTable ==
    ASSUME TypeOK, NEW cl \in Clients, NEW c \in Conns, NEW x \in Seq(Nat)
    PROVE  [buffer EXCEPT ![cl][c] = x] \in [Clients -> [Conns -> Seq(Nat)]]
  BY SideTable DEF TypeOK

LEMMA WriterTable ==
    ASSUME TypeOK, NEW cl \in Clients, NEW c \in Conns, NEW x \in Writers
    PROVE  [writer EXCEPT ![cl][c] = x] \in [Clients -> [Conns -> Writers \cup {None}]]
  BY SideTable DEF TypeOK

LEMMA CloseType ==
    ASSUME TypeOK, NEW c \in Conns, CloseStcpConn(c)
    PROVE  stcpConns' \subseteq Conns /\ toClient' \in Queues
  <1>1. \A w \in Writers : Append(toClient[w], Close(c)) \in Seq(Msg)
    BY SeqType, Messages DEF TypeOK
  <1>2. CASE c \in stcpConns
    <2> DEFINE told(w) == w[1] \in up /\ \E cl \in Clients : writer[cl][c] = w
    <2>1. toClient' = [w \in Writers |->
              IF told(w) THEN Append(toClient[w], Close(c)) ELSE toClient[w]]
      BY <1>2 DEF CloseStcpConn
    <2> HIDE DEF told
    <2>2. toClient' \in Queues
      BY <1>1, <2>1 DEF TypeOK, Queues
    <2> QED
      BY <1>2, <2>2 DEF CloseStcpConn, TypeOK
  <1>3. CASE c \notin stcpConns
    BY <1>3 DEF CloseStcpConn, TypeOK, Queues
  <1> QED
    BY <1>2, <1>3

LEMMA ReadsType ==
    ASSUME TypeOK, NEW w \in Writers, NEW m
    PROVE  /\ FrpsReads(w, m) => toServer' \in Queues /\ m \in Msg
           /\ ClientReads(w, m) => toClient' \in Queues /\ m \in Msg
  <1>1. /\ toServer[w] \in Seq(Msg) /\ toClient[w] \in Seq(Msg)
        /\ toServer \in Queues /\ toClient \in Queues
    BY DEF TypeOK, Queues
  <1>2. ASSUME FrpsReads(w, m) PROVE toServer' \in Queues /\ m \in Msg
    BY <1>1, <1>2, SeqType DEF Queues, FrpsReads
  <1>3. ASSUME ClientReads(w, m) PROVE toClient' \in Queues /\ m \in Msg
    BY <1>1, <1>3, SeqType DEF Queues, ClientReads
  <1> QED
    BY <1>2, <1>3

LEMMA SendType ==
    ASSUME TypeOK, NEW w \in Writers, NEW m \in Msg, Send(w, m)
    PROVE  toServer' \in Queues
  BY SeqType DEF TypeOK, Queues, Send

LEMMA FlushType ==
    ASSUME TypeOK, NEW w \in Writers, NEW c \in Conns, NEW side \in Clients,
           NEW to \in Writers, NEW s \in Seq(Nat),
           flushing' = [flushing EXCEPT ![w] =
              [conn |-> c, side |-> side, to |-> to, rest |-> s]]
    PROVE  flushing' \in [Writers -> Flush \cup {None}]
  BY DEF TypeOK, Flush

LEMMA TypeStep == TypeOK /\ [Next]_vars => TypeOK'
  <1> SUFFICES ASSUME TypeOK, [Next]_vars PROVE TypeOK'
    OBVIOUS
  <1> USE DEF Queues
  <1>0. \A side \in Clients, c \in Conns : buffer[side][c] \in Seq(Nat)
    BY DEF TypeOK
  <1>a. <<>> \in Seq(Nat)
    OBVIOUS
  <1>1. ASSUME NEW c \in Conns, HandleStcpNewVisitor(c) PROVE TypeOK'
    <2>1. toServer' \in Queues
      BY <1>1, ReadsType, WriterType DEF HandleStcpNewVisitor, Clients
    <2>2. /\ Written(Ctrl("provider"), <<NewVisitor(c)>>) \in Queues
          /\ Written(Ctrl("visitor"), <<Close(c)>>) \in Queues
      BY WrittenType, WriterType, Messages, SeqType DEF TypeOK, Clients
    <2>3. toClient' \in Queues /\ stcpConns' \subseteq Conns
      BY <1>1, <2>2 DEF HandleStcpNewVisitor, TypeOK
    <2>4. writer' \in [Clients -> [Conns -> Writers \cup {None}]]
      <3>1. [writer EXCEPT !["visitor"][c] = Ctrl("visitor")]
              \in [Clients -> [Conns -> Writers \cup {None}]]
        BY WriterType, WriterTable DEF Clients
      <3> QED
        BY <1>1, <3>1 DEF HandleStcpNewVisitor, TypeOK
    <2> QED
      BY <1>1, <2>1, <2>3, <2>4 DEF HandleStcpNewVisitor, TypeOK, endVars
  <1>2. ASSUME NEW c \in Conns, HandleStcpVisitorReady(c) PROVE TypeOK'
    <2>1. Ctrl("provider") \in Writers /\ {"visitor", "provider"} \subseteq Clients
      BY WriterType DEF Clients
    <2>2. toServer' \in Queues
      BY <1>2, <2>1, ReadsType DEF HandleStcpVisitorReady
    <2>3. Written(Ctrl("provider"), <<Data(c, buffer["visitor"][c])>>) \in Queues
      <3>1. Data(c, buffer["visitor"][c]) \in Msg
        BY <1>0, <2>1, Messages
      <3>2. <<Data(c, buffer["visitor"][c])>> \in Seq(Msg)
        BY <3>1
      <3> QED
        BY <2>1, <3>2, WrittenType DEF TypeOK
    <2>4. toClient' \in Queues /\ stcpConns' \subseteq Conns
      BY <1>2, <2>3 DEF HandleStcpVisitorReady, TypeOK
    <2>5. writer' \in [Clients -> [Conns -> Writers \cup {None}]]
      BY <1>2, <2>1, WriterTable DEF HandleStcpVisitorReady, TypeOK
    <2>6. buffer' \in [Clients -> [Conns -> Seq(Nat)]]
      <3>1. [buffer EXCEPT !["visitor"][c] = <<>>] \in [Clients -> [Conns -> Seq(Nat)]]
        BY <1>a, <2>1, BufferTable
      <3> QED
        BY <1>2, <3>1 DEF HandleStcpVisitorReady, TypeOK
    <2>8. flushing' \in [Writers -> Flush \cup {None}]
      <3>1. CASE UNCHANGED flushing
        BY <3>1 DEF TypeOK
      <3>2. CASE flushing' = [flushing EXCEPT ![Ctrl("provider")] =
                    [conn |-> c, side |-> "visitor", to |-> Ctrl("provider"), rest |-> <<>>]]
        BY <1>a, <2>1, <3>2, FlushType
      <3> QED
        BY <1>2, <3>1, <3>2 DEF HandleStcpVisitorReady
    <2> QED
      BY <1>2, <2>2, <2>4, <2>5, <2>6, <2>8 DEF HandleStcpVisitorReady, TypeOK, endVars
  <1>3. ASSUME NEW w \in Writers, NEW c \in Conns, NEW s \in Seq(Nat), NEW side \in Clients,
               NEW to, StcpData(w, c, s, side, to)
        PROVE  /\ toServer' \in Queues
               /\ writer' \in [Clients -> [Conns -> Writers \cup {None}]]
               /\ to \in Writers \cup {None}
    <2>1. toServer' \in Queues
      BY <1>3, ReadsType DEF StcpData
    <2>2. writer' \in [Clients -> [Conns -> Writers \cup {None}]]
      BY <1>3, WriterTable DEF StcpData, TypeOK
    <2>3. to \in Writers \cup {None}
      BY <1>3, SideType DEF StcpData, TypeOK
    <2> QED
      BY <2>1, <2>2, <2>3
  <1>4. ASSUME NEW w \in Writers, NEW c \in Conns, NEW s \in Seq(Nat), NEW side \in Clients,
               NEW to \in Writers, RelayData(w, c, s, side, to)
        PROVE  TypeOK'
    <2>1. StcpData(w, c, s, side, to)
      BY <1>4 DEF RelayData
    <2>2. /\ Written(to, <<Data(c, s)>>) \in Queues
          /\ Written(to, <<Data(c, buffer[side][c])>>) \in Queues
          /\ Written(to, <<Data(c, buffer[side][c]), Data(c, s)>>) \in Queues
      BY <1>0, WrittenType, Messages, SeqType DEF TypeOK
    <2>3. toClient' \in Queues
      BY <1>4, <2>2 DEF RelayData
    <2>4. buffer' \in [Clients -> [Conns -> Seq(Nat)]]
      <3>1. [buffer EXCEPT ![side][c] = <<>>] \in [Clients -> [Conns -> Seq(Nat)]]
        BY <1>a, BufferTable
      <3> QED
        BY <1>4, <3>1 DEF RelayData, TypeOK
    <2>5. flushing' \in [Writers -> Flush \cup {None}]
      <3>1. CASE UNCHANGED flushing
        BY <3>1 DEF TypeOK
      <3>2. CASE flushing' = [flushing EXCEPT ![w] =
                    [conn |-> c, side |-> side, to |-> to, rest |-> s]]
        BY <3>2, FlushType
      <3> QED
        BY <1>4, <3>1, <3>2 DEF RelayData
    <2> QED
      BY <1>3, <1>4, <2>1, <2>3, <2>4, <2>5 DEF RelayData, TypeOK, endVars
  <1>5. ASSUME NEW w \in Writers, NEW c \in Conns, NEW s \in Seq(Nat), NEW side \in Clients,
               NEW to \in Writers, RelayFails(w, c, s, side, to)
        PROVE  TypeOK'
    <2>1. StcpData(w, c, s, side, to) /\ CloseStcpConn(c)
      BY <1>5 DEF RelayFails
    <2> QED
      BY <1>3, <1>5, <2>1, CloseType DEF RelayFails, TypeOK, endVars
  <1>6. ASSUME NEW w \in Writers, NEW c \in Conns, NEW s \in Seq(Nat), NEW side \in Clients,
               BufferData(w, c, s, side)
        PROVE  TypeOK'
    <2>1. StcpData(w, c, s, side, None)
      BY <1>6 DEF BufferData
    <2>2. buffer' \in [Clients -> [Conns -> Seq(Nat)]]
      <3>1. buffer[side][c] \o s \in Seq(Nat)
        BY <1>0, SeqType
      <3> QED
        BY <1>6, <3>1, BufferTable DEF BufferData, TypeOK
    <2> QED
      BY <1>3, <1>6, <2>1, <2>2 DEF BufferData, TypeOK, endVars
  <1>7. ASSUME NEW w \in Writers, NEW c \in Conns, NEW s, DropData(w, c, s) PROVE TypeOK'
    BY <1>7, ReadsType DEF DropData, TypeOK, endVars, frpsVars
  <1>8. ASSUME NEW w \in Writers, FlushDone(w) PROVE TypeOK'
    <2> DEFINE f == flushing[w]
    <2>1. f \in Flush
      BY <1>8 DEF FlushDone, TypeOK
    <2>2. f.conn \in Conns /\ f.side \in Clients /\ f.to \in Writers /\ f.rest \in Seq(Nat)
      BY <2>1 DEF Flush
    <2>3. Written(f.to, <<Data(f.conn, f.rest)>>) \in Queues
      <3>1. Data(f.conn, f.rest) \in Msg
        BY <2>2, Messages
      <3>2. <<Data(f.conn, f.rest)>> \in Seq(Msg)
        BY <3>1
      <3> QED
        BY <2>2, <3>2, WrittenType DEF TypeOK
    <2>4. toClient' \in Queues /\ stcpConns' \subseteq Conns
      <3>1. CASE CloseStcpConn(f.conn)
        BY <2>2, <3>1, CloseType
      <3>2. CASE UNCHANGED stcpConns /\ (UNCHANGED toClient
                    \/ toClient' = Written(f.to, <<Data(f.conn, f.rest)>>))
        BY <2>3, <3>2 DEF TypeOK
      <3> QED
        BY <1>8, <3>1, <3>2 DEF FlushDone
    <2>5. buffer' \in [Clients -> [Conns -> Seq(Nat)]]
      <3>1. [buffer EXCEPT ![f.side][f.conn] = <<>>] \in [Clients -> [Conns -> Seq(Nat)]]
        BY <1>a, <2>2, BufferTable
      <3> QED
        BY <1>8, <3>1 DEF FlushDone, TypeOK
    <2> QED
      BY <1>8, <2>4, <2>5 DEF FlushDone, TypeOK, endVars
  <1>9. ASSUME NEW w \in Writers, NEW c \in Conns, HandleClose(w, c) PROVE TypeOK'
    BY <1>9, ReadsType, CloseType DEF HandleClose, TypeOK, endVars
  <1>10. ASSUME NEW c \in Conns, IdleSweep(c) PROVE TypeOK'
    BY <1>10, CloseType DEF IdleSweep, TypeOK, endVars
  <1>11. ASSUME NEW cl \in Clients, ClientBreaks(cl) PROVE TypeOK'
    BY <1>11 DEF ClientBreaks, TypeOK, endVars, frpsVars
  <1>12. ASSUME NEW cl \in Clients, ClientGone(cl) PROVE TypeOK'
    <2>0. \E told \in [Writers -> SUBSET Conns] : \E closes :
              /\ \A w \in Writers : closes[w] \in Closes(told[w])
              /\ toClient' = [w \in Writers |-> toClient[w] \o closes[w]]
      <3> DEFINE closed == IF cl = "provider" /\ ~mode.session THEN stcpConns ELSE {}
                 told(w) == {c \in closed : w[1] \in up /\ \E side \in Clients : writer[side][c] = w}
      <3>1. [w \in Writers |-> told(w)] \in [Writers -> SUBSET Conns]
        BY DEF TypeOK
      <3>2. PICK closes : /\ \A w \in Writers : closes[w] \in Closes(told(w))
                          /\ toClient' = [w \in Writers |-> toClient[w] \o closes[w]]
        BY <1>12 DEF ClientGone
      <3> HIDE DEF told
      <3> QED
        BY <3>1, <3>2
    <2> PICK told \in [Writers -> SUBSET Conns] : \E closes :
              /\ \A w \in Writers : closes[w] \in Closes(told[w])
              /\ toClient' = [w \in Writers |-> toClient[w] \o closes[w]]
      BY <2>0
    <2>1. PICK closes : /\ \A w \in Writers : closes[w] \in Closes(told[w])
                        /\ toClient' = [w \in Writers |-> toClient[w] \o closes[w]]
      OBVIOUS
    <2>2. \A w \in Writers : closes[w] \in Seq(Msg)
      BY <2>1, ClosesType
    <2>3. toClient' \in Queues
      BY <2>1, <2>2, SeqType DEF TypeOK
    <2> QED
      BY <1>12, <2>3 DEF ClientGone, TypeOK, endVars
  <1>13. ASSUME NEW c \in Conns, UserConnect(c) PROVE TypeOK'
    <2>1. toServer' \in Queues
      BY <1>13, SendType, WriterType, Messages DEF UserConnect, Clients
    <2>2. end' \in [Clients -> [Conns -> {"absent", "open", "closed"}]]
      BY <1>13, SideTable DEF UserConnect, TypeOK, Clients
    <2> QED
      BY <1>13, <2>1, <2>2 DEF UserConnect, TypeOK, frpsVars
  <1>14. ASSUME NEW cl \in Clients, NEW c \in Conns, ForwardData(cl, c) PROVE TypeOK'
    <2>1. sent[cl][c] + 1 \in 0..MaxChunks
      BY <1>14, ConstantsAssumption DEF ForwardData, TypeOK
    <2>2. <<sent[cl][c] + 1>> \in Seq(Nat)
      BY <2>1
    <2>3. toServer' \in Queues
      BY <1>14, <2>2, SendType, WriterType, Messages DEF ForwardData
    <2>4. sent' \in [Clients -> [Conns -> 0..MaxChunks]]
      BY <1>14, <2>1 DEF ForwardData, TypeOK
    <2> QED
      BY <1>14, <2>3, <2>4 DEF ForwardData, TypeOK, frpsVars
  <1>15. ASSUME NEW cl \in Clients, NEW c \in Conns, ForwardEnd(cl, c) PROVE TypeOK'
    BY <1>15, SideTable DEF ForwardEnd, TypeOK, frpsVars
  <1>16. ASSUME NEW w \in Writers, NEW c \in Conns, NEW s \in Seq(Nat), ClientHandleData(w, c, s)
         PROVE  TypeOK'
    <2>1. toClient' \in Queues /\ w[1] \in Clients
      BY <1>16, ReadsType, WriterType DEF ClientHandleData
    <2>2. got[w[1]][c] \o s \in Seq(Nat)
      BY <2>1, SeqType DEF TypeOK
    <2>3. got' \in [Clients -> [Conns -> Seq(Nat)]]
      BY <1>16, <2>1, <2>2, SideTable DEF ClientHandleData, TypeOK
    <2> QED
      BY <1>16, <2>1, <2>3 DEF ClientHandleData, TypeOK, frpsVars
  <1>17. ASSUME NEW w \in Writers, NEW c \in Conns, ClientHandleClose(w, c) PROVE TypeOK'
    <2>1. toClient' \in Queues /\ w[1] \in Clients
      BY <1>17, ReadsType, WriterType DEF ClientHandleClose
    <2>2. end' \in [Clients -> [Conns -> {"absent", "open", "closed"}]]
      BY <1>17, <2>1, SideTable DEF ClientHandleClose, TypeOK
    <2> QED
      BY <1>17, <2>1, <2>2 DEF ClientHandleClose, TypeOK, frpsVars
  <1>18. ASSUME NEW c \in Conns, ProviderDials(c) PROVE TypeOK'
    BY <1>18, ReadsType, WriterType DEF ProviderDials, TypeOK, frpsVars, Clients
  <1>19. ASSUME NEW c \in Conns, DialSucceeds(c) PROVE TypeOK'
    <2>1. toServer' \in Queues
      BY <1>19, SendType, WriterType, Messages DEF DialSucceeds, Clients
    <2>2. end' \in [Clients -> [Conns -> {"absent", "open", "closed"}]]
      BY <1>19, SideTable DEF DialSucceeds, TypeOK, Clients
    <2> QED
      BY <1>19, <2>1, <2>2 DEF DialSucceeds, TypeOK, frpsVars
  <1>20. ASSUME NEW c \in Conns, DialFails(c) PROVE TypeOK'
    <2>1. toServer' \in Queues
      BY <1>20, SendType, WriterType, Messages DEF DialFails, Clients
    <2> QED
      BY <1>20, <2>1 DEF DialFails, TypeOK, frpsVars
  <1>21. CASE UNCHANGED vars
    BY <1>21 DEF TypeOK, vars, frpsVars, endVars
  <1>22. ASSUME NEW w \in Links, FrpsTask(w) PROVE TypeOK'
    BY <1>1, <1>2, <1>4, <1>5, <1>6, <1>7, <1>8, <1>9, <1>22, WriterType, PayloadType DEF FrpsTask, HandleData
  <1>23. ASSUME NEW w \in Links, ClientTask(w) PROVE TypeOK'
    BY <1>16, <1>17, <1>18, <1>19, <1>20, <1>23, WriterType, PayloadType DEF ClientTask
  <1> QED
    BY <1>10, <1>11, <1>12, <1>13, <1>14, <1>15, <1>21, <1>22, <1>23 DEF Next

\* The type invariant of the relay (stcp_conns, its writers and its buffers), for
\* any set of connections, any data channels and any mode.
THEOREM TypeCorrect == Spec => []TypeOK
  BY Initially, TypeStep, PTL DEF Spec

-----------------------------------------------------------------------------
(* Queues: what they hold comes from what was written.                       *)

LEMMA SaysAppend ==
    ASSUME NEW q \in Seq(Msg), NEW m \in Msg, NEW t, NEW c, Says(Append(q, m), t, c)
    PROVE  Says(q, t, c) \/ (m.type = t /\ m.conn = c)
  BY DEF Says

LEMMA SaysRead ==
    ASSUME NEW q \in Seq(Msg), q # <<>>
    PROVE  /\ \A t, c : Says(Tail(q), t, c) => Says(q, t, c)
           /\ Says(q, Head(q).type, Head(q).conn)
  BY DEF Says

LEMMA CloseAppended ==
    ASSUME NEW q \in Seq(Msg), NEW r \in Seq(Msg), NEW c, HasClose(q, c) \/ HasClose(r, c)
    PROVE  HasClose(q \o r, c)
  <1>1. CASE HasClose(q, c)
    BY <1>1 DEF HasClose
  <1>2. CASE HasClose(r, c)
    <2>1. PICK i \in 1..Len(r) : r[i] = Close(c)
      BY <1>2 DEF HasClose
    <2>2. Len(q) + i \in 1..Len(q \o r) /\ (q \o r)[Len(q) + i] = Close(c)
      BY <2>1
    <2> QED
      BY <2>2 DEF HasClose
  <1> QED
    BY <1>1, <1>2

LEMMA CloseRead ==
    ASSUME NEW q \in Seq(Msg), q # <<>>, NEW c, HasClose(q, c), Head(q) # Close(c)
    PROVE  HasClose(Tail(q), c)
  <1>1. PICK i \in 1..Len(q) : q[i] = Close(c)
    BY DEF HasClose
  <1>2. i # 1
    BY <1>1
  <1>3. i - 1 \in 1..Len(Tail(q)) /\ Tail(q)[i - 1] = Close(c)
    BY <1>1, <1>2
  <1> QED
    BY <1>3 DEF HasClose

\* A read of frps, and a write of a client.
LEMMA FrpsReadsSays ==
    ASSUME TypeOK, NEW v \in Writers, NEW m, FrpsReads(v, m)
    PROVE  /\ Says(toServer[v], m.type, m.conn)
           /\ \A w \in Writers : \A t, c : Says(toServer'[w], t, c) => Says(toServer[w], t, c)
  <1>1. /\ toServer \in Queues /\ toServer[v] \in Seq(Msg) /\ toServer[v] # <<>>
        /\ m = Head(toServer[v]) /\ toServer' = [toServer EXCEPT ![v] = Tail(@)]
    BY DEF FrpsReads, TypeOK, Queues
  <1>2. \A w \in Writers : toServer'[w] = IF w = v THEN Tail(toServer[v]) ELSE toServer[w]
    BY <1>1 DEF Queues
  <1> QED
    BY <1>1, <1>2, SaysRead

LEMMA SendSays ==
    ASSUME TypeOK, NEW v \in Writers, NEW m \in Msg, Send(v, m)
    PROVE  \A w \in Writers : \A t, c :
              Says(toServer'[w], t, c) =>
                 Says(toServer[w], t, c) \/ (w = v /\ m.type = t /\ m.conn = c)
  <1>1. /\ toServer \in Queues /\ toServer[v] \in Seq(Msg)
        /\ toServer' = [toServer EXCEPT ![v] = Append(@, m)]
    BY DEF Send, TypeOK, Queues
  <1>2. \A w \in Writers : toServer'[w] = IF w = v THEN Append(toServer[v], m) ELSE toServer[w]
    BY <1>1 DEF Queues
  <1> QED
    BY <1>1, <1>2, SaysAppend

\* Closing a connection tells each of its sides that is up.
LEMMA CloseTells ==
    ASSUME TypeOK, NEW c \in Conns, CloseStcpConn(c), NEW w \in Writers, w[1] \in up
    PROVE  /\ \A d : HasClose(toClient[w], d) => HasClose(toClient'[w], d)
           /\ c \in stcpConns /\ (\E cl \in Clients : writer[cl][c] = w)
                => HasClose(toClient'[w], c)
           /\ stcpConns' = stcpConns \ {c}
  <1>1. toClient[w] \in Seq(Msg) /\ <<Close(c)>> \in Seq(Msg)
    BY Messages DEF TypeOK
  <1>2. Append(toClient[w], Close(c)) = toClient[w] \o <<Close(c)>> /\ HasClose(<<Close(c)>>, c)
    BY <1>1 DEF HasClose
  <1>3. toClient'[w] = IF c \in stcpConns /\ \E cl \in Clients : writer[cl][c] = w
                       THEN Append(toClient[w], Close(c)) ELSE toClient[w]
    <2>1. CASE c \in stcpConns
      BY <2>1 DEF CloseStcpConn
    <2>2. CASE c \notin stcpConns
      BY <2>2 DEF CloseStcpConn
    <2> QED
      BY <2>1, <2>2
  <1>4. \A d : HasClose(toClient[w], d) \/ HasClose(<<Close(c)>>, d)
                 => HasClose(toClient[w] \o <<Close(c)>>, d)
    BY <1>1, CloseAppended
  <1>5. stcpConns' = stcpConns \ {c}
    BY DEF CloseStcpConn
  <1> QED
    BY <1>2, <1>3, <1>4, <1>5

\* A write keeps what the queues hold.
LEMMA WrittenKeeps ==
    ASSUME TypeOK, NEW v \in Writers, NEW msgs \in Seq(Msg), NEW w \in Writers
    PROVE  /\ \A d : HasClose(toClient[w], d) => HasClose(Written(v, msgs)[w], d)
           /\ w = v /\ w[1] \in up => \A d : HasClose(msgs, d) => HasClose(Written(v, msgs)[w], d)
  <1>1. toClient \in Queues /\ toClient[w] \in Seq(Msg)
    BY DEF TypeOK, Queues
  <1>2. Written(v, msgs)[w] = toClient[w] \/ Written(v, msgs)[w] = toClient[w] \o msgs
    BY <1>1, WrittenType DEF Written
  <1>3. w = v /\ w[1] \in up => Written(v, msgs)[w] = toClient[w] \o msgs
    BY <1>1, WrittenType
  <1> QED
    BY <1>1, <1>2, <1>3, CloseAppended

-----------------------------------------------------------------------------
(* The two sides of a connection, while the visitor has no data channel.      *)

VisitorEnd(c)  == end["visitor"][c]
ProviderEnd(c) == end["provider"][c]

LinkInv ==
    /\ \A c \in Conns : writer["visitor"][c] \in {None, ToVisitor}
    /\ \A c \in stcpConns : writer["visitor"][c] # None
    /\ \A c \in Conns :
          writer["visitor"][c] # None \/ Says(toServer[ToVisitor], "newVisitor", c) =>
              VisitorEnd(c) # "absent"
    /\ \A w \in Writers, c \in Conns : \A t \in {"ready", "data"} :
          w[1] = "provider" /\ Says(toServer[w], t, c) => ProviderEnd(c) # "absent"
    /\ ProviderIsDialled

LEMMA LinkInit == Init => LinkInv /\ VisitorIsTold
  BY WriterType DEF Init, LinkInv, VisitorIsTold, ProviderIsDialled, PerConn, Says, ToVisitor, Clients

\* What a step may do to the links.
EndsGrow ==
    /\ \A c \in Conns : VisitorEnd(c) # "absent" => VisitorEnd(c)' # "absent"
    /\ \A c \in Conns : ProviderEnd(c) # "absent" => ProviderEnd(c)' # "absent"

LinksGrow ==
    \A c \in Conns :
        /\ \/ writer'["visitor"][c] = writer["visitor"][c]
           \/ writer'["visitor"][c] = ToVisitor /\ VisitorEnd(c) # "absent"
        /\ \/ writer'["provider"][c] = writer["provider"][c]
           \/ writer'["provider"][c][1] = "provider" /\ ProviderEnd(c) # "absent"

TablesGrow == \A c \in stcpConns' : c \in stcpConns \/ writer'["visitor"][c] # None

SentAfterDial ==
    /\ \A c \in Conns :
          Says(toServer'[ToVisitor], "newVisitor", c) =>
              Says(toServer[ToVisitor], "newVisitor", c) \/ VisitorEnd(c)' # "absent"
    /\ \A w \in Writers, c \in Conns : \A t \in {"ready", "data"} :
          w[1] = "provider" /\ Says(toServer'[w], t, c) =>
              Says(toServer[w], t, c) \/ ProviderEnd(c)' # "absent"

LEMMA LinkKept ==
    ASSUME TypeOK, LinkInv, EndsGrow, LinksGrow, TablesGrow, SentAfterDial
    PROVE  LinkInv'
  <1>1. ToVisitor # None
    BY WriterType DEF ToVisitor, Clients
  <1>2. stcpConns \subseteq Conns
    BY DEF TypeOK
  <1>3. \A c \in Conns : writer'["visitor"][c] \in {None, ToVisitor}
    BY DEF LinkInv, LinksGrow
  <1>4. \A c \in stcpConns' : writer'["visitor"][c] # None
    BY <1>1, <1>2 DEF LinkInv, LinksGrow, TablesGrow
  <1>5. ASSUME NEW c \in Conns,
               writer'["visitor"][c] # None \/ Says(toServer'[ToVisitor], "newVisitor", c)
        PROVE  VisitorEnd(c)' # "absent"
    BY <1>5 DEF LinkInv, LinksGrow, EndsGrow, SentAfterDial
  <1>6. ASSUME NEW w \in Writers, NEW c \in Conns, NEW t \in {"ready", "data"},
               w[1] = "provider", Says(toServer'[w], t, c)
        PROVE  ProviderEnd(c)' # "absent"
    BY <1>6 DEF LinkInv, EndsGrow, SentAfterDial
  <1>7. ProviderIsDialled'
    BY DEF LinkInv, LinksGrow, EndsGrow, ProviderIsDialled, ProviderEnd
  <1> QED
    BY <1>3, <1>4, <1>5, <1>6, <1>7 DEF LinkInv

\* What a step may do to the connections frps drops, as long as the visitor is up.
StaysTold ==
    "visitor" \in up' =>
        /\ "visitor" \in up
        /\ \A c \in Conns : writer'["visitor"][c] # None =>
              \/ writer["visitor"][c] # None \/ c \in stcpConns'
              \/ HasClose(toClient'[ToVisitor], c)
        /\ \A c \in Conns : c \in stcpConns \ stcpConns' => HasClose(toClient'[ToVisitor], c)
        /\ \A c \in Conns : VisitorEnd(c) = "closed" => VisitorEnd(c)' = "closed"
        /\ \A c \in Conns : writer["visitor"][c] # None /\ HasClose(toClient[ToVisitor], c) =>
              HasClose(toClient'[ToVisitor], c) \/ VisitorEnd(c)' = "closed"

LEMMA ToldIs ==
    VisitorIsTold <=>
        \A c \in Conns : writer["visitor"][c] # None /\ c \notin stcpConns /\ "visitor" \in up =>
            VisitorEnd(c) = "closed" \/ HasClose(toClient[ToVisitor], c)
  BY DEF VisitorIsTold, VisitorEnd, HasClose, ToVisitor

LEMMA ToldKept ==
    ASSUME TypeOK, VisitorIsTold, StaysTold
    PROVE  VisitorIsTold'
  <1>1. ASSUME NEW c \in Conns,
               writer'["visitor"][c] # None, c \notin stcpConns', "visitor" \in up'
        PROVE  VisitorEnd(c)' = "closed" \/ HasClose(toClient'[ToVisitor], c)
    BY <1>1, ToldIs DEF StaysTold
  <1> QED
    BY <1>1 DEF VisitorIsTold, VisitorEnd, HasClose, ToVisitor

\* Writes of frps that keep the table, and closing one connection.
LEMMA FrpsWrites ==
    ASSUME TypeOK, UNCHANGED <<up, end, stcpConns>>,
           \A c \in Conns : writer'["visitor"][c] = writer["visitor"][c],
           \A c : HasClose(toClient[ToVisitor], c) => HasClose(toClient'[ToVisitor], c)
    PROVE  StaysTold
  BY DEF StaysTold, VisitorEnd

LEMMA FrpsCloses ==
    ASSUME TypeOK, LinkInv, NEW c \in Conns, CloseStcpConn(c), UNCHANGED <<up, end>>,
           \A d \in Conns : writer'["visitor"][d] = writer["visitor"][d]
    PROVE  StaysTold /\ TablesGrow
  <1>1. stcpConns' = stcpConns \ {c}
    BY DEF CloseStcpConn
  <1>2. ASSUME "visitor" \in up
        PROVE  /\ \A d : HasClose(toClient[ToVisitor], d) => HasClose(toClient'[ToVisitor], d)
               /\ c \in stcpConns => HasClose(toClient'[ToVisitor], c)
    <2>1. ToVisitor \in Writers /\ ToVisitor[1] = "visitor"
      BY WriterType DEF ToVisitor, Clients
    <2>2. c \in stcpConns => \E cl \in Clients : writer[cl][c] = ToVisitor
      BY DEF LinkInv, Clients
    <2> QED
      BY <1>2, <2>1, <2>2, CloseTells
  <1> QED
    BY <1>1, <1>2 DEF StaysTold, TablesGrow, VisitorEnd

LEMMA RelayStep ==
    ASSUME "visitor" \notin mode.data, TypeOK, LinkInv, VisitorIsTold, [Next]_vars
    PROVE  LinkInv' /\ VisitorIsTold'
  <1> DEFINE Good == EndsGrow /\ LinksGrow /\ TablesGrow /\ SentAfterDial /\ StaysTold
  <1>a. /\ ToVisitor \in Writers /\ Ctrl("provider") \in Writers
        /\ ToVisitor[1] = "visitor" /\ Ctrl("provider")[1] = "provider"
        /\ ToVisitor = Ctrl("visitor") /\ DataWriter("visitor") = ToVisitor
        /\ DataWriter("provider")[1] = "provider" /\ DataWriter("provider") \in Writers
        /\ ToVisitor # None
    BY WriterType DEF ToVisitor, Clients, DataWriter, TypeOK
  <1>b. \A w \in Links : w \in Writers /\ (w = ToVisitor \/ w[1] = "provider")
    BY <1>a, WriterType DEF Links, Clients
  <1>c. /\ UNCHANGED end => EndsGrow
        /\ UNCHANGED writer => LinksGrow
        /\ stcpConns' \subseteq stcpConns => TablesGrow
        /\ UNCHANGED toServer => SentAfterDial
    BY DEF EndsGrow, LinksGrow, TablesGrow, SentAfterDial, VisitorEnd, ProviderEnd
  <1>d. ASSUME NEW w \in Writers, NEW m, FrpsReads(w, m) PROVE SentAfterDial
    BY <1>a, <1>d, FrpsReadsSays DEF SentAfterDial
  <1>e. \A d : HasClose(toClient[ToVisitor], d) => HasClose(toClient[ToVisitor], d)
    OBVIOUS
  <1>1. ASSUME NEW c \in Conns, HandleStcpNewVisitor(c) PROVE Good
    <2>1. SentAfterDial /\ Says(toServer[ToVisitor], "newVisitor", c)
      BY <1>1, <1>a, <1>d, FrpsReadsSays DEF HandleStcpNewVisitor, NewVisitor
    <2>2. VisitorEnd(c) # "absent"
      BY <2>1 DEF LinkInv
    <2>3. EndsGrow
      BY <1>1, <1>c DEF HandleStcpNewVisitor, endVars
    <2>4. writer' = [writer EXCEPT !["visitor"][c] = ToVisitor] \/ UNCHANGED writer
      BY <1>1, <1>a DEF HandleStcpNewVisitor
    <2>5. /\ \A d \in Conns : writer'["provider"][d] = writer["provider"][d]
          /\ \A d \in Conns \ {c} : writer'["visitor"][d] = writer["visitor"][d]
          /\ \/ writer'["visitor"][c] = ToVisitor
             \/ writer'["visitor"][c] = writer["visitor"][c]
      BY <2>4 DEF TypeOK, Clients
    <2>6. LinksGrow
      BY <2>2, <2>5 DEF LinksGrow
    <2>7. registered => writer'["visitor"][c] = ToVisitor
      BY <1>1, <1>a DEF HandleStcpNewVisitor, TypeOK, Clients
    <2>8. TablesGrow
      BY <1>1, <1>a, <2>7 DEF HandleStcpNewVisitor, TablesGrow
    <2>9. /\ <<NewVisitor(c)>> \in Seq(Msg) /\ <<Close(c)>> \in Seq(Msg)
          /\ HasClose(<<Close(c)>>, c)
      BY Messages DEF HasClose
    <2>10. ASSUME "visitor" \in up
           PROVE  /\ \A d : HasClose(toClient[ToVisitor], d) => HasClose(toClient'[ToVisitor], d)
                  /\ \/ registered' /\ c \in stcpConns'
                     \/ writer'["visitor"][c] = writer["visitor"][c]
                     \/ HasClose(toClient'[ToVisitor], c)
      <3>1. CASE ~registered
        BY <1>1, <3>1 DEF HandleStcpNewVisitor
      <3>2. CASE registered /\ stcpConns' = stcpConns \cup {c}
                 /\ toClient' = Written(Ctrl("provider"), <<NewVisitor(c)>>)
        BY <1>1, <1>a, <2>9, <3>2, WrittenKeeps DEF HandleStcpNewVisitor
      <3>3. CASE toClient' = Written(ToVisitor, <<Close(c)>>)
        BY <1>a, <2>9, <2>10, <3>3, WrittenKeeps
      <3> QED
        BY <1>1, <1>a, <3>1, <3>2, <3>3 DEF HandleStcpNewVisitor
    <2>11. stcpConns \subseteq stcpConns' /\ UNCHANGED <<up, end>>
      BY <1>1 DEF HandleStcpNewVisitor, endVars
    <2>12. StaysTold
      BY <2>5, <2>10, <2>11 DEF StaysTold, VisitorEnd
    <2> QED
      BY <2>1, <2>3, <2>6, <2>8, <2>12
  <1>2. ASSUME NEW c \in Conns, HandleStcpVisitorReady(c) PROVE Good
    <2>1. SentAfterDial /\ Says(toServer[Ctrl("provider")], "ready", c)
      BY <1>2, <1>a, <1>d, FrpsReadsSays DEF HandleStcpVisitorReady, Ready
    <2>2. ProviderEnd(c) # "absent"
      BY <1>a, <2>1 DEF LinkInv
    <2>3. EndsGrow /\ TablesGrow /\ UNCHANGED <<up, end, stcpConns>>
      BY <1>2, <1>c DEF HandleStcpVisitorReady, endVars
    <2>4. writer' = [writer EXCEPT !["provider"][c] = Ctrl("provider")] \/ UNCHANGED writer
      BY <1>2 DEF HandleStcpVisitorReady
    <2>5. /\ \A d \in Conns : writer'["visitor"][d] = writer["visitor"][d]
          /\ \A d \in Conns \ {c} : writer'["provider"][d] = writer["provider"][d]
          /\ \/ writer'["provider"][c] = Ctrl("provider")
             \/ writer'["provider"][c] = writer["provider"][c]
      BY <2>4 DEF TypeOK, Clients
    <2>6. LinksGrow
      BY <1>a, <2>2, <2>5 DEF LinksGrow
    <2>7. <<Data(c, buffer["visitor"][c])>> \in Seq(Msg)
      <3>1. buffer["visitor"][c] \in Seq(Nat)
        BY DEF TypeOK, Clients
      <3>2. Data(c, buffer["visitor"][c]) \in Msg
        BY <3>1, Messages
      <3> QED
        BY <3>2
    <2>8. UNCHANGED toClient
            \/ toClient' = Written(Ctrl("provider"), <<Data(c, buffer["visitor"][c])>>)
      BY <1>2 DEF HandleStcpVisitorReady
    <2>9. \A d : HasClose(toClient[ToVisitor], d) => HasClose(toClient'[ToVisitor], d)
      BY <1>a, <2>7, <2>8, WrittenKeeps
    <2> QED
      BY <2>1, <2>3, <2>5, <2>6, <2>9, FrpsWrites
  <1>3. ASSUME NEW w \in Links, NEW c \in Conns, NEW s \in Seq(Nat), NEW side \in Clients,
               NEW to, StcpData(w, c, s, side, to)
        PROVE  /\ SentAfterDial /\ LinksGrow
               /\ \A d \in Conns : writer'["visitor"][d] = writer["visitor"][d]
    <2>1. w \in Writers /\ (w = ToVisitor \/ w[1] = "provider")
      BY <1>b
    <2>2. SentAfterDial /\ Says(toServer[w], "data", c)
      BY <1>3, <1>d, <2>1, FrpsReadsSays DEF StcpData, Data
    <2>3. w[1] = "provider" => ProviderEnd(c) # "absent"
      BY <2>1, <2>2 DEF LinkInv
    <2>4. side = "provider" => w[1] = "provider"
      <3>1. writer["visitor"][c] = ToVisitor
        BY <1>3 DEF StcpData, LinkInv
      <3>2. writer["provider"][c] # ToVisitor
        BY <1>a DEF LinkInv, ProviderIsDialled
      <3> QED
        BY <1>3, <2>1, <3>1, <3>2 DEF StcpData, Side
    <2>5. \/ UNCHANGED writer
          \/ side = "provider" /\ writer' = [writer EXCEPT !["provider"][c] = w]
      BY <1>3 DEF StcpData
    <2>6. /\ \A d \in Conns : writer'["visitor"][d] = writer["visitor"][d]
          /\ \A d \in Conns \ {c} : writer'["provider"][d] = writer["provider"][d]
          /\ \/ writer'["provider"][c] = writer["provider"][c]
             \/ side = "provider" /\ writer'["provider"][c] = w
      BY <2>5 DEF TypeOK, Clients
    <2>7. LinksGrow
      BY <2>3, <2>4, <2>6 DEF LinksGrow
    <2> QED
      BY <2>2, <2>6, <2>7
  <1>4. ASSUME NEW w \in Links, NEW c \in Conns, NEW s \in Seq(Nat), NEW side \in Clients,
               NEW to \in Writers, RelayData(w, c, s, side, to)
        PROVE  Good
    <2>1. StcpData(w, c, s, side, to) /\ UNCHANGED <<up, end, stcpConns>>
      BY <1>4 DEF RelayData, endVars
    <2>2. buffer[side][c] \in Seq(Nat)
      BY DEF TypeOK
    <2>3. Data(c, s) \in Msg /\ Data(c, buffer[side][c]) \in Msg
      BY <2>2, Messages
    <2>4. \E msgs \in Seq(Msg) : toClient' = Written(to, msgs)
      <3>1. /\ <<Data(c, s)>> \in Seq(Msg) /\ <<Data(c, buffer[side][c])>> \in Seq(Msg)
            /\ <<Data(c, buffer[side][c]), Data(c, s)>> \in Seq(Msg)
        BY <2>3
      <3> QED
        BY <1>4, <3>1 DEF RelayData
    <2>5. \A d : HasClose(toClient[ToVisitor], d) => HasClose(toClient'[ToVisitor], d)
      BY <1>a, <2>4, WrittenKeeps
    <2> QED
      BY <1>3, <1>c, <2>1, <2>5, FrpsWrites
  <1>5. ASSUME NEW w \in Links, NEW c \in Conns, NEW s \in Seq(Nat), NEW side \in Clients,
               NEW to \in Writers, RelayFails(w, c, s, side, to)
        PROVE  Good
    <2>1. StcpData(w, c, s, side, to) /\ CloseStcpConn(c) /\ UNCHANGED <<up, end>>
      BY <1>5 DEF RelayFails, endVars
    <2> QED
      BY <1>3, <1>c, <2>1, FrpsCloses
  <1>6. ASSUME NEW w \in Links, NEW c \in Conns, NEW s \in Seq(Nat), NEW side \in Clients,
               BufferData(w, c, s, side)
        PROVE  Good
    <2>1. StcpData(w, c, s, side, None) /\ UNCHANGED <<up, end, stcpConns, toClient>>
      BY <1>6 DEF BufferData, endVars
    <2> QED
      BY <1>3, <1>c, <2>1, FrpsWrites
  <1>7. ASSUME NEW w \in Links, NEW c \in Conns, NEW s, DropData(w, c, s) PROVE Good
    <2>1. UNCHANGED <<up, end, stcpConns, toClient, writer>> /\ FrpsReads(w, Data(c, s))
      BY <1>7 DEF DropData, endVars, frpsVars
    <2> QED
      BY <1>b, <1>c, <1>d, <2>1, FrpsWrites
  <1>8. ASSUME NEW w \in Links, FlushDone(w) PROVE Good
    <2> DEFINE f == flushing[w]
    <2>1. f \in Flush
      BY <1>8, <1>b DEF FlushDone, TypeOK
    <2>2. f.conn \in Conns /\ f.to \in Writers /\ f.rest \in Seq(Nat)
      BY <2>1 DEF Flush
    <2>3. UNCHANGED <<up, end, writer, toServer>>
      BY <1>8 DEF FlushDone, endVars
    <2>4. Data(f.conn, f.rest) \in Msg
      BY <2>2, Messages
    <2>5. <<Data(f.conn, f.rest)>> \in Seq(Msg)
      BY <2>4
    <2>6. CASE CloseStcpConn(f.conn)
      BY <1>c, <2>2, <2>3, <2>6, FrpsCloses
    <2>7. CASE UNCHANGED stcpConns
               /\ (UNCHANGED toClient \/ toClient' = Written(f.to, <<Data(f.conn, f.rest)>>))
      <3>1. \A d : HasClose(toClient[ToVisitor], d) => HasClose(toClient'[ToVisitor], d)
        BY <1>a, <2>2, <2>5, <2>7, WrittenKeeps
      <3> QED
        BY <1>c, <2>3, <2>7, <3>1, FrpsWrites
    <2> QED
      BY <1>8, <2>6, <2>7 DEF FlushDone
  <1>9. ASSUME NEW w \in Links, NEW c \in Conns, HandleClose(w, c) PROVE Good
    <2>1. FrpsReads(w, Close(c)) /\ CloseStcpConn(c) /\ UNCHANGED <<up, end, writer>>
      BY <1>9 DEF HandleClose, endVars
    <2> QED
      BY <1>b, <1>c, <1>d, <2>1, FrpsCloses
  <1>10. ASSUME NEW c \in Conns, IdleSweep(c) PROVE Good
    <2>1. CloseStcpConn(c) /\ UNCHANGED <<up, end, writer, toServer>>
      BY <1>10 DEF IdleSweep, endVars
    <2> QED
      BY <1>c, <2>1, FrpsCloses
  <1>11. ASSUME NEW cl \in Clients, ClientBreaks(cl) PROVE Good
    <2>1. UNCHANGED <<stcpConns, writer, toServer, end>> /\ up' = up \ {cl}
      BY <1>11 DEF ClientBreaks, endVars, frpsVars
    <2>2. "visitor" \in up' => toClient'[ToVisitor] = toClient[ToVisitor]
      BY <1>11, <1>a, <2>1 DEF ClientBreaks
    <2> QED
      BY <1>c, <2>1, <2>2 DEF StaysTold, VisitorEnd
  <1>12. ASSUME NEW cl \in Clients, ClientGone(cl) PROVE Good
    <2> DEFINE closed == IF cl = "provider" /\ ~mode.session THEN stcpConns ELSE {}
               told(w) == {c \in closed : w[1] \in up /\ \E side \in Clients : writer[side][c] = w}
    <2>1. PICK closes : /\ \A w \in Writers : closes[w] \in Closes(told(w))
                        /\ toClient' = [w \in Writers |-> toClient[w] \o closes[w]]
      BY <1>12 DEF ClientGone
    <2>2. stcpConns' = stcpConns \ closed /\ UNCHANGED <<up, end, writer>> /\ closed \subseteq Conns
      BY <1>12 DEF ClientGone, endVars, TypeOK
    <2>3. \A w \in Writers : told(w) \subseteq Conns
      BY <2>2
    <2>4. /\ closes[ToVisitor] \in Seq(Msg)
          /\ \A c \in told(ToVisitor) : HasClose(closes[ToVisitor], c)
      <3> HIDE DEF told
      <3> QED
        BY <1>a, <2>1, <2>3, ClosesType
    <2>5. \A c : HasClose(toClient[ToVisitor], c) \/ HasClose(closes[ToVisitor], c)
                   => HasClose(toClient'[ToVisitor], c)
      <3>1. toClient'[ToVisitor] = toClient[ToVisitor] \o closes[ToVisitor]
            /\ toClient[ToVisitor] \in Seq(Msg)
        BY <1>a, <2>1 DEF TypeOK
      <3> QED
        BY <2>4, <3>1, CloseAppended
    <2>6. "visitor" \in up => closed \subseteq told(ToVisitor)
      BY <1>a, <2>2 DEF LinkInv, TypeOK, Clients
    <2>7. StaysTold
      BY <2>2, <2>4, <2>5, <2>6 DEF StaysTold, VisitorEnd
    <2>8. \A w \in Writers : toServer'[w] = toServer[w] \/ toServer'[w] = <<>>
      BY <1>12 DEF ClientGone
    <2>9. SentAfterDial
      BY <1>a, <2>8 DEF SentAfterDial, Says
    <2> QED
      BY <1>c, <2>2, <2>7, <2>9
  <1>13. ASSUME UNCHANGED <<up, stcpConns, writer, toClient>>, EndsGrow,
                \A c \in Conns : VisitorEnd(c) = "closed" => VisitorEnd(c)' = "closed",
                SentAfterDial
         PROVE  Good
    BY <1>13, <1>c DEF StaysTold
  <1>14. ASSUME NEW c \in Conns, UserConnect(c) PROVE Good
    <2>1. /\ VisitorEnd(c) = "absent" /\ VisitorEnd(c)' = "open"
          /\ \A d \in Conns : d # c => VisitorEnd(d)' = VisitorEnd(d)
          /\ \A d \in Conns : ProviderEnd(d)' = ProviderEnd(d)
      BY <1>14 DEF UserConnect, TypeOK, VisitorEnd, ProviderEnd, Clients
    <2>2. EndsGrow /\ \A d \in Conns : VisitorEnd(d) = "closed" => VisitorEnd(d)' = "closed"
      BY <2>1 DEF EndsGrow
    <2>3. \A w \in Writers : \A t, d : Says(toServer'[w], t, d) =>
              Says(toServer[w], t, d) \/ (w = ToVisitor /\ t = "newVisitor" /\ d = c)
      BY <1>14, <1>a, SendSays, Messages DEF UserConnect, NewVisitor
    <2>4. SentAfterDial
      BY <1>a, <2>1, <2>3 DEF SentAfterDial
    <2> QED
      BY <1>13, <1>14, <2>2, <2>4 DEF UserConnect, frpsVars
  <1>15. ASSUME NEW cl \in Clients, NEW c \in Conns, ForwardData(cl, c) PROVE Good
    <2>1. Data(c, <<sent[cl][c] + 1>>) \in Msg
      <3>1. <<sent[cl][c] + 1>> \in Seq(Nat)
        BY DEF TypeOK
      <3> QED
        BY <3>1, Messages
    <2>2. DataWriter(cl) \in Writers /\ Send(DataWriter(cl), Data(c, <<sent[cl][c] + 1>>))
      BY <1>15, WriterType DEF ForwardData
    <2>3. \A w \in Writers : \A t, d : Says(toServer'[w], t, d) =>
              Says(toServer[w], t, d) \/ (w = DataWriter(cl) /\ t = "data" /\ d = c)
      BY <2>1, <2>2, SendSays DEF Data
    <2>4. UNCHANGED end /\ end[cl][c] = "open"
      BY <1>15 DEF ForwardData
    <2>5. cl = "provider" => ProviderEnd(c)' # "absent"
      BY <2>4 DEF ProviderEnd
    <2>6. cl = "visitor" => DataWriter(cl)[1] = "visitor"
      BY <1>a
    <2>7. SentAfterDial
      <3>1. ASSUME NEW d \in Conns, Says(toServer'[ToVisitor], "newVisitor", d)
            PROVE  Says(toServer[ToVisitor], "newVisitor", d)
        BY <1>a, <2>3, <3>1
      <3>2. ASSUME NEW w \in Writers, NEW d \in Conns, NEW t \in {"ready", "data"},
                   w[1] = "provider", Says(toServer'[w], t, d)
            PROVE  Says(toServer[w], t, d) \/ ProviderEnd(d)' # "absent"
        <4>1. CASE cl = "provider"
          BY <2>3, <2>5, <3>2, <4>1
        <4>2. CASE cl = "visitor"
          BY <2>3, <2>6, <3>2, <4>2
        <4> QED
          BY <4>1, <4>2 DEF Clients
      <3> QED
        BY <3>1, <3>2 DEF SentAfterDial
    <2> QED
      BY <1>13, <1>15, <1>c, <2>4, <2>7 DEF ForwardData, frpsVars, VisitorEnd
  <1>16. ASSUME NEW cl \in Clients, NEW c \in Conns, ForwardEnd(cl, c) PROVE Good
    <2>1. /\ \A d \in Conns : VisitorEnd(d)' = VisitorEnd(d)
                \/ (VisitorEnd(d) = "open" /\ VisitorEnd(d)' = "closed")
          /\ \A d \in Conns : ProviderEnd(d)' = ProviderEnd(d)
                \/ (ProviderEnd(d) = "open" /\ ProviderEnd(d)' = "closed")
      BY <1>16 DEF ForwardEnd, TypeOK, VisitorEnd, ProviderEnd, Clients
    <2>2. EndsGrow /\ \A d \in Conns : VisitorEnd(d) = "closed" => VisitorEnd(d)' = "closed"
      BY <2>1 DEF EndsGrow
    <2> QED
      BY <1>13, <1>16, <1>c, <2>2 DEF ForwardEnd, frpsVars
  <1>17. ASSUME UNCHANGED <<up, stcpConns, writer, toServer>>, EndsGrow,
                \A d \in Conns : VisitorEnd(d) = "closed" => VisitorEnd(d)' = "closed",
                NEW w \in Writers, NEW m, ClientReads(w, m),
                \A d \in Conns : w = ToVisitor /\ m = Close(d) /\ VisitorEnd(d) # "absent"
                                    => VisitorEnd(d)' = "closed"
         PROVE  Good
    <2>1. \A d \in Conns : writer["visitor"][d] # None /\ HasClose(toClient[ToVisitor], d) =>
              HasClose(toClient'[ToVisitor], d) \/ VisitorEnd(d)' = "closed"
      <3>1. CASE w # ToVisitor
        BY <1>17, <1>a, <3>1 DEF ClientReads, TypeOK
      <3>2. CASE w = ToVisitor
        <4>1. /\ toClient[ToVisitor] \in Seq(Msg) /\ toClient[ToVisitor] # <<>>
              /\ m = Head(toClient[ToVisitor]) /\ toClient'[ToVisitor] = Tail(toClient[ToVisitor])
          BY <1>17, <1>a, <3>2 DEF ClientReads, TypeOK
        <4> QED
          BY <1>17, <3>2, <4>1, CloseRead DEF LinkInv
      <3> QED
        BY <3>1, <3>2
    <2> QED
      BY <1>17, <1>c, <2>1 DEF StaysTold
  <1>18. ASSUME NEW w \in Writers, NEW c \in Conns, NEW s \in Seq(Nat), ClientHandleData(w, c, s)
         PROVE  Good
    <2>1. UNCHANGED <<up, stcpConns, writer, toServer, end>> /\ ClientReads(w, Data(c, s))
      BY <1>18 DEF ClientHandleData, frpsVars
    <2>2. \A d : Data(c, s) # Close(d)
      BY DEF Data, Close
    <2> QED
      BY <1>17, <1>c, <2>1, <2>2 DEF VisitorEnd
  <1>19. ASSUME NEW w \in Writers, NEW c \in Conns, ClientHandleClose(w, c) PROVE Good
    <2>1. UNCHANGED <<up, stcpConns, writer, toServer>> /\ ClientReads(w, Close(c))
      BY <1>19 DEF ClientHandleClose, frpsVars
    <2>2. /\ \A d \in Conns : VisitorEnd(d)' = VisitorEnd(d)
                \/ (VisitorEnd(d) = "open" /\ VisitorEnd(d)' = "closed")
          /\ \A d \in Conns : ProviderEnd(d)' = ProviderEnd(d)
                \/ (ProviderEnd(d) = "open" /\ ProviderEnd(d)' = "closed")
      <3>1. w[1] \in Clients
        BY WriterType
      <3> QED
        BY <1>19, <3>1 DEF ClientHandleClose, TypeOK, VisitorEnd, ProviderEnd, Clients
    <2>3. EndsGrow /\ \A d \in Conns : VisitorEnd(d) = "closed" => VisitorEnd(d)' = "closed"
      BY <2>2 DEF EndsGrow
    <2>4. w = ToVisitor /\ VisitorEnd(c) # "absent" => VisitorEnd(c)' = "closed"
      <3>1. ~Skipped(ToVisitor)
        BY <1>a DEF Skipped, TypeOK
      <3>2. VisitorEnd(c) \in {"absent", "open", "closed"}
        BY DEF VisitorEnd, TypeOK, Clients
      <3> QED
        BY <1>19, <1>a, <3>1, <3>2 DEF ClientHandleClose, VisitorEnd, TypeOK, Clients
    <2>5. \A d : Close(c) = Close(d) => c = d
      BY DEF Close
    <2> QED
      BY <1>17, <2>1, <2>3, <2>4, <2>5
  <1>20. ASSUME NEW c \in Conns, ProviderDials(c) PROVE Good
    <2>1. UNCHANGED <<up, stcpConns, writer, toServer, end>>
          /\ ClientReads(Ctrl("provider"), NewVisitor(c))
      BY <1>20 DEF ProviderDials, frpsVars
    <2>2. \A d : NewVisitor(c) # Close(d)
      BY DEF NewVisitor, Close
    <2> QED
      BY <1>17, <1>a, <1>c, <2>1, <2>2 DEF VisitorEnd
  <1>21. ASSUME NEW c \in Conns, DialSucceeds(c) PROVE Good
    <2>1. /\ ProviderEnd(c)' = "open"
          /\ \A d \in Conns : d # c => ProviderEnd(d)' = ProviderEnd(d)
          /\ \A d \in Conns : VisitorEnd(d)' = VisitorEnd(d)
      BY <1>21 DEF DialSucceeds, TypeOK, VisitorEnd, ProviderEnd, Clients
    <2>2. \A w \in Writers : \A t, d : Says(toServer'[w], t, d) =>
              Says(toServer[w], t, d) \/ (w = Ctrl("provider") /\ t = "ready" /\ d = c)
      BY <1>21, <1>a, SendSays, Messages DEF DialSucceeds, Ready
    <2>3. EndsGrow /\ SentAfterDial
      BY <1>a, <2>1, <2>2 DEF EndsGrow, SentAfterDial
    <2> QED
      BY <1>13, <1>21, <2>1, <2>3 DEF DialSucceeds, frpsVars
  <1>22. ASSUME NEW c \in Conns, DialFails(c) PROVE Good
    <2>1. \A w \in Writers : \A t, d : Says(toServer'[w], t, d) =>
              Says(toServer[w], t, d) \/ t = "close"
      BY <1>22, <1>a, SendSays, Messages DEF DialFails, Close
    <2>2. SentAfterDial
      BY <1>a, <2>1 DEF SentAfterDial
    <2> QED
      BY <1>13, <1>22, <1>c, <2>2 DEF DialFails, frpsVars, VisitorEnd
  <1>23. ASSUME UNCHANGED vars PROVE Good
    <2>1. UNCHANGED <<up, stcpConns, writer, toClient, end, toServer>>
      BY <1>23 DEF vars, frpsVars, endVars
    <2>2. \A d \in Conns : VisitorEnd(d)' = VisitorEnd(d)
      BY <2>1 DEF VisitorEnd
    <2> QED
      BY <1>13, <1>c, <2>1, <2>2
  <1>24. ASSUME NEW w \in Links, FrpsTask(w) PROVE Good
    <2> HIDE DEF Good
    <2> QED
      BY <1>1, <1>2, <1>4, <1>5, <1>6, <1>7, <1>8, <1>9, <1>24, PayloadType DEF FrpsTask, HandleData
  <1>25. ASSUME NEW w \in Links, ClientTask(w) PROVE Good
    <2> HIDE DEF Good
    <2> QED
      BY <1>18, <1>19, <1>20, <1>21, <1>22, <1>25, <1>b, PayloadType DEF ClientTask
  <1>26. Good
    <2> HIDE DEF Good
    <2> QED
      <3>1. CASE Next
        BY <1>10, <1>11, <1>12, <1>14, <1>15, <1>16, <1>24, <1>25, <3>1 DEF Next
      <3> QED
        BY <1>23, <3>1
  <1> QED
    BY <1>26, LinkKept, ToldKept

LEMMA RelayHolds ==
    ASSUME \A md \in Modes : "visitor" \notin md.data
    PROVE  Spec => [](LinkInv /\ VisitorIsTold)
  <1>1. TypeOK /\ LinkInv /\ VisitorIsTold /\ [Next]_vars => LinkInv' /\ VisitorIsTold'
    BY RelayStep DEF TypeOK
  <1> QED
    BY <1>1, LinkInit, TypeCorrect, PTL DEF Spec

\* frps drops its entry of a connection only by telling the visitor, whichever of
\* its ways of closing it takes (close_stcp_conn, a failed write, a client that is
\* gone), as long as the visitor reads DATA and CLOSE on its control connection.
THEOREM VisitorCorrect ==
    ASSUME \A md \in Modes : "visitor" \notin md.data
    PROVE  Spec => []VisitorIsTold
  <1>1. LinkInv /\ VisitorIsTold => VisitorIsTold
    OBVIOUS
  <1> QED
    BY <1>1, RelayHolds, PTL

\* On the same condition a side is taken for the provider (handle_data,
\* handle_stcp_visitor_ready) only after that provider has dialled the service.
THEOREM ProviderCorrect ==
    ASSUME \A md \in Modes : "visitor" \notin md.data
    PROVE  Spec => []ProviderIsDialled
  <1>1. LinkInv /\ VisitorIsTold => ProviderIsDialled
    BY DEF LinkInv
  <1> QED
    BY <1>1, RelayHolds, PTL

-----------------------------------------------------------------------------
(* The end of a provider without a session.                                  *)

GoneInv ==
    /\ registered => "provider" \in serving
    /\ ProviderGoneClosesConns

LEMMA GoneStep == GoneInv /\ [Next]_vars => GoneInv'
  <1> SUFFICES ASSUME GoneInv, [Next]_vars PROVE GoneInv'
    OBVIOUS
  <1> USE DEF GoneInv, ProviderGoneClosesConns
  <1>1. ASSUME UNCHANGED <<mode, serving, registered>>, stcpConns' \subseteq stcpConns
        PROVE  GoneInv'
    BY <1>1
  <1>2. \A c : CloseStcpConn(c) => stcpConns' \subseteq stcpConns
    BY DEF CloseStcpConn
  <1>3. ASSUME NEW w \in Links, FrpsTask(w) PROVE GoneInv'
    <2>1. ASSUME NEW c \in Conns, HandleStcpNewVisitor(c) PROVE GoneInv'
      BY <2>1 DEF HandleStcpNewVisitor
    <2>2. ASSUME NEW c \in Conns, HandleStcpVisitorReady(c) PROVE GoneInv'
      BY <1>1, <2>2 DEF HandleStcpVisitorReady
    <2>3. CASE FlushDone(w)
      BY <1>1, <1>2, <2>3 DEF FlushDone
    <2>4. ASSUME NEW c \in Conns, HandleClose(w, c) PROVE GoneInv'
      BY <1>1, <1>2, <2>4 DEF HandleClose
    <2>5. ASSUME NEW c \in Conns, NEW s, NEW side, NEW to,
                 \/ DropData(w, c, s) \/ BufferData(w, c, s, side)
                 \/ RelayData(w, c, s, side, to) \/ RelayFails(w, c, s, side, to)
          PROVE  GoneInv'
      BY <1>1, <1>2, <2>5 DEF DropData, BufferData, RelayData, RelayFails, frpsVars
    <2> QED
      BY <1>3, <2>1, <2>2, <2>3, <2>4, <2>5 DEF FrpsTask, HandleData
  <1>4. ASSUME NEW w \in Links, ClientTask(w) PROVE GoneInv'
    <2>1. UNCHANGED <<mode, frpsVars>>
      BY <1>4 DEF ClientTask, ProviderDials, DialSucceeds, DialFails, ClientHandleClose,
                  ClientHandleData
    <2> QED
      BY <1>1, <2>1 DEF frpsVars
  <1>5. ASSUME NEW cl \in Clients, ClientGone(cl) PROVE GoneInv'
    <2>1. /\ mode' = mode /\ serving' = serving \ {cl}
          /\ registered' = (registered /\ cl # "provider")
          /\ stcpConns' = stcpConns \ (IF cl = "provider" /\ ~mode.session THEN stcpConns ELSE {})
      BY <1>5 DEF ClientGone
    <2> QED
      BY <2>1
  <1>6. ASSUME NEW c \in Conns, IdleSweep(c) PROVE GoneInv'
    BY <1>1, <1>2, <1>6 DEF IdleSweep
  <1>7. CASE \/ \E c \in Conns : UserConnect(c)
             \/ \E cl \in Clients : ClientBreaks(cl)
             \/ \E cl \in Clients, c \in Conns : ForwardData(cl, c) \/ ForwardEnd(cl, c)
             \/ UNCHANGED vars
    <2>1. UNCHANGED <<mode, frpsVars>>
      BY <1>7 DEF UserConnect, ClientBreaks, ForwardData, ForwardEnd, vars
    <2> QED
      BY <1>1, <2>1 DEF frpsVars
  <1> QED
    BY <1>3, <1>4, <1>5, <1>6, <1>7 DEF Next

\* frps.py:1750: with the provider's last writer go all relayed connections, when
\* clients have no sessions.
THEOREM GoneCorrect == Spec => []ProviderGoneClosesConns
  <1>1. Init => GoneInv
    BY DEF Init, GoneInv, ProviderGoneClosesConns, Clients
  <1>2. GoneInv => ProviderGoneClosesConns
    BY DEF GoneInv
  <1> QED
    BY <1>1, <1>2, GoneStep, PTL DEF Spec

-----------------------------------------------------------------------------
(* Streams: a queue carries the chunks of a connection from one position in   *)
(* the stream to another.                                                    *)

\* The chunks after the first a, up to and with the b-th.
Chunks(a, b) == [i \in 1..(b - a) |-> a + i]

IsData(m, c) == m.type = "data" /\ m.conn = c

\* What a message makes of the position a of the stream of c.
Moves(m, c, a, b) ==
    IF IsData(m, c) THEN a <= b /\ m.chunks = Chunks(a, b) ELSE b = a

\* p[i] is the position after the first i messages of q.
Track(p, q, c, n, m) ==
    /\ p \in [0..Len(q) -> Nat]
    /\ p[0] = n /\ p[Len(q)] = m
    /\ \A i, j \in 0..Len(q) : i <= j => p[i] <= p[j]
    /\ \A i \in 1..Len(q) : Moves(q[i], c, p[i - 1], p[i])

Carries(q, c, n, m) == \E p : Track(p, q, c, n, m)

\* Nothing for c to hand on.
Silent(q, c) == \A i \in 1..Len(q) : ~IsData(q[i], c)

\* What q carries of c, r does.
SameFor(q, r, c) == \A n, m \in Nat : Carries(q, c, n, m) => Carries(r, c, n, m)

LEMMA ChunksType ==
    ASSUME NEW a \in Nat, NEW b \in Nat, a <= b
    PROVE  /\ Chunks(a, b) \in Seq(Nat) /\ Len(Chunks(a, b)) = b - a
           /\ \A i \in 1..(b - a) : Chunks(a, b)[i] = a + i
           /\ Chunks(a, b) = <<>> <=> a = b
  <1>1. b - a \in Nat /\ \A i \in 1..(b - a) : a + i \in Nat
    OBVIOUS
  <1>2. Chunks(a, b) \in [1..(b - a) -> Nat]
    BY <1>1 DEF Chunks
  <1>3. Chunks(a, b) \in Seq(Nat) /\ Len(Chunks(a, b)) = b - a
    BY <1>1, <1>2
  <1>4. \A i \in 1..(b - a) : Chunks(a, b)[i] = a + i
    BY DEF Chunks
  <1> QED
    BY <1>1, <1>3, <1>4, EmptySeq

LEMMA ChunksJoin ==
    ASSUME NEW a \in Nat, NEW b \in Nat, NEW d \in Nat, a <= b, b <= d
    PROVE  Chunks(a, b) \o Chunks(b, d) = Chunks(a, d)
  <1> DEFINE l == Chunks(a, b)
             r == Chunks(b, d)
             t == Chunks(a, d)
  <1>0. a <= d
    OBVIOUS
  <1>1. /\ l \in Seq(Nat) /\ Len(l) = b - a /\ \A i \in 1..(b - a) : l[i] = a + i
        /\ r \in Seq(Nat) /\ Len(r) = d - b /\ \A i \in 1..(d - b) : r[i] = b + i
        /\ t \in Seq(Nat) /\ Len(t) = d - a /\ \A i \in 1..(d - a) : t[i] = a + i
    <2>1. l \in Seq(Nat) /\ Len(l) = b - a /\ \A i \in 1..(b - a) : l[i] = a + i
      BY ChunksType
    <2>2. r \in Seq(Nat) /\ Len(r) = d - b /\ \A i \in 1..(d - b) : r[i] = b + i
      BY ChunksType
    <2>3. t \in Seq(Nat) /\ Len(t) = d - a /\ \A i \in 1..(d - a) : t[i] = a + i
      BY <1>0, ChunksType
    <2> QED
      BY <2>1, <2>2, <2>3
  <1> HIDE DEF l, r, t
  <1>2. /\ l \o r \in Seq(Nat) /\ Len(l \o r) = d - a
        /\ \A i \in 1..(d - a) : (l \o r)[i] = IF i <= b - a THEN l[i] ELSE r[i - (b - a)]
    <2>1. /\ l \o r \in Seq(Nat) /\ Len(l \o r) = Len(l) + Len(r)
          /\ \A i \in 1..(Len(l) + Len(r)) : (l \o r)[i] = IF i <= Len(l) THEN l[i] ELSE r[i - Len(l)]
      BY <1>1, ConcatProperties
    <2>2. Len(l) = b - a /\ Len(l) + Len(r) = d - a
      BY <1>1
    <2> QED
      BY <2>1, <2>2
  <1>3. ASSUME NEW i \in 1..(d - a) PROVE (l \o r)[i] = t[i]
    <2>1. CASE i <= b - a
      <3>1. i \in 1..(b - a)
        BY <2>1
      <3> QED
        BY <1>1, <1>2, <2>1, <3>1
    <2>2. CASE i > b - a
      <3>1. i - (b - a) \in 1..(d - b) /\ b + (i - (b - a)) = a + i /\ ~(i <= b - a)
        BY <2>2
      <3>2. (l \o r)[i] = r[i - (b - a)]
        BY <1>2, <3>1
      <3>3. r[i - (b - a)] = b + (i - (b - a))
        BY <1>1, <3>1
      <3>4. t[i] = a + i
        BY <1>1
      <3> QED
        BY <3>1, <3>2, <3>3, <3>4
    <2>3. i <= b - a \/ i > b - a
      OBVIOUS
    <2> QED
      BY <2>1, <2>2, <2>3
  <1>4. l \o r = t
    BY <1>1, <1>2, <1>3, SeqEqual
  <1> QED
    BY <1>4 DEF l, r, t

LEMMA ChunksOne ==
    ASSUME NEW a \in Nat
    PROVE  <<a + 1>> = Chunks(a, a + 1)
  <1>1. Chunks(a, a + 1) \in Seq(Nat) /\ Len(Chunks(a, a + 1)) = 1 /\ Chunks(a, a + 1)[1] = a + 1
    <2> DEFINE b == a + 1
    <2>1. b \in Nat /\ a <= b /\ b - a = 1 /\ b = a + 1
      OBVIOUS
    <2> HIDE DEF b
    <2>2. /\ Chunks(a, b) \in Seq(Nat) /\ Len(Chunks(a, b)) = b - a
          /\ \A i \in 1..(b - a) : Chunks(a, b)[i] = a + i
      BY <2>1, ChunksType
    <2>3. 1 \in 1..(b - a)
      BY <2>1
    <2>4. Chunks(a, b)[1] = a + 1
      BY <2>2, <2>3
    <2> QED
      BY <2>1, <2>2, <2>4
  <1>2. <<a + 1>> \in Seq(Nat) /\ Len(<<a + 1>>) = 1 /\ <<a + 1>>[1] = a + 1
    OBVIOUS
  <1> QED
    BY <1>1, <1>2, SeqEqual

LEMMA CarriesSilent ==
    ASSUME NEW q \in Seq(Msg), NEW c, Silent(q, c), NEW n \in Nat
    PROVE  Carries(q, c, n, n)
  <1> DEFINE p == [i \in 0..Len(q) |-> n]
  <1>1. Track(p, q, c, n, n)
    BY DEF Track, Moves, Silent
  <1> QED
    BY <1>1 DEF Carries

LEMMA CarriesOne ==
    ASSUME NEW m \in Msg, NEW c, NEW a \in Nat, NEW b \in Nat, a <= b, Moves(m, c, a, b)
    PROVE  Carries(<<m>>, c, a, b)
  <1> DEFINE p == [i \in 0..1 |-> IF i = 0 THEN a ELSE b]
  <1>1. Len(<<m>>) = 1 /\ <<m>>[1] = m
    OBVIOUS
  <1>2. p \in [0..1 -> Nat] /\ p[0] = a /\ p[1] = b /\ \A i, j \in 0..1 : i <= j => p[i] <= p[j]
    OBVIOUS
  <1> HIDE DEF p
  <1>3. \A i \in 1..1 : i = 1 /\ i - 1 = 0
    OBVIOUS
  <1>4. Track(p, <<m>>, c, a, b)
    BY <1>1, <1>2, <1>3 DEF Track
  <1> QED
    BY <1>4 DEF Carries

LEMMA CarriesConcat ==
    ASSUME NEW q \in Seq(Msg), NEW r \in Seq(Msg), NEW c,
           NEW n \in Nat, NEW m \in Nat, NEW k \in Nat,
           Carries(q, c, n, m), Carries(r, c, m, k)
    PROVE  Carries(q \o r, c, n, k)
  <1>1. PICK f : Track(f, q, c, n, m)
    BY DEF Carries
  <1>2. PICK g : Track(g, r, c, m, k)
    BY DEF Carries
  <1> DEFINE s == q \o r
             l == Len(q)
             p == [i \in 0..(l + Len(r)) |-> IF i <= l THEN f[i] ELSE g[i - l]]
  <1>3. s \in Seq(Msg) /\ Len(s) = l + Len(r) /\ l \in Nat /\ Len(r) \in Nat
    OBVIOUS
  <1>4. /\ \A i \in 1..l : s[i] = q[i]
        /\ \A i \in 1..Len(r) : s[l + i] = r[i]
    OBVIOUS
  <1>5. /\ f \in [0..l -> Nat] /\ f[0] = n /\ f[l] = m
        /\ \A i, j \in 0..l : i <= j => f[i] <= f[j]
        /\ \A i \in 1..l : Moves(q[i], c, f[i - 1], f[i])
    BY <1>1 DEF Track
  <1>6. /\ g \in [0..Len(r) -> Nat] /\ g[0] = m /\ g[Len(r)] = k
        /\ \A i, j \in 0..Len(r) : i <= j => g[i] <= g[j]
        /\ \A i \in 1..Len(r) : Moves(r[i], c, g[i - 1], g[i])
    BY <1>2 DEF Track
  <1> HIDE DEF s, l
  <1>8. /\ \A i \in 0..l : p[i] = f[i]
        /\ \A i \in 0..Len(r) : p[l + i] = g[i]
    <2>1. \A i \in 0..l : i \in 0..(l + Len(r)) /\ i <= l
      BY <1>3
    <2>2. ASSUME NEW i \in 0..Len(r) PROVE p[l + i] = g[i]
      <3>1. l + i \in 0..(l + Len(r)) /\ (l + i) - l = i
        BY <1>3
      <3>2. CASE i = 0
        BY <1>3, <1>5, <1>6, <3>1, <3>2
      <3>3. CASE i # 0
        <4>1. ~(l + i <= l)
          BY <1>3, <3>3
        <4> QED
          BY <3>1, <4>1
      <3> QED
        BY <3>2, <3>3
    <2> QED
      BY <2>1, <2>2
  <1>9. p \in [0..(l + Len(r)) -> Nat]
    BY <1>3, <1>5, <1>6
  <1> HIDE DEF p
  <1>11. ASSUME NEW i \in 0..(l + Len(r)), NEW j \in 0..(l + Len(r)), i <= j
         PROVE  p[i] <= p[j]
    <2>1. CASE j <= l
      <3>1. i \in 0..l /\ j \in 0..l
        BY <1>3, <1>11, <2>1
      <3> QED
        BY <1>5, <1>8, <1>11, <3>1
    <2>2. CASE i > l
      <3>1. i - l \in 0..Len(r) /\ j - l \in 0..Len(r) /\ i - l <= j - l
            /\ i = l + (i - l) /\ j = l + (j - l)
        BY <1>3, <1>11, <2>2
      <3>2. p[i] = g[i - l] /\ p[j] = g[j - l]
        BY <1>8, <3>1
      <3> QED
        BY <1>6, <3>1, <3>2
    <2>3. CASE i <= l /\ j > l
      <3>1. /\ i \in 0..l /\ l \in 0..l /\ 0 \in 0..Len(r)
            /\ j - l \in 0..Len(r) /\ 0 <= j - l /\ j = l + (j - l)
        BY <1>3, <1>11, <2>3
      <3>2. f[i] <= m /\ m <= g[j - l]
        BY <1>5, <1>6, <2>3, <3>1
      <3>3. p[i] = f[i] /\ p[j] = g[j - l]
        BY <1>8, <3>1
      <3>4. f[i] \in Nat /\ g[j - l] \in Nat
        BY <1>5, <1>6, <3>1
      <3> QED
        BY <3>2, <3>3, <3>4
    <2> QED
      BY <1>3, <2>1, <2>2, <2>3
  <1>12. ASSUME NEW i \in 1..(l + Len(r)) PROVE Moves(s[i], c, p[i - 1], p[i])
    <2>1. CASE i <= l
      <3>1. i \in 1..l /\ i - 1 \in 0..l /\ i \in 0..l
        BY <1>3, <2>1
      <3> QED
        BY <1>4, <1>5, <1>8, <3>1
    <2>2. CASE i > l
      <3> DEFINE j == i - l
      <3>1. j \in 1..Len(r) /\ j \in 0..Len(r) /\ j - 1 \in 0..Len(r) /\ i = l + j /\ i - 1 = l + (j - 1)
        BY <1>3, <2>2
      <3> HIDE DEF j
      <3>2. p[i] = g[j] /\ p[i - 1] = g[j - 1] /\ s[i] = r[j]
        BY <1>4, <1>8, <3>1
      <3> QED
        BY <1>6, <3>1, <3>2
    <2> QED
      BY <1>3, <2>1, <2>2
  <1>13. p[0] = n /\ p[l + Len(r)] = k
    <2>1. 0 \in 0..l /\ Len(r) \in 0..Len(r)
      BY <1>3
    <2> QED
      BY <1>5, <1>6, <1>8, <2>1
  <1>14. Track(p, s, c, n, k)
    BY <1>3, <1>9, <1>11, <1>12, <1>13 DEF Track
  <1> QED
    BY <1>14 DEF Carries, s

LEMMA CarriesTail ==
    ASSUME NEW q \in Seq(Msg), q # <<>>, NEW c, NEW n \in Nat, NEW m \in Nat, Carries(q, c, n, m)
    PROVE  \E k \in Nat : /\ n <= k /\ k <= m /\ Moves(Head(q), c, n, k)
                          /\ Carries(Tail(q), c, k, m)
  <1>1. PICK f : Track(f, q, c, n, m)
    BY DEF Carries
  <1> DEFINE l == Len(q)
             t == Tail(q)
             p == [i \in 0..(l - 1) |-> f[i + 1]]
  <1>2. /\ l \in Nat /\ l >= 1 /\ t \in Seq(Msg) /\ Len(t) = l - 1
        /\ Head(q) = q[1] /\ \A i \in 1..(l - 1) : t[i] = q[i + 1]
    BY EmptySeq
  <1>3. /\ f \in [0..l -> Nat] /\ f[0] = n /\ f[l] = m
        /\ \A i, j \in 0..l : i <= j => f[i] <= f[j]
        /\ \A i \in 1..l : Moves(q[i], c, f[i - 1], f[i])
    BY <1>1 DEF Track
  <1> HIDE DEF l, t
  <1>4. f[1] \in Nat /\ n <= f[1] /\ f[1] <= m /\ Moves(Head(q), c, n, f[1])
    <2>1. 1 \in 0..l /\ 1 \in 1..l /\ 1 - 1 = 0 /\ 0 \in 0..l /\ l \in 0..l
      BY <1>2
    <2> QED
      BY <1>2, <1>3, <2>1
  <1>5. /\ p \in [0..(l - 1) -> Nat] /\ p[0] = f[1] /\ p[l - 1] = m
        /\ \A i \in 0..(l - 1) : p[i] = f[i + 1]
    BY <1>2, <1>3
  <1> HIDE DEF p
  <1>6. ASSUME NEW i \in 1..(l - 1) PROVE Moves(t[i], c, p[i - 1], p[i])
    <2>1. i + 1 \in 1..l /\ (i + 1) - 1 = i /\ i - 1 \in 0..(l - 1) /\ i \in 0..(l - 1) /\ (i - 1) + 1 = i
      BY <1>2
    <2> QED
      BY <1>2, <1>3, <1>5, <2>1
  <1>7. ASSUME NEW i \in 0..(l - 1), NEW j \in 0..(l - 1), i <= j PROVE p[i] <= p[j]
    <2>1. i + 1 \in 0..l /\ j + 1 \in 0..l /\ i + 1 <= j + 1
      BY <1>2, <1>7
    <2> QED
      BY <1>3, <1>5, <2>1
  <1>8. Track(p, t, c, f[1], m)
    BY <1>2, <1>5, <1>6, <1>7 DEF Track
  <1> QED
    BY <1>4, <1>8 DEF Carries, t

LEMMA CarriesBounds ==
    ASSUME NEW q \in Seq(Msg), NEW c, NEW n \in Nat, NEW m \in Nat, Carries(q, c, n, m)
    PROVE  n <= m
  <1>1. PICK f : Track(f, q, c, n, m)
    BY DEF Carries
  <1>2. 0 \in 0..Len(q) /\ Len(q) \in 0..Len(q) /\ 0 <= Len(q)
    OBVIOUS
  <1> QED
    BY <1>1, <1>2 DEF Track

-----------------------------------------------------------------------------
(* How queues change, seen from one connection.                              *)

LEMMA SameForSame == \A q, c : SameFor(q, q, c)
  BY DEF SameFor

LEMMA SameForConcat ==
    ASSUME NEW q \in Seq(Msg), NEW r \in Seq(Msg), NEW c, Silent(r, c)
    PROVE  SameFor(q, q \o r, c)
  <1>1. ASSUME NEW n \in Nat, NEW m \in Nat, Carries(q, c, n, m) PROVE Carries(q \o r, c, n, m)
    <2>1. Carries(r, c, m, m)
      BY CarriesSilent
    <2> QED
      BY <1>1, <2>1, CarriesConcat
  <1> QED
    BY <1>1 DEF SameFor

LEMMA SameForAppend ==
    ASSUME NEW q \in Seq(Msg), NEW x \in Msg, NEW c, ~IsData(x, c)
    PROVE  SameFor(q, Append(q, x), c)
  <1>1. <<x>> \in Seq(Msg) /\ Silent(<<x>>, c) /\ Append(q, x) = q \o <<x>>
    BY AppendIsConcat DEF Silent
  <1> QED
    BY <1>1, SameForConcat

LEMMA SameForTail ==
    ASSUME NEW q \in Seq(Msg), q # <<>>, NEW c, ~IsData(Head(q), c)
    PROVE  SameFor(q, Tail(q), c)
  BY CarriesTail DEF SameFor, Moves

LEMMA CarriesAppend ==
    ASSUME NEW q \in Seq(Msg), NEW c, NEW n \in Nat, NEW m \in Nat, NEW k \in Nat,
           Carries(q, c, n, m), m <= k, Data(c, Chunks(m, k)) \in Msg
    PROVE  /\ Carries(q \o <<Data(c, Chunks(m, k))>>, c, n, k)
           /\ Carries(Append(q, Data(c, Chunks(m, k))), c, n, k)
  <1> DEFINE x == Data(c, Chunks(m, k))
  <1>1. Moves(x, c, m, k)
    BY DEF Moves, IsData, Data
  <1> HIDE DEF x
  <1>2. x \in Msg
    BY DEF x
  <1>3. <<x>> \in Seq(Msg) /\ Append(q, x) = q \o <<x>> /\ Carries(<<x>>, c, m, k)
    BY <1>1, <1>2, CarriesOne, AppendIsConcat
  <1>4. Carries(q \o <<x>>, c, n, k)
    BY <1>3, CarriesConcat
  <1> QED
    BY <1>3, <1>4 DEF x

\* A connection's NEW_VISITOR is in q at most once, and before what else is of c.
Once(q, c) ==
    \A i, j \in 1..Len(q) : q[i] = NewVisitor(c) /\ q[j] = NewVisitor(c) => i = j
Leads(q, c) ==
    \A i, j \in 1..Len(q) : q[i] = NewVisitor(c) /\ q[j].conn = c => i <= j
Absent(q, c) == \A i \in 1..Len(q) : q[i].conn # c

Announces(q, c) == Says(q, "newVisitor", c)

\* r has no announcement of c that q has not.
Fewer(q, r, c) ==
    /\ Announces(r, c) => Announces(q, c)
    /\ Once(q, c) => Once(r, c)

Later(q, r, c) ==
    /\ Announces(r, c) => Announces(q, c)
    /\ Leads(q, c) => Leads(r, c)

LEMMA AnnouncesIs ==
    ASSUME NEW q \in Seq(Msg), NEW c
    PROVE  Announces(q, c) <=> \E i \in 1..Len(q) : q[i] = NewVisitor(c)
  <1>1. ASSUME NEW i \in 1..Len(q) PROVE q[i].type = "newVisitor" /\ q[i].conn = c <=> q[i] = NewVisitor(c)
    <2>1. q[i] \in Msg
      OBVIOUS
    <2> QED
      BY <2>1 DEF Msg, NewVisitor
  <1> QED
    BY <1>1 DEF Announces, Says

LEMMA KeptSame == \A q, c : Fewer(q, q, c) /\ Later(q, q, c)
  BY DEF Fewer, Later

LEMMA KeptEmpty == \A q, c : Fewer(q, <<>>, c) /\ Later(q, <<>>, c) /\ Absent(<<>>, c)
  BY DEF Fewer, Later, Announces, Says, Once, Leads, Absent

LEMMA KeptTail ==
    ASSUME NEW q \in Seq(Msg), q # <<>>, NEW c
    PROVE  /\ Fewer(q, Tail(q), c) /\ Later(q, Tail(q), c)
           /\ Absent(q, c) => Absent(Tail(q), c)
           /\ Head(q) = NewVisitor(c) => Announces(q, c)
           /\ Head(q) = NewVisitor(c) /\ Once(q, c) => ~Announces(Tail(q), c)
           /\ Head(q).conn = c /\ Head(q) # NewVisitor(c) /\ Leads(q, c) => ~Announces(q, c)
           /\ Leads(q, c) => Once(q, c)
  <1> DEFINE t == Tail(q)
             l == Len(q)
  <1>1. /\ l \in Nat /\ l >= 1 /\ t \in Seq(Msg) /\ Len(t) = l - 1 /\ Head(q) = q[1]
        /\ \A i \in 1..(l - 1) : t[i] = q[i + 1] /\ i + 1 \in 1..l
    BY EmptySeq
  <1> HIDE DEF t, l
  <1>2. /\ Announces(q, c) <=> \E i \in 1..l : q[i] = NewVisitor(c)
        /\ Announces(t, c) <=> \E i \in 1..(l - 1) : t[i] = NewVisitor(c)
    BY <1>1, AnnouncesIs DEF l
  <1>3. /\ Once(q, c) <=> \A i, j \in 1..l : q[i] = NewVisitor(c) /\ q[j] = NewVisitor(c) => i = j
        /\ Leads(q, c) <=> \A i, j \in 1..l : q[i] = NewVisitor(c) /\ q[j].conn = c => i <= j
        /\ Absent(q, c) <=> \A i \in 1..l : q[i].conn # c
    BY DEF Once, Leads, Absent, l
  <1>4. Announces(t, c) => Announces(q, c)
    BY <1>1, <1>2
  <1>5. Once(q, c) => Once(t, c)
    <2>1. ASSUME Once(q, c), NEW i \in 1..(l - 1), NEW j \in 1..(l - 1),
                 t[i] = NewVisitor(c), t[j] = NewVisitor(c)
          PROVE  i = j
      <3>1. i + 1 = j + 1
        BY <1>1, <1>3, <2>1
      <3> QED
        BY <1>1, <3>1
    <2> QED
      BY <1>1, <2>1 DEF Once
  <1>6. Leads(q, c) => Leads(t, c)
    <2>1. ASSUME Leads(q, c), NEW i \in 1..(l - 1), NEW j \in 1..(l - 1),
                 t[i] = NewVisitor(c), t[j].conn = c
          PROVE  i <= j
      <3>1. i + 1 <= j + 1
        BY <1>1, <1>3, <2>1
      <3> QED
        BY <1>1, <3>1
    <2> QED
      BY <1>1, <2>1 DEF Leads
  <1>7. Absent(q, c) => Absent(t, c)
    BY <1>1, <1>3 DEF Absent
  <1>8. 1 \in 1..l
    BY <1>1
  <1>9. Head(q) = NewVisitor(c) => Announces(q, c)
    BY <1>1, <1>2, <1>8
  <1>10. ASSUME Head(q) = NewVisitor(c), Once(q, c), Announces(t, c) PROVE FALSE
    <2>1. PICK i \in 1..(l - 1) : t[i] = NewVisitor(c)
      BY <1>2, <1>10
    <2>2. i + 1 = 1
      BY <1>1, <1>3, <1>8, <1>10, <2>1
    <2> QED
      BY <1>1, <2>2
  <1>11. ASSUME Head(q).conn = c, Head(q) # NewVisitor(c), Leads(q, c), Announces(q, c) PROVE FALSE
    <2>1. PICK i \in 1..l : q[i] = NewVisitor(c)
      BY <1>2, <1>11
    <2>2. i <= 1
      BY <1>1, <1>3, <1>8, <1>11, <2>1
    <2> QED
      BY <1>1, <1>11, <2>1, <2>2
  <1>12. Leads(q, c) => Once(q, c)
    <2>1. ASSUME Leads(q, c), NEW i \in 1..l, NEW j \in 1..l,
                 q[i] = NewVisitor(c), q[j] = NewVisitor(c)
          PROVE  i = j
      <3>1. i <= j /\ j <= i
        BY <1>3, <2>1 DEF NewVisitor
      <3> QED
        BY <1>1, <3>1
    <2> QED
      BY <1>3, <2>1
  <1> QED
    BY <1>4, <1>5, <1>6, <1>7, <1>9, <1>10, <1>11, <1>12 DEF Fewer, Later, t

\* What is added behind announces nothing.
LEMMA FewerConcat ==
    ASSUME NEW q \in Seq(Msg), NEW r \in Seq(Msg), NEW c, ~Announces(r, c)
    PROVE  Fewer(q, q \o r, c)
  <1> DEFINE s == q \o r
             l == Len(q)
  <1>1. /\ s \in Seq(Msg) /\ Len(s) = l + Len(r) /\ l \in Nat /\ Len(r) \in Nat
        /\ \A i \in 1..(l + Len(r)) : s[i] = IF i <= l THEN q[i] ELSE r[i - l]
    BY ConcatProperties
  <1> HIDE DEF s
  <1>2. ASSUME NEW i \in 1..Len(s), s[i] = NewVisitor(c) PROVE i \in 1..l /\ q[i] = NewVisitor(c)
    <2>1. CASE i <= l
      BY <1>1, <1>2, <2>1
    <2>2. CASE ~(i <= l)
      <3>1. i - l \in 1..Len(r) /\ s[i] = r[i - l]
        BY <1>1, <2>2
      <3> QED
        BY <1>2, <3>1, AnnouncesIs
    <2> QED
      BY <2>1, <2>2
  <1>3. Announces(s, c) => Announces(q, c)
    BY <1>1, <1>2, AnnouncesIs
  <1>4. Once(q, c) => Once(s, c)
    BY <1>2 DEF Once
  <1> QED
    BY <1>3, <1>4 DEF Fewer, s

LEMMA LaterAppend ==
    ASSUME NEW q \in Seq(Msg), NEW x \in Msg, NEW c
    PROVE  /\ x # NewVisitor(c) => Later(q, Append(q, x), c)
           /\ Absent(q, c) => Leads(Append(q, x), c)
           /\ Absent(q, c) /\ x.conn # c => Absent(Append(q, x), c)
  <1> DEFINE s == Append(q, x)
             l == Len(q)
  <1>1. /\ s \in Seq(Msg) /\ Len(s) = l + 1 /\ l \in Nat /\ s[l + 1] = x
        /\ \A i \in 1..l : s[i] = q[i]
    BY AppendProperties
  <1> HIDE DEF s, l
  <1>2. \A i \in 1..(l + 1) : i \in 1..l \/ i = l + 1
    BY <1>1
  <1>3. /\ Announces(q, c) <=> \E i \in 1..l : q[i] = NewVisitor(c)
        /\ Announces(s, c) <=> \E i \in 1..(l + 1) : s[i] = NewVisitor(c)
    BY <1>1, AnnouncesIs DEF l
  <1>4. /\ Leads(q, c) <=> \A i, j \in 1..l : q[i] = NewVisitor(c) /\ q[j].conn = c => i <= j
        /\ Leads(s, c) <=> \A i, j \in 1..(l + 1) : s[i] = NewVisitor(c) /\ s[j].conn = c => i <= j
        /\ Absent(q, c) <=> \A i \in 1..l : q[i].conn # c
        /\ Absent(s, c) <=> \A i \in 1..(l + 1) : s[i].conn # c
    BY <1>1 DEF Leads, Absent, l
  <1>5. ASSUME x # NewVisitor(c) PROVE Later(q, s, c)
    <2>1. Announces(s, c) => Announces(q, c)
      BY <1>1, <1>2, <1>3, <1>5
    <2>2. ASSUME Leads(q, c), NEW i \in 1..(l + 1), NEW j \in 1..(l + 1),
                 s[i] = NewVisitor(c), s[j].conn = c
          PROVE  i <= j
      <3>1. i \in 1..l
        BY <1>1, <1>2, <1>5, <2>2
      <3>2. CASE j = l + 1
        BY <1>1, <3>1, <3>2
      <3>3. CASE j \in 1..l
        BY <1>1, <1>4, <2>2, <3>1, <3>3
      <3> QED
        BY <1>2, <3>2, <3>3
    <2> QED
      BY <1>4, <2>1, <2>2 DEF Later
  <1>6. ASSUME Absent(q, c) PROVE Leads(s, c)
    <2>1. ASSUME NEW i \in 1..(l + 1), s[i].conn = c PROVE i = l + 1
      BY <1>1, <1>2, <1>4, <1>6, <2>1
    <2>2. ASSUME NEW i \in 1..(l + 1), NEW j \in 1..(l + 1), s[i] = NewVisitor(c), s[j].conn = c
          PROVE  i <= j
      <3>1. s[i].conn = c
        BY <2>2 DEF NewVisitor
      <3> QED
        BY <1>1, <2>1, <2>2, <3>1
    <2> QED
      BY <1>4, <2>2
  <1>7. ASSUME Absent(q, c), x.conn # c PROVE Absent(s, c)
    BY <1>1, <1>2, <1>4, <1>7
  <1> QED
    BY <1>5, <1>6, <1>7 DEF s

-----------------------------------------------------------------------------
(* Where no client has a data channel: how a connection comes about. It is     *)
(* announced to frps once, before any of its data, and to the provider once,   *)
(* before it is dialled.                                                     *)

ToProvider == Ctrl("provider")

\* frps has not heard of c yet.
Fresh(c) == VisitorEnd(c) = "absent" \/ Announces(toServer[ToVisitor], c)

OneInv(c) ==
    /\ writer["provider"][c] \in {None, ToProvider}
    /\ buffer["provider"][c] = <<>>
    /\ VisitorEnd(c) = "absent" =>
          sent["visitor"][c] = 0 /\ Absent(toServer[ToVisitor], c)
    /\ ProviderEnd(c) = "absent" => sent["provider"][c] = 0
    /\ Leads(toServer[ToVisitor], c)
    /\ Once(toClient[ToProvider], c)
    /\ Announces(toClient[ToProvider], c) => dialing # c
    /\ Announces(toClient[ToProvider], c) \/ dialing = c => ProviderEnd(c) = "absent"
    /\ Fresh(c) => /\ c \notin stcpConns /\ buffer["visitor"][c] = <<>>
                   /\ ~Announces(toClient[ToProvider], c) /\ dialing # c
                   /\ ProviderEnd(c) = "absent"

\* Only the visitor's data waits for the other side, and hence is flushed.
FlushInv ==
    \A w \in Writers : flushing[w] # None =>
        flushing[w].side = "visitor" /\ flushing[w].to = ToProvider /\ mode.pauses

OrderInv == FlushInv /\ \A c \in Conns : OneInv(c)

LEMMA Control ==
    ASSUME TypeOK, OnControl
    PROVE  /\ Links = {ToProvider, ToVisitor} /\ ToProvider # ToVisitor
           /\ ToProvider \in Writers /\ ToVisitor \in Writers
           /\ ToProvider = Ctrl("provider") /\ ToVisitor = Ctrl("visitor")
           /\ DataWriter("provider") = ToProvider /\ DataWriter("visitor") = ToVisitor
           /\ ToProvider[1] = "provider" /\ ToVisitor[1] = "visitor"
           /\ ToProvider # None /\ ToVisitor # None
           /\ \A w \in Writers : ~Skipped(w)
           /\ toServer[ToVisitor] \in Seq(Msg) /\ toServer[ToProvider] \in Seq(Msg)
           /\ toClient[ToVisitor] \in Seq(Msg) /\ toClient[ToProvider] \in Seq(Msg)
           /\ Clients = {"provider", "visitor"}
  <1>1. /\ Links = {ToProvider, ToVisitor}
        /\ DataWriter("provider") = ToProvider /\ DataWriter("visitor") = ToVisitor
        /\ \A w \in Writers : ~Skipped(w)
    BY DEF OnControl, Links, DataWriter, Skipped, ToProvider, ToVisitor, Ctrl, Clients
  <1>2. /\ ToProvider # ToVisitor /\ ToProvider \in Writers /\ ToVisitor \in Writers
        /\ ToProvider[1] = "provider" /\ ToVisitor[1] = "visitor"
        /\ ToProvider # None /\ ToVisitor # None
    BY WriterType DEF ToProvider, ToVisitor, Clients
  <1>3. /\ toServer[ToVisitor] \in Seq(Msg) /\ toServer[ToProvider] \in Seq(Msg)
        /\ toClient[ToVisitor] \in Seq(Msg) /\ toClient[ToProvider] \in Seq(Msg)
    BY <1>2 DEF TypeOK
  <1> QED
    BY <1>1, <1>2, <1>3 DEF ToProvider, ToVisitor, Clients

LEMMA ModeFixed == [Next]_vars => mode' = mode
  <1> SUFFICES ASSUME [Next]_vars PROVE mode' = mode
    OBVIOUS
  <1>1. ASSUME NEW w, FrpsTask(w) PROVE mode' = mode
    <2>1. FlushDone(w) => mode' = mode
      BY DEF FlushDone
    <2>2. \A c : HandleStcpNewVisitor(c) \/ HandleStcpVisitorReady(c) \/ HandleClose(w, c)
                   => mode' = mode
      BY DEF HandleStcpNewVisitor, HandleStcpVisitorReady, HandleClose
    <2>3. \A c, s : DropData(w, c, s) => mode' = mode
      BY DEF DropData
    <2>4. \A c, s, side : BufferData(w, c, s, side) => mode' = mode
      BY DEF BufferData
    <2>5. \A c, s, side, to : RelayData(w, c, s, side, to) => mode' = mode
      BY DEF RelayData
    <2>6. \A c, s, side, to : RelayFails(w, c, s, side, to) => mode' = mode
      BY DEF RelayFails
    <2>7. \A c, s : HandleData(w, c, s) => mode' = mode
      BY <2>3, <2>4, <2>5, <2>6, Zenon DEF HandleData
    <2> QED
      BY <1>1, <2>1, <2>2, <2>7 DEF FrpsTask
  <1>2. ASSUME NEW w, ClientTask(w) PROVE mode' = mode
    BY <1>2 DEF ClientTask, ProviderDials, DialSucceeds, DialFails, ClientHandleClose,
                ClientHandleData
  <1>3. CASE \E c \in Conns : UserConnect(c) \/ IdleSweep(c)
    BY <1>3 DEF UserConnect, IdleSweep
  <1>4. CASE \E cl \in Clients : \/ ClientBreaks(cl) \/ ClientGone(cl)
                                 \/ \E c \in Conns : ForwardData(cl, c) \/ ForwardEnd(cl, c)
    BY <1>4 DEF ClientBreaks, ClientGone, ForwardData, ForwardEnd
  <1> QED
    BY <1>1, <1>2, <1>3, <1>4 DEF Next, vars

\* A step that neither announces d nor opens one of its ends.
LEMMA OneKept ==
    ASSUME TypeOK, NEW d \in Conns, OneInv(d),
           writer'["provider"][d] \in {writer["provider"][d], ToProvider},
           buffer'["provider"][d] \in {buffer["provider"][d], <<>>},
           buffer'["visitor"][d] \in {buffer["visitor"][d], <<>>} \/ d \in stcpConns,
           Fewer(toClient[ToProvider], toClient'[ToProvider], d),
           Later(toServer[ToVisitor], toServer'[ToVisitor], d),
           VisitorEnd(d) # "absent"
             \/ (Absent(toServer[ToVisitor], d) => Absent(toServer'[ToVisitor], d)),
           VisitorEnd(d) = "absent" <=> VisitorEnd(d)' = "absent",
           ProviderEnd(d) = "absent" <=> ProviderEnd(d)' = "absent",
           dialing' = d => dialing = d,
           sent'["visitor"][d] = sent["visitor"][d] \/ VisitorEnd(d) # "absent",
           sent'["provider"][d] = sent["provider"][d] \/ ProviderEnd(d) # "absent",
           d \in stcpConns' => d \in stcpConns
    PROVE  OneInv(d)'
  <1>1. dialing' = d => dialing = d
    OBVIOUS
  <1>2. Fresh(d)' => Fresh(d)
    BY DEF Fresh, Later
  <1>3. /\ Announces(toClient'[ToProvider], d) => Announces(toClient[ToProvider], d)
        /\ Once(toClient'[ToProvider], d) /\ Leads(toServer'[ToVisitor], d)
    BY DEF OneInv, Fewer, Later
  <1>4. /\ writer'["provider"][d] \in {None, ToProvider}
        /\ buffer'["provider"][d] = <<>>
        /\ VisitorEnd(d)' = "absent" =>
              sent'["visitor"][d] = 0 /\ Absent(toServer'[ToVisitor], d)
        /\ ProviderEnd(d)' = "absent" => sent'["provider"][d] = 0
    BY DEF OneInv
  <1>5. /\ Announces(toClient'[ToProvider], d) => dialing' # d
        /\ Announces(toClient'[ToProvider], d) \/ dialing' = d => ProviderEnd(d)' = "absent"
    BY <1>1, <1>3 DEF OneInv
  <1>6. Fresh(d)' => /\ d \notin stcpConns' /\ buffer'["visitor"][d] = <<>>
                     /\ ~Announces(toClient'[ToProvider], d) /\ dialing' # d
                     /\ ProviderEnd(d)' = "absent"
    BY <1>1, <1>2, <1>3 DEF OneInv
  <1> QED
    BY <1>3, <1>4, <1>5, <1>6 DEF OneInv

\* What an action leaves of the queues and tables.
LEMMA ReadEffect ==
    ASSUME TypeOK, NEW v \in Writers, NEW m, FrpsReads(v, m)
    PROVE  /\ toServer[v] \in Seq(Msg) /\ toServer[v] # <<>> /\ m = Head(toServer[v]) /\ m \in Msg
           /\ \A w \in Writers : toServer'[w] = IF w = v THEN Tail(toServer[v]) ELSE toServer[w]
           /\ \A w \in Writers, d \in Conns :
                 /\ Later(toServer[w], toServer'[w], d)
                 /\ Absent(toServer[w], d) => Absent(toServer'[w], d)
                 /\ w # v \/ ~IsData(m, d) => SameFor(toServer[w], toServer'[w], d)
           /\ v[1] \in serving
  <1>1. /\ toServer[v] \in Seq(Msg) /\ toServer[v] # <<>> /\ m = Head(toServer[v]) /\ m \in Msg
        /\ v[1] \in serving
    <2>1. toServer[v] \in Seq(Msg) /\ toServer[v] # <<>> /\ m = Head(toServer[v]) /\ v[1] \in serving
      BY DEF TypeOK, FrpsReads
    <2> QED
      BY <2>1
  <1>2. \A w \in Writers : toServer'[w] = IF w = v THEN Tail(toServer[v]) ELSE toServer[w]
    BY DEF TypeOK, FrpsReads
  <1>3. ASSUME NEW w \in Writers, NEW d \in Conns
        PROVE  /\ Later(toServer[w], toServer'[w], d)
               /\ Absent(toServer[w], d) => Absent(toServer'[w], d)
               /\ w # v \/ ~IsData(m, d) => SameFor(toServer[w], toServer'[w], d)
    BY <1>1, <1>2, KeptSame, KeptTail, SameForSame, SameForTail
  <1> QED
    BY <1>1, <1>2, <1>3

LEMMA ClientReadEffect ==
    ASSUME TypeOK, NEW v \in Writers, NEW m, ClientReads(v, m)
    PROVE  /\ toClient[v] \in Seq(Msg) /\ toClient[v] # <<>> /\ m = Head(toClient[v]) /\ m \in Msg
           /\ \A w \in Writers : toClient'[w] = IF w = v THEN Tail(toClient[v]) ELSE toClient[w]
           /\ \A w \in Writers, d \in Conns :
                 /\ Fewer(toClient[w], toClient'[w], d)
                 /\ w # v \/ ~IsData(m, d) => SameFor(toClient[w], toClient'[w], d)
  <1>1. toClient[v] \in Seq(Msg) /\ toClient[v] # <<>> /\ m = Head(toClient[v]) /\ m \in Msg
    <2>1. toClient[v] \in Seq(Msg) /\ toClient[v] # <<>> /\ m = Head(toClient[v])
      BY DEF TypeOK, ClientReads
    <2> QED
      BY <2>1
  <1>2. \A w \in Writers : toClient'[w] = IF w = v THEN Tail(toClient[v]) ELSE toClient[w]
    BY DEF TypeOK, ClientReads
  <1>3. ASSUME NEW w \in Writers, NEW d \in Conns
        PROVE  /\ Fewer(toClient[w], toClient'[w], d)
               /\ w # v \/ ~IsData(m, d) => SameFor(toClient[w], toClient'[w], d)
    BY <1>1, <1>2, KeptSame, KeptTail, SameForSame, SameForTail
  <1> QED
    BY <1>1, <1>2, <1>3

\* Messages without an announcement of d, and without data of d.
LEMMA WriteEffect ==
    ASSUME TypeOK, NEW v \in Writers, NEW msgs \in Seq(Msg), NEW d
    PROVE  /\ \A w \in Writers :
                 Written(v, msgs)[w] = IF w = v /\ v[1] \in up THEN toClient[w] \o msgs ELSE toClient[w]
           /\ ~Announces(msgs, d) =>
                 \A w \in Writers : Fewer(toClient[w], Written(v, msgs)[w], d)
           /\ Silent(msgs, d) =>
                 \A w \in Writers : SameFor(toClient[w], Written(v, msgs)[w], d)
           /\ \A w \in Writers : w # v => SameFor(toClient[w], Written(v, msgs)[w], d)
  <1>1. ASSUME NEW w \in Writers
        PROVE  Written(v, msgs)[w] = IF w = v /\ v[1] \in up THEN toClient[w] \o msgs ELSE toClient[w]
    BY DEF TypeOK, Written
  <1>2. ASSUME NEW w \in Writers
        PROVE  /\ ~Announces(msgs, d) => Fewer(toClient[w], Written(v, msgs)[w], d)
               /\ Silent(msgs, d) => SameFor(toClient[w], Written(v, msgs)[w], d)
               /\ w # v => SameFor(toClient[w], Written(v, msgs)[w], d)
    <2>1. toClient[w] \in Seq(Msg)
      BY DEF TypeOK
    <2> QED
      BY <1>1, <2>1, KeptSame, FewerConcat, SameForSame, SameForConcat
  <1> QED
    BY <1>1, <1>2

LEMMA CloseEffect ==
    ASSUME TypeOK, NEW c \in Conns, CloseStcpConn(c)
    PROVE  /\ stcpConns' = stcpConns \ {c}
           /\ \A w \in Writers, d \in Conns :
                 Fewer(toClient[w], toClient'[w], d) /\ SameFor(toClient[w], toClient'[w], d)
  <1>1. stcpConns' = stcpConns \ {c}
    BY DEF CloseStcpConn
  <1>2. ASSUME NEW w \in Writers, NEW d \in Conns
        PROVE  Fewer(toClient[w], toClient'[w], d) /\ SameFor(toClient[w], toClient'[w], d)
    <2>1. /\ toClient[w] \in Seq(Msg) /\ Close(c) \in Msg /\ <<Close(c)>> \in Seq(Msg)
          /\ Append(toClient[w], Close(c)) = toClient[w] \o <<Close(c)>>
      <3>1. toClient[w] \in Seq(Msg) /\ Close(c) \in Msg
        BY Messages DEF TypeOK
      <3> QED
        BY <3>1, AppendIsConcat
    <2>2. ~Announces(<<Close(c)>>, d) /\ Silent(<<Close(c)>>, d)
      BY DEF Announces, Says, Silent, IsData, Close
    <2>3. toClient'[w] = toClient[w] \/ toClient'[w] = Append(toClient[w], Close(c))
      <3>1. CASE c \in stcpConns
        BY <3>1 DEF CloseStcpConn
      <3>2. CASE c \notin stcpConns
        BY <3>2 DEF CloseStcpConn
      <3> QED
        BY <3>1, <3>2
    <2> QED
      BY <2>1, <2>2, <2>3, KeptSame, FewerConcat, SameForSame, SameForConcat
  <1> QED
    BY <1>1, <1>2

LEMMA SendEffect ==
    ASSUME TypeOK, NEW v \in Writers, NEW m \in Msg, Send(v, m)
    PROVE  /\ \A w \in Writers : toServer'[w] = IF w = v THEN Append(toServer[v], m) ELSE toServer[w]
           /\ \A w \in Writers, d \in Conns :
                 /\ w # v \/ m # NewVisitor(d) => Later(toServer[w], toServer'[w], d)
                 /\ w # v \/ m.conn # d => (Absent(toServer[w], d) => Absent(toServer'[w], d))
                 /\ w # v \/ ~IsData(m, d) => SameFor(toServer[w], toServer'[w], d)
  <1>1. toServer[v] \in Seq(Msg)
    BY DEF TypeOK
  <1>2. \A w \in Writers : toServer'[w] = IF w = v THEN Append(toServer[v], m) ELSE toServer[w]
    BY DEF TypeOK, Send
  <1>3. ASSUME NEW w \in Writers, NEW d \in Conns
        PROVE  /\ w # v \/ m # NewVisitor(d) => Later(toServer[w], toServer'[w], d)
               /\ w # v \/ m.conn # d => (Absent(toServer[w], d) => Absent(toServer'[w], d))
               /\ w # v \/ ~IsData(m, d) => SameFor(toServer[w], toServer'[w], d)
    BY <1>1, <1>2, KeptSame, LaterAppend, SameForSame, SameForAppend
  <1> QED
    BY <1>2, <1>3

LEMMA OnceNew ==
    ASSUME NEW q \in Seq(Msg), NEW c \in Conns, ~Announces(q, c)
    PROVE  Once(q \o <<NewVisitor(c)>>, c)
  <1> DEFINE s == q \o <<NewVisitor(c)>>
             l == Len(q)
  <1>1. s = Append(q, NewVisitor(c)) /\ NewVisitor(c) \in Msg
    BY AppendIsConcat, Messages
  <1>2. Len(s) = l + 1 /\ l \in Nat /\ \A i \in 1..l : s[i] = q[i]
    BY <1>1, AppendProperties
  <1>3. \A i \in 1..l : q[i] # NewVisitor(c)
    BY AnnouncesIs
  <1> HIDE DEF s, l
  <1>4. \A i \in 1..(l + 1) : s[i] = NewVisitor(c) => i = l + 1
    BY <1>2, <1>3
  <1>5. Once(s, c)
    BY <1>2, <1>4 DEF Once
  <1> QED
    BY <1>5 DEF s

\* frps reads on its two control connections.
LEMMA OrderNewVisitor ==
    ASSUME TypeOK, OnControl, LinkInv, OrderInv, NEW c \in Conns, HandleStcpNewVisitor(c)
    PROVE  OrderInv'
  <1>0. FrpsReads(ToVisitor, NewVisitor(c))
    BY DEF HandleStcpNewVisitor, ToVisitor
  <1>1. /\ UNCHANGED <<mode, buffer, flushing, end, dialing, sent>>
        /\ UNCHANGED writer \/ writer' = [writer EXCEPT !["visitor"][c] = ToVisitor]
        /\ UNCHANGED stcpConns \/ stcpConns' = stcpConns \cup {c}
        /\ \/ UNCHANGED toClient
           \/ toClient' = Written(ToProvider, <<NewVisitor(c)>>)
           \/ toClient' = Written(ToVisitor, <<Close(c)>>)
    BY DEF HandleStcpNewVisitor, endVars, ToVisitor, ToProvider
  <1>2. \A d \in Conns : writer'["provider"][d] = writer["provider"][d]
    BY <1>1 DEF TypeOK, Clients
  <1>3. /\ <<NewVisitor(c)>> \in Seq(Msg) /\ <<Close(c)>> \in Seq(Msg)
        /\ \A d \in Conns : d # c => ~Announces(<<NewVisitor(c)>>, d)
        /\ \A d \in Conns : ~Announces(<<Close(c)>>, d)
    BY Messages DEF Announces, Says, NewVisitor, Close
  <1>4. /\ toClient'[ToProvider] = toClient[ToProvider]
           \/ toClient'[ToProvider] = toClient[ToProvider] \o <<NewVisitor(c)>>
        /\ \A d \in Conns : d # c => Fewer(toClient[ToProvider], toClient'[ToProvider], d)
    <2>1. CASE UNCHANGED toClient
      BY <2>1, KeptSame
    <2>2. CASE toClient' = Written(ToProvider, <<NewVisitor(c)>>)
      BY <1>3, <2>2, Control, WriteEffect
    <2>3. CASE toClient' = Written(ToVisitor, <<Close(c)>>)
      BY <1>3, <2>3, Control, WriteEffect, KeptSame
    <2> QED
      BY <1>1, <2>1, <2>2, <2>3
  <1>5. /\ toServer'[ToVisitor] = Tail(toServer[ToVisitor])
        /\ toServer[ToVisitor] # <<>> /\ Head(toServer[ToVisitor]) = NewVisitor(c)
        /\ \A d \in Conns : /\ Later(toServer[ToVisitor], toServer'[ToVisitor], d)
                            /\ Absent(toServer[ToVisitor], d) => Absent(toServer'[ToVisitor], d)
    BY <1>0, Control, ReadEffect
  <1>6. \A d \in Conns : VisitorEnd(d)' = VisitorEnd(d) /\ ProviderEnd(d)' = ProviderEnd(d)
    BY <1>1 DEF VisitorEnd, ProviderEnd
  <1>7. ASSUME NEW d \in Conns, d # c PROVE OneInv(d)'
    <2>1. OneInv(d) /\ (d \in stcpConns' => d \in stcpConns)
      BY <1>1, <1>7 DEF OrderInv
    <2> QED
      BY <1>1, <1>2, <1>4, <1>5, <1>6, <1>7, <2>1, OneKept
  <1>8. OneInv(c)'
    <2>1. OneInv(c)
      BY DEF OrderInv
    <2>2. toServer[ToVisitor] \in Seq(Msg) /\ toClient[ToProvider] \in Seq(Msg)
      BY Control
    <2>3. Announces(toServer[ToVisitor], c) /\ ~Announces(toServer'[ToVisitor], c)
      BY <1>5, <2>1, <2>2, KeptTail DEF OneInv
    <2>4. VisitorEnd(c) # "absent"
      BY <2>3 DEF LinkInv, Announces
    <2>5. ~Fresh(c)' /\ Fresh(c)
      BY <1>6, <2>3, <2>4 DEF Fresh
    <2>6. /\ ~Announces(toClient[ToProvider], c) /\ dialing # c /\ ProviderEnd(c) = "absent"
      BY <2>1, <2>5 DEF OneInv
    <2>7. Once(toClient'[ToProvider], c)
      BY <1>4, <2>1, <2>2, <2>6, OnceNew DEF OneInv
    <2>8. Leads(toServer'[ToVisitor], c)
      BY <1>5, <2>1 DEF OneInv, Later
    <2>9. /\ writer'["provider"][c] \in {None, ToProvider}
          /\ buffer'["provider"][c] = <<>>
          /\ ProviderEnd(c)' = "absent" => sent'["provider"][c] = 0
      BY <1>1, <1>2, <1>6, <2>1 DEF OneInv
    <2>10. dialing' # c /\ ProviderEnd(c)' = "absent" /\ VisitorEnd(c)' # "absent"
      BY <1>1, <1>6, <2>4, <2>6
    <2> QED
      BY <2>5, <2>7, <2>8, <2>9, <2>10 DEF OneInv
  <1>9. FlushInv'
    BY <1>1 DEF OrderInv, FlushInv
  <1> QED
    BY <1>7, <1>8, <1>9 DEF OrderInv

\* What leaves the ends alone and announces nothing.
Calm ==
    /\ UNCHANGED <<end, sent>> /\ dialing' \in {dialing, None}
    /\ stcpConns' \subseteq stcpConns
    /\ \A d \in Conns :
          /\ writer'["provider"][d] \in {writer["provider"][d], ToProvider}
          /\ buffer'["provider"][d] \in {buffer["provider"][d], <<>>}
          /\ buffer'["visitor"][d] \in {buffer["visitor"][d], <<>>} \/ d \in stcpConns
          /\ Fewer(toClient[ToProvider], toClient'[ToProvider], d)
          /\ Later(toServer[ToVisitor], toServer'[ToVisitor], d)
          /\ Absent(toServer[ToVisitor], d) => Absent(toServer'[ToVisitor], d)

LEMMA OrderCalm ==
    ASSUME TypeOK, OrderInv, Calm
    PROVE  \A d \in Conns : OneInv(d)'
  <1> SUFFICES ASSUME NEW d \in Conns PROVE OneInv(d)'
    OBVIOUS
  <1>1. OneInv(d)
    BY DEF OrderInv
  <1>2. /\ VisitorEnd(d)' = VisitorEnd(d) /\ ProviderEnd(d)' = ProviderEnd(d)
        /\ sent'["visitor"][d] = sent["visitor"][d] /\ sent'["provider"][d] = sent["provider"][d]
        /\ (dialing' = d => dialing = d) /\ (d \in stcpConns' => d \in stcpConns)
    BY ConstantsAssumption DEF Calm, VisitorEnd, ProviderEnd
  <1>3. /\ writer'["provider"][d] \in {writer["provider"][d], ToProvider}
        /\ buffer'["provider"][d] \in {buffer["provider"][d], <<>>}
        /\ buffer'["visitor"][d] \in {buffer["visitor"][d], <<>>} \/ d \in stcpConns
        /\ Fewer(toClient[ToProvider], toClient'[ToProvider], d)
        /\ Later(toServer[ToVisitor], toServer'[ToVisitor], d)
        /\ Absent(toServer[ToVisitor], d) => Absent(toServer'[ToVisitor], d)
    BY DEF Calm
  <1> QED
    BY <1>1, <1>2, <1>3, OneKept

\* The side a message is from, and where it goes.
LEMMA DataFrom ==
    ASSUME TypeOK, OnControl, LinkInv, OrderInv, NEW w \in Links, NEW c \in Conns,
           NEW s \in Seq(Nat), NEW side \in Clients, NEW to, StcpData(w, c, s, side, to)
    PROVE  /\ c \in stcpConns /\ FrpsReads(w, Data(c, s))
           /\ \/ side = "provider" /\ w = ToProvider /\ to = ToVisitor
              \/ side = "visitor" /\ w = ToVisitor /\ to \in {None, ToProvider}
           /\ to = writer[Other(side)][c]
           /\ \A d \in Conns : writer'["provider"][d] \in {writer["provider"][d], ToProvider}
  <1>1. /\ c \in stcpConns /\ FrpsReads(w, Data(c, s)) /\ side = Side(c, w)
        /\ to = writer[Other(side)][c]
        /\ writer' = IF side = "provider" THEN [writer EXCEPT ![side][c] = w] ELSE writer
    BY DEF StcpData
  <1>2. writer["visitor"][c] = ToVisitor /\ writer["provider"][c] \in {None, ToProvider}
    BY <1>1 DEF LinkInv, OrderInv, OneInv
  <1>3. /\ w \in {ToProvider, ToVisitor} /\ ToProvider # ToVisitor
        /\ ToVisitor # None /\ ToProvider # None
    BY Control
  <1>4. w = ToProvider => side = "provider"
    BY <1>1, <1>2, <1>3 DEF Side
  <1>5. w = ToVisitor => side = "visitor"
    BY <1>1, <1>2, <1>3 DEF Side
  <1>6. Other("provider") = "visitor" /\ Other("visitor") = "provider"
    BY DEF Other
  <1>7. \/ side = "provider" /\ w = ToProvider /\ to = ToVisitor
        \/ side = "visitor" /\ w = ToVisitor /\ to \in {None, ToProvider}
    BY <1>1, <1>2, <1>3, <1>4, <1>5, <1>6
  <1>8. \A d \in Conns : writer'["provider"][d] \in {writer["provider"][d], ToProvider}
    <2>1. UNCHANGED writer \/ writer' = [writer EXCEPT !["provider"][c] = ToProvider]
      BY <1>1, <1>7
    <2> QED
      BY <2>1 DEF TypeOK, Clients
  <1> QED
    BY <1>1, <1>7, <1>8

\* Setting one entry of a table of both sides.
LEMMA BufferSet ==
    ASSUME TypeOK, NEW cl \in Clients, NEW c \in Conns, NEW x,
           buffer' = [buffer EXCEPT ![cl][c] = x]
    PROVE  \A k \in {"provider", "visitor"}, d \in Conns :
              buffer'[k][d] = IF k = cl /\ d = c THEN x ELSE buffer[k][d]
  <1>1. buffer \in [Clients -> [Conns -> Seq(Nat)]]
    BY DEF TypeOK
  <1>2. \A k \in Clients, d \in Conns : buffer'[k][d] = IF k = cl /\ d = c THEN x ELSE buffer[k][d]
    BY <1>1
  <1> QED
    BY <1>2 DEF Clients

\* Data announces nothing, and is silent about the other connections.
LEMMA DataMessages ==
    ASSUME NEW c \in Conns, NEW s \in Seq(Nat), NEW t \in Seq(Nat)
    PROVE  /\ Data(c, s) \in Msg /\ Data(c, t) \in Msg
           /\ <<Data(c, s)>> \in Seq(Msg) /\ <<Data(c, t)>> \in Seq(Msg)
           /\ <<Data(c, s), Data(c, t)>> \in Seq(Msg)
           /\ \A d : ~Announces(<<Data(c, s)>>, d) /\ ~Announces(<<Data(c, s), Data(c, t)>>, d)
           /\ \A d : d # c => Silent(<<Data(c, s)>>, d) /\ Silent(<<Data(c, s), Data(c, t)>>, d)
  <1>1. /\ Data(c, s) \in Msg /\ Data(c, t) \in Msg
        /\ Data(c, s).type = "data" /\ Data(c, t).type = "data"
        /\ Data(c, s).conn = c /\ Data(c, t).conn = c
    BY Messages DEF Data
  <1> DEFINE x == Data(c, s)
             y == Data(c, t)
  <1> HIDE DEF x, y
  <1>2. /\ <<x>> \in Seq(Msg) /\ <<y>> \in Seq(Msg) /\ <<x, y>> \in Seq(Msg)
        /\ Len(<<x>>) = 1 /\ Len(<<x, y>>) = 2
        /\ <<x>>[1] = x /\ <<x, y>>[1] = x /\ <<x, y>>[2] = y
    BY <1>1 DEF x, y
  <1>3. (\A i \in 1..1 : i = 1) /\ (\A i \in 1..2 : i = 1 \/ i = 2)
    OBVIOUS
  <1>4. \A d : ~Announces(<<x>>, d) /\ ~Announces(<<x, y>>, d)
    BY <1>1, <1>2, <1>3 DEF Announces, Says, x, y
  <1>5. \A d : d # c => Silent(<<x>>, d) /\ Silent(<<x, y>>, d)
    BY <1>1, <1>2, <1>3 DEF Silent, IsData, x, y
  <1> QED
    BY <1>1, <1>2, <1>4, <1>5 DEF x, y

LEMMA CalmQueues ==
    ASSUME TypeOK, OnControl,
           \/ UNCHANGED toClient
           \/ \E c \in Conns, s \in Seq(Nat), t \in Seq(Nat), v \in Writers :
                 toClient' \in {Written(v, <<Data(c, s)>>), Written(v, <<Data(c, s), Data(c, t)>>)}
           \/ \E c \in Conns : CloseStcpConn(c)
           \/ \E v \in Writers : \E m : ClientReads(v, m)
    PROVE  \A d \in Conns : Fewer(toClient[ToProvider], toClient'[ToProvider], d)
  <1>1. CASE UNCHANGED toClient
    BY <1>1, KeptSame
  <1>2. ASSUME NEW c \in Conns, NEW s \in Seq(Nat), NEW t \in Seq(Nat), NEW v \in Writers,
               toClient' \in {Written(v, <<Data(c, s)>>), Written(v, <<Data(c, s), Data(c, t)>>)}
        PROVE  \A d \in Conns : Fewer(toClient[ToProvider], toClient'[ToProvider], d)
    BY <1>2, DataMessages, WriteEffect, Control
  <1>3. ASSUME NEW c \in Conns, CloseStcpConn(c)
        PROVE  \A d \in Conns : Fewer(toClient[ToProvider], toClient'[ToProvider], d)
    BY <1>3, CloseEffect, Control
  <1>4. ASSUME NEW v \in Writers, NEW m, ClientReads(v, m)
        PROVE  \A d \in Conns : Fewer(toClient[ToProvider], toClient'[ToProvider], d)
    BY <1>4, ClientReadEffect, Control
  <1> QED
    BY <1>1, <1>2, <1>3, <1>4

LEMMA OrderReady ==
    ASSUME TypeOK, OnControl, LinkInv, OrderInv, NEW c \in Conns, HandleStcpVisitorReady(c)
    PROVE  OrderInv'
  <1>0. /\ FrpsReads(ToProvider, Ready(c)) /\ buffer["visitor"][c] \in Seq(Nat)
        /\ UNCHANGED <<mode, stcpConns, end, sent, dialing>>
        /\ UNCHANGED writer \/ writer' = [writer EXCEPT !["provider"][c] = ToProvider]
        /\ UNCHANGED buffer \/ buffer' = [buffer EXCEPT !["visitor"][c] = <<>>]
        /\ UNCHANGED toClient \/ toClient' = Written(ToProvider, <<Data(c, buffer["visitor"][c])>>)
        /\ \/ UNCHANGED flushing
           \/ mode.pauses /\ flushing' = [flushing EXCEPT ![ToProvider] =
                      [conn |-> c, side |-> "visitor", to |-> ToProvider, rest |-> <<>>]]
    BY DEF HandleStcpVisitorReady, endVars, ToProvider, TypeOK, Clients
  <1>1. \A d \in Conns : Fewer(toClient[ToProvider], toClient'[ToProvider], d)
    <2>1. ToProvider \in Writers
      BY Control
    <2> QED
      BY <1>0, <2>1, CalmQueues
  <1>2. \A d \in Conns : /\ writer'["provider"][d] \in {writer["provider"][d], ToProvider}
                         /\ buffer'["provider"][d] = buffer["provider"][d]
                         /\ buffer'["visitor"][d] \in {buffer["visitor"][d], <<>>}
    <2>1. \A d \in Conns : writer'["provider"][d] \in {writer["provider"][d], ToProvider}
      <3>1. CASE UNCHANGED writer
        BY <3>1
      <3>2. CASE writer' = [writer EXCEPT !["provider"][c] = ToProvider]
        <4>1. writer \in [Clients -> [Conns -> Writers \cup {None}]] /\ "provider" \in Clients
          BY DEF TypeOK, Clients
        <4> QED
          BY <3>2, <4>1
      <3> QED
        BY <1>0, <3>1, <3>2
    <2>2. "visitor" \in Clients
      BY DEF Clients
    <2>3. \A d \in Conns : /\ buffer'["provider"][d] = buffer["provider"][d]
                           /\ buffer'["visitor"][d] \in {buffer["visitor"][d], <<>>}
      <3>1. CASE buffer' = [buffer EXCEPT !["visitor"][c] = <<>>]
        BY <2>2, <3>1, BufferSet
      <3> QED
        BY <1>0, <3>1
    <2> QED
      BY <2>1, <2>3
  <1>3. \A d \in Conns : /\ Later(toServer[ToVisitor], toServer'[ToVisitor], d)
                         /\ Absent(toServer[ToVisitor], d) => Absent(toServer'[ToVisitor], d)
    BY <1>0, Control, ReadEffect
  <1>4. Calm
    BY <1>0, <1>1, <1>2, <1>3 DEF Calm
  <1>5. FlushInv'
    BY <1>0 DEF OrderInv, FlushInv, TypeOK
  <1> QED
    BY <1>4, <1>5, OrderCalm DEF OrderInv

LEMMA OrderRelay ==
    ASSUME TypeOK, OnControl, LinkInv, OrderInv, NEW w \in Links, NEW c \in Conns,
           NEW s \in Seq(Nat), NEW side \in Clients, NEW to,
           \/ RelayData(w, c, s, side, to) \/ RelayFails(w, c, s, side, to)
           \/ BufferData(w, c, s, side) /\ to = None
    PROVE  OrderInv'
  <1>1. StcpData(w, c, s, side, to)
    BY DEF RelayData, RelayFails, BufferData
  <1>2. /\ c \in stcpConns /\ FrpsReads(w, Data(c, s)) /\ w \in Writers
        /\ \/ side = "provider" /\ to = ToVisitor
           \/ side = "visitor" /\ to \in {None, ToProvider}
        /\ \A d \in Conns : writer'["provider"][d] \in {writer["provider"][d], ToProvider}
    BY <1>1, DataFrom, WriterType
  <1>3. \A d \in Conns : /\ Later(toServer[ToVisitor], toServer'[ToVisitor], d)
                         /\ Absent(toServer[ToVisitor], d) => Absent(toServer'[ToVisitor], d)
    BY <1>2, Control, ReadEffect
  <1>4. UNCHANGED <<mode, end, sent, dialing>> /\ stcpConns' \subseteq stcpConns
    BY DEF RelayData, RelayFails, BufferData, CloseStcpConn, endVars
  <1>5. /\ buffer[side][c] \in Seq(Nat) /\ buffer["provider"][c] = <<>> /\ side \in Clients
        /\ side = "provider" => to # None
        /\ RelayData(w, c, s, side, to) \/ RelayFails(w, c, s, side, to) => to # None
    <2>1. buffer["provider"][c] = <<>> /\ buffer[side][c] \in Seq(Nat)
      BY DEF OrderInv, OneInv, TypeOK
    <2>2. ToVisitor # None
      BY Control
    <2>3. RelayData(w, c, s, side, to) \/ RelayFails(w, c, s, side, to) => to # None
      BY DEF RelayData, RelayFails
    <2> QED
      BY <1>2, <2>1, <2>2, <2>3
  <1>6. \A d \in Conns : Fewer(toClient[ToProvider], toClient'[ToProvider], d)
    <2>1. CASE RelayData(w, c, s, side, to)
      <3>1. to \in Writers
        BY <1>2, <1>5, <2>1, Control
      <3>2. toClient' \in {Written(to, <<Data(c, s)>>), Written(to, <<Data(c, buffer[side][c])>>),
                           Written(to, <<Data(c, buffer[side][c]), Data(c, s)>>)}
        BY <2>1 DEF RelayData
      <3> QED
        BY <1>5, <3>1, <3>2, CalmQueues
    <2>2. CASE RelayFails(w, c, s, side, to)
      BY <2>2, CalmQueues DEF RelayFails
    <2>3. CASE BufferData(w, c, s, side)
      BY <2>3, CalmQueues DEF BufferData
    <2> QED
      BY <2>1, <2>2, <2>3
  <1>7. \A d \in Conns : /\ buffer'["provider"][d] \in {buffer["provider"][d], <<>>}
                         /\ buffer'["visitor"][d] \in {buffer["visitor"][d], <<>>} \/ d \in stcpConns
    <2>1. CASE BufferData(w, c, s, side) /\ to = None
      <3>1. side = "visitor" /\ buffer' = [buffer EXCEPT !["visitor"][c] = buffer["visitor"][c] \o s]
        BY <1>2, <1>5, <2>1 DEF BufferData, TypeOK, Clients
      <3> QED
        BY <1>2, <3>1, BufferSet DEF Clients
    <2>2. CASE UNCHANGED buffer
      BY <2>2
    <2>3. CASE buffer' = [buffer EXCEPT ![side][c] = <<>>]
      BY <2>3, BufferSet
    <2> QED
      BY <2>1, <2>2, <2>3 DEF RelayData, RelayFails
  <1>8. Calm
    BY <1>2, <1>3, <1>4, <1>6, <1>7 DEF Calm
  <1>9. FlushInv'
    <2>1. \/ UNCHANGED flushing
          \/ /\ mode.pauses /\ buffer[side][c] # <<>> /\ RelayData(w, c, s, side, to)
             /\ flushing' = [flushing EXCEPT ![w] =
                   [conn |-> c, side |-> side, to |-> to, rest |-> s]]
      BY DEF RelayData, RelayFails, BufferData
    <2>2. buffer[side][c] # <<>> /\ RelayData(w, c, s, side, to) => side = "visitor" /\ to = ToProvider
      <3>1. buffer[side][c] # <<>> => side # "provider"
        BY <1>5
      <3> QED
        BY <1>2, <1>5, <3>1
    <2> QED
      BY <1>4, <2>1, <2>2 DEF OrderInv, FlushInv, TypeOK
  <1> QED
    BY <1>8, <1>9, OrderCalm DEF OrderInv

LEMMA OrderFlush ==
    ASSUME TypeOK, OnControl, LinkInv, OrderInv, NEW w \in Writers, FlushDone(w)
    PROVE  OrderInv'
  <1> DEFINE f == flushing[w]
  <1>1. /\ f # None /\ f \in Flush /\ f.side = "visitor" /\ f.to = ToProvider
        /\ f.conn \in Conns /\ f.rest \in Seq(Nat)
    <2>1. f # None /\ f \in Flush
      BY DEF FlushDone, TypeOK
    <2> QED
      BY <2>1 DEF OrderInv, FlushInv, Flush
  <1>2. /\ flushing' = [flushing EXCEPT ![w] = None]
        /\ UNCHANGED <<mode, writer, end, sent, dialing, toServer>>
        /\ \/ /\ buffer' = [buffer EXCEPT !["visitor"][f.conn] = <<>>]
              /\ UNCHANGED toClient \/ toClient' = Written(ToProvider, <<Data(f.conn, f.rest)>>)
              /\ UNCHANGED stcpConns
           \/ CloseStcpConn(f.conn) /\ UNCHANGED buffer
    BY <1>1 DEF FlushDone, endVars
  <1> HIDE DEF f
  <1>3. \A d \in Conns : Fewer(toClient[ToProvider], toClient'[ToProvider], d)
    BY <1>1, <1>2, Control, CalmQueues
  <1>4. \A d \in Conns : /\ Later(toServer[ToVisitor], toServer'[ToVisitor], d)
                         /\ Absent(toServer[ToVisitor], d) => Absent(toServer'[ToVisitor], d)
    BY <1>2, KeptSame
  <1>5. \A d \in Conns : /\ buffer'["provider"][d] = buffer["provider"][d]
                         /\ buffer'["visitor"][d] \in {buffer["visitor"][d], <<>>}
    BY <1>2 DEF TypeOK, Clients
  <1>6. stcpConns' \subseteq stcpConns
    BY <1>2 DEF CloseStcpConn
  <1>7. Calm
    BY <1>2, <1>3, <1>4, <1>5, <1>6 DEF Calm
  <1>8. FlushInv'
    BY <1>2 DEF OrderInv, FlushInv, TypeOK
  <1> QED
    BY <1>7, <1>8, OrderCalm DEF OrderInv

LEMMA OrderFrps ==
    ASSUME TypeOK, OnControl, LinkInv, OrderInv, NEW w \in Links, FrpsTask(w)
    PROVE  OrderInv'
  <1>1. w \in Writers
    BY WriterType
  <1>2. ASSUME NEW c \in Conns, HandleClose(w, c) PROVE OrderInv'
    <2>1. /\ FrpsReads(w, Close(c)) /\ CloseStcpConn(c)
          /\ UNCHANGED <<mode, writer, buffer, flushing, end, sent, dialing>>
      BY <1>2 DEF HandleClose, endVars
    <2>2. stcpConns' \subseteq stcpConns
      BY <2>1 DEF CloseStcpConn
    <2>3. \A d \in Conns : Fewer(toClient[ToProvider], toClient'[ToProvider], d)
      BY <2>1, CalmQueues
    <2>4. \A d \in Conns : /\ Later(toServer[ToVisitor], toServer'[ToVisitor], d)
                           /\ Absent(toServer[ToVisitor], d) => Absent(toServer'[ToVisitor], d)
      BY <1>1, <2>1, Control, ReadEffect
    <2>5. Calm
      BY <2>1, <2>2, <2>3, <2>4 DEF Calm
    <2>6. FlushInv'
      BY <2>1 DEF OrderInv, FlushInv
    <2> QED
      BY <2>5, <2>6, OrderCalm DEF OrderInv
  <1>3. ASSUME NEW c \in Conns, NEW s, DropData(w, c, s) PROVE OrderInv'
    <2>1. /\ FrpsReads(w, Data(c, s))
          /\ UNCHANGED <<mode, writer, buffer, flushing, stcpConns, end, sent, dialing, toClient>>
      BY <1>3 DEF DropData, endVars, frpsVars
    <2>2. \A d \in Conns : /\ Later(toServer[ToVisitor], toServer'[ToVisitor], d)
                           /\ Absent(toServer[ToVisitor], d) => Absent(toServer'[ToVisitor], d)
      BY <1>1, <2>1, Control, ReadEffect
    <2>3. Calm
      BY <2>1, <2>2, KeptSame DEF Calm
    <2>4. FlushInv'
      BY <2>1 DEF OrderInv, FlushInv
    <2> QED
      BY <2>3, <2>4, OrderCalm DEF OrderInv
  <1>4. ASSUME NEW c \in Conns, NEW s \in Payload, HandleData(w, c, s) PROVE OrderInv'
    <2>1. s \in Seq(Nat)
      BY PayloadType
    <2>2. CASE DropData(w, c, s)
      BY <1>3, <2>2
    <2>3. ASSUME NEW side \in Clients, BufferData(w, c, s, side) PROVE OrderInv'
      <3> DEFINE to == None
      <3> QED
        BY <2>1, <2>3, OrderRelay
    <2>4. ASSUME NEW side \in Clients, NEW to \in Writers,
                 RelayData(w, c, s, side, to) \/ RelayFails(w, c, s, side, to)
          PROVE  OrderInv'
      BY <2>1, <2>4, OrderRelay
    <2> QED
      BY <1>4, <2>2, <2>3, <2>4 DEF HandleData
  <1> QED
    BY <1>1, <1>2, <1>4, OrderFlush, OrderNewVisitor, OrderReady DEF FrpsTask

LEMMA ClosesKind ==
    ASSUME NEW cs \in SUBSET Conns, NEW q \in Closes(cs)
    PROVE  q \in Seq(Msg) /\ \A d : ~Announces(q, d) /\ Silent(q, d)
  <1>1. q \in Seq(Msg)
    BY ClosesType
  <1>2. PICK order \in SetToSeqs(cs) : q = [i \in DOMAIN order |-> Close(order[i])]
    BY DEF Closes
  <1>3. \A i \in DOMAIN q : q[i].type = "close"
    BY <1>2 DEF Close
  <1>4. DOMAIN q = 1..Len(q)
    BY <1>1
  <1> QED
    BY <1>1, <1>3, <1>4 DEF Announces, Says, Silent, IsData

\* A client's end, seen by what it leaves in the queues.
LEMMA GoneEffect ==
    ASSUME TypeOK, NEW cl \in Clients, ClientGone(cl)
    PROVE  /\ UNCHANGED <<mode, up, writer, buffer, end, sent, got, dialing>>
           /\ serving' = serving \ {cl} /\ stcpConns' \subseteq stcpConns /\ cl \notin up
           /\ \A w \in Writers : flushing'[w] = IF w[1] = cl THEN None ELSE flushing[w]
           /\ \A w \in Writers : toServer'[w] = IF w[1] = cl THEN <<>> ELSE toServer[w]
           /\ \A w \in Writers, d \in Conns :
                 Fewer(toClient[w], toClient'[w], d) /\ SameFor(toClient[w], toClient'[w], d)
  <1> DEFINE closed == IF cl = "provider" /\ ~mode.session THEN stcpConns ELSE {}
             told(w) == {c \in closed : w[1] \in up /\ \E side \in Clients : writer[side][c] = w}
  <1>1. PICK closes : /\ \A w \in Writers : closes[w] \in Closes(told(w))
                      /\ toClient' = [w \in Writers |-> toClient[w] \o closes[w]]
    BY DEF ClientGone
  <1>2. \A w \in Writers : told(w) \subseteq Conns
    BY DEF TypeOK
  <1> HIDE DEF told
  <1>3. ASSUME NEW w \in Writers, NEW d \in Conns
        PROVE  Fewer(toClient[w], toClient'[w], d) /\ SameFor(toClient[w], toClient'[w], d)
    <2>1. closes[w] \in Seq(Msg) /\ ~Announces(closes[w], d) /\ Silent(closes[w], d)
      <3> DEFINE cs == told(w)
      <3>1. cs \in SUBSET Conns /\ closes[w] \in Closes(cs)
        BY <1>1, <1>2
      <3> HIDE DEF cs
      <3> QED
        BY <3>1, ClosesKind
    <2>2. toClient[w] \in Seq(Msg) /\ toClient'[w] = toClient[w] \o closes[w]
      BY <1>1 DEF TypeOK
    <2> QED
      BY <2>1, <2>2, FewerConcat, SameForConcat
  <1> QED
    BY <1>3 DEF ClientGone, endVars

\* The client's ends of the connections.
LEMMA OrderEnds ==
    ASSUME TypeOK, OnControl, LinkInv, OrderInv, NEW cl \in Clients,
           ClientBreaks(cl) \/ ClientGone(cl)
    PROVE  OrderInv'
  <1>0. Writers # {} /\ ToProvider \in Writers /\ ToVisitor \in Writers
    BY Control
  <1>1. CASE ClientBreaks(cl)
    <2>1. /\ UNCHANGED <<mode, writer, buffer, flushing, stcpConns, end, sent, dialing, toServer>>
          /\ toClient' = [w \in Writers |-> IF w[1] = cl THEN <<>> ELSE toClient[w]]
      BY <1>1 DEF ClientBreaks, endVars, frpsVars
    <2>2. Calm
      BY <1>0, <2>1, KeptSame, KeptEmpty DEF Calm
    <2>3. FlushInv'
      BY <2>1 DEF OrderInv, FlushInv
    <2> QED
      BY <2>2, <2>3, OrderCalm DEF OrderInv
  <1>2. CASE ClientGone(cl)
    <2>1. /\ UNCHANGED <<mode, writer, buffer, end, sent, dialing>> /\ stcpConns' \subseteq stcpConns
          /\ \A w \in Writers : flushing'[w] = IF w[1] = cl THEN None ELSE flushing[w]
          /\ \A d \in Conns : Fewer(toClient[ToProvider], toClient'[ToProvider], d)
          /\ toServer'[ToVisitor] \in {toServer[ToVisitor], <<>>}
      BY <1>0, <1>2, GoneEffect
    <2>2. Calm
      BY <2>1, KeptSame, KeptEmpty DEF Calm
    <2>3. FlushInv'
      BY <2>1 DEF OrderInv, FlushInv
    <2> QED
      BY <2>2, <2>3, OrderCalm DEF OrderInv
  <1> QED
    BY <1>1, <1>2

\* The table of ends.
LEMMA EndSet ==
    ASSUME TypeOK, NEW cl \in Clients, NEW c \in Conns, NEW x, end' = [end EXCEPT ![cl][c] = x]
    PROVE  \A d \in Conns :
              /\ VisitorEnd(d)' = IF cl = "visitor" /\ d = c THEN x ELSE VisitorEnd(d)
              /\ ProviderEnd(d)' = IF cl = "provider" /\ d = c THEN x ELSE ProviderEnd(d)
  <1>1. /\ end \in [Clients -> [Conns -> {"absent", "open", "closed"}]]
        /\ "visitor" \in Clients /\ "provider" \in Clients
    BY DEF TypeOK, Clients
  <1>2. \A k \in Clients, d \in Conns : end'[k][d] = IF k = cl /\ d = c THEN x ELSE end[k][d]
    BY <1>1
  <1> QED
    BY <1>1, <1>2 DEF VisitorEnd, ProviderEnd

LEMMA OrderUser ==
    ASSUME TypeOK, OnControl, LinkInv, OrderInv, NEW c \in Conns, UserConnect(c)
    PROVE  OrderInv'
  <1>1. /\ UNCHANGED <<mode, stcpConns, writer, buffer, flushing, dialing, sent, toClient>>
        /\ VisitorEnd(c) = "absent"
        /\ end' = [end EXCEPT !["visitor"][c] = "open"]
        /\ Send(ToVisitor, NewVisitor(c)) /\ NewVisitor(c) \in Msg
    BY Messages DEF UserConnect, frpsVars, ToVisitor, VisitorEnd
  <1>2. \A d \in Conns : /\ VisitorEnd(d)' = IF d = c THEN "open" ELSE VisitorEnd(d)
                         /\ ProviderEnd(d)' = ProviderEnd(d)
    BY <1>1, EndSet DEF Clients
  <1>3. /\ toServer'[ToVisitor] = Append(toServer[ToVisitor], NewVisitor(c))
        /\ \A d \in Conns : d # c => /\ Later(toServer[ToVisitor], toServer'[ToVisitor], d)
                                     /\ Absent(toServer[ToVisitor], d) => Absent(toServer'[ToVisitor], d)
    <2>1. \A d \in Conns : d # c => NewVisitor(c) # NewVisitor(d) /\ NewVisitor(c).conn # d
      BY DEF NewVisitor
    <2>2. ToVisitor \in Writers
      BY Control
    <2> QED
      BY <1>1, <2>1, <2>2, SendEffect
  <1>4. ASSUME NEW d \in Conns, d # c PROVE OneInv(d)'
    <2>1. OneInv(d)
      BY DEF OrderInv
    <2> QED
      BY <1>1, <1>2, <1>3, <1>4, <2>1, KeptSame, OneKept
  <1>5. OneInv(c)'
    <2>1. OneInv(c) /\ Fresh(c)
      BY <1>1 DEF OrderInv, Fresh
    <2>2. /\ writer'["provider"][c] \in {None, ToProvider} /\ buffer'["provider"][c] = <<>>
          /\ VisitorEnd(c)' # "absent"
          /\ ProviderEnd(c)' = "absent" => sent'["provider"][c] = 0
          /\ Once(toClient'[ToProvider], c)
      BY <1>1, <1>2, <2>1 DEF OneInv
    <2>3. Leads(toServer'[ToVisitor], c)
      <3>1. Absent(toServer[ToVisitor], c) /\ toServer[ToVisitor] \in Seq(Msg)
        BY <1>1, <2>1, Control DEF OneInv
      <3> QED
        BY <1>1, <1>3, <3>1, LaterAppend
    <2>4. /\ c \notin stcpConns' /\ buffer'["visitor"][c] = <<>>
          /\ ~Announces(toClient'[ToProvider], c) /\ dialing' # c
          /\ ProviderEnd(c)' = "absent"
      BY <1>1, <1>2, <2>1 DEF OneInv
    <2> QED
      BY <2>2, <2>3, <2>4 DEF OneInv
  <1>6. FlushInv'
    BY <1>1 DEF OrderInv, FlushInv
  <1> QED
    BY <1>4, <1>5, <1>6 DEF OrderInv

\* The provider dials, and its service answers.
LEMMA OrderDials ==
    ASSUME TypeOK, OnControl, LinkInv, OrderInv, NEW c \in Conns, ProviderDials(c)
    PROVE  OrderInv'
  <1>1. /\ UNCHANGED <<mode, stcpConns, writer, buffer, flushing, end, sent, toServer>>
        /\ dialing' = c /\ ClientReads(ToProvider, NewVisitor(c))
    BY DEF ProviderDials, frpsVars, ToProvider
  <1>2. \A d \in Conns : VisitorEnd(d)' = VisitorEnd(d) /\ ProviderEnd(d)' = ProviderEnd(d)
    BY <1>1 DEF VisitorEnd, ProviderEnd
  <1>3. /\ toClient[ToProvider] \in Seq(Msg) /\ toClient[ToProvider] # <<>>
        /\ Head(toClient[ToProvider]) = NewVisitor(c)
        /\ toClient'[ToProvider] = Tail(toClient[ToProvider])
        /\ \A d \in Conns : Fewer(toClient[ToProvider], toClient'[ToProvider], d)
    BY <1>1, Control, ClientReadEffect
  <1>4. ASSUME NEW d \in Conns, d # c PROVE OneInv(d)'
    <2>1. OneInv(d)
      BY DEF OrderInv
    <2> QED
      BY <1>1, <1>2, <1>3, <1>4, <2>1, KeptSame, OneKept
  <1>5. OneInv(c)'
    <2>1. OneInv(c)
      BY DEF OrderInv
    <2>2. /\ Announces(toClient[ToProvider], c) /\ ~Announces(toClient'[ToProvider], c)
          /\ Once(toClient'[ToProvider], c)
      BY <1>3, <2>1, KeptTail DEF OneInv, Fewer
    <2>3. ~Fresh(c) /\ ~Fresh(c)' /\ ProviderEnd(c)' = "absent"
      BY <1>1, <1>2, <2>1, <2>2 DEF OneInv, Fresh
    <2>4. /\ writer'["provider"][c] \in {None, ToProvider} /\ buffer'["provider"][c] = <<>>
          /\ VisitorEnd(c)' = "absent" =>
                sent'["visitor"][c] = 0 /\ Absent(toServer'[ToVisitor], c)
          /\ ProviderEnd(c)' = "absent" => sent'["provider"][c] = 0
          /\ Leads(toServer'[ToVisitor], c)
      BY <1>1, <1>2, <2>1 DEF OneInv
    <2> QED
      BY <2>2, <2>3, <2>4 DEF OneInv
  <1>6. FlushInv'
    BY <1>1 DEF OrderInv, FlushInv
  <1> QED
    BY <1>4, <1>5, <1>6 DEF OrderInv

LEMMA OrderDialled ==
    ASSUME TypeOK, OnControl, LinkInv, OrderInv, NEW c \in Conns, DialSucceeds(c)
    PROVE  OrderInv'
  <1>1. /\ UNCHANGED <<mode, stcpConns, writer, buffer, flushing, sent, toClient>>
        /\ dialing = c /\ dialing' = None
        /\ end' = [end EXCEPT !["provider"][c] = "open"]
        /\ Send(ToProvider, Ready(c)) /\ Ready(c) \in Msg
    BY Messages DEF DialSucceeds, frpsVars, ToProvider
  <1>2. \A d \in Conns : /\ ProviderEnd(d)' = IF d = c THEN "open" ELSE ProviderEnd(d)
                         /\ VisitorEnd(d)' = VisitorEnd(d)
    BY <1>1, EndSet DEF Clients
  <1>3. toServer'[ToVisitor] = toServer[ToVisitor]
    BY <1>1, Control, SendEffect
  <1>4. ASSUME NEW d \in Conns, d # c PROVE OneInv(d)'
    <2>1. OneInv(d) /\ dialing' # d
      BY <1>1, ConstantsAssumption DEF OrderInv
    <2> QED
      BY <1>1, <1>2, <1>3, <1>4, <2>1, KeptSame, OneKept
  <1>5. OneInv(c)'
    <2>1. OneInv(c)
      BY DEF OrderInv
    <2>2. ~Announces(toClient'[ToProvider], c) /\ dialing' # c /\ ~Fresh(c)'
      BY <1>1, <1>2, <1>3, <2>1, ConstantsAssumption DEF OneInv, Fresh
    <2>3. /\ writer'["provider"][c] \in {None, ToProvider} /\ buffer'["provider"][c] = <<>>
          /\ VisitorEnd(c)' = "absent" =>
                sent'["visitor"][c] = 0 /\ Absent(toServer'[ToVisitor], c)
          /\ ProviderEnd(c)' # "absent"
          /\ Leads(toServer'[ToVisitor], c) /\ Once(toClient'[ToProvider], c)
      BY <1>1, <1>2, <1>3, <2>1 DEF OneInv
    <2> QED
      BY <2>2, <2>3 DEF OneInv
  <1>6. FlushInv'
    BY <1>1 DEF OrderInv, FlushInv
  <1> QED
    BY <1>4, <1>5, <1>6 DEF OrderInv

LEMMA OrderForward ==
    ASSUME TypeOK, OnControl, LinkInv, OrderInv, NEW cl \in Clients, NEW c \in Conns,
           ForwardData(cl, c)
    PROVE  OrderInv'
  <1> DEFINE x == Data(c, <<sent[cl][c] + 1>>)
             v == DataWriter(cl)
  <1>1. /\ UNCHANGED <<mode, stcpConns, writer, buffer, flushing, end, dialing, toClient>>
        /\ end[cl][c] = "open"
        /\ sent' = [sent EXCEPT ![cl][c] = sent[cl][c] + 1]
        /\ Send(v, x)
    BY DEF ForwardData, frpsVars
  <1>2. x \in Msg /\ x.type = "data" /\ x.conn = c /\ v \in Writers /\ (v = ToVisitor => cl = "visitor")
    <2>1. sent[cl][c] + 1 \in Nat
      BY DEF TypeOK
    <2>2. <<sent[cl][c] + 1>> \in Seq(Nat)
      BY <2>1
    <2> QED
      BY <2>2, Messages, WriterType, Control DEF Data, Clients
  <1> HIDE DEF x, v
  <1>3. \A d \in Conns : VisitorEnd(d)' = VisitorEnd(d) /\ ProviderEnd(d)' = ProviderEnd(d)
    BY <1>1 DEF VisitorEnd, ProviderEnd
  <1>4. ASSUME NEW d \in Conns PROVE OneInv(d)'
    <2>1. OneInv(d)
      BY DEF OrderInv
    <2>2. x # NewVisitor(d)
      BY <1>2 DEF NewVisitor
    <2>3. Later(toServer[ToVisitor], toServer'[ToVisitor], d)
      BY <1>1, <1>2, <2>2, Control, SendEffect
    <2>4. VisitorEnd(d) # "absent"
            \/ (Absent(toServer[ToVisitor], d) => Absent(toServer'[ToVisitor], d))
      <3>1. CASE d = c /\ v = ToVisitor
        BY <1>1, <1>2, <3>1 DEF VisitorEnd
      <3>2. CASE d # c \/ v # ToVisitor
        BY <1>1, <1>2, <3>2, Control, SendEffect
      <3> QED
        BY <3>1, <3>2
    <2>5. /\ sent'["visitor"][d] = sent["visitor"][d] \/ VisitorEnd(d) # "absent"
          /\ sent'["provider"][d] = sent["provider"][d] \/ ProviderEnd(d) # "absent"
      <3>1. \A k \in Clients : sent'[k][d] = IF k = cl /\ d = c THEN sent[cl][c] + 1 ELSE sent[k][d]
        <4> DEFINE y == sent[cl][c] + 1
        <4>1. sent' = [sent EXCEPT ![cl][c] = y] /\ sent \in [Clients -> [Conns -> 0..MaxChunks]]
          BY <1>1 DEF TypeOK
        <4> HIDE DEF y
        <4>2. \A k \in Clients : sent'[k][d] = IF k = cl /\ d = c THEN y ELSE sent[k][d]
          BY <4>1
        <4> QED
          BY <4>2 DEF y
      <3> QED
        BY <1>1, <3>1 DEF VisitorEnd, ProviderEnd, Clients
    <2> QED
      BY <1>1, <1>3, <2>1, <2>3, <2>4, <2>5, KeptSame, OneKept
  <1>5. FlushInv'
    BY <1>1 DEF OrderInv, FlushInv
  <1> QED
    BY <1>4, <1>5 DEF OrderInv

\* An end that is there ends.
LEMMA OrderEnding ==
    ASSUME TypeOK, OnControl, LinkInv, OrderInv, NEW c \in Conns,
           \/ \E cl \in Clients : ForwardEnd(cl, c)
           \/ \E w \in Links : ClientHandleClose(w, c)
    PROVE  OrderInv'
  <1>1. /\ UNCHANGED <<mode, stcpConns, writer, buffer, flushing, sent, dialing, toServer>>
        /\ UNCHANGED end \/ \E cl \in Clients :
               end[cl][c] = "open" /\ end' = [end EXCEPT ![cl][c] = "closed"]
        /\ UNCHANGED toClient \/ \E w \in Writers : \E m : ClientReads(w, m)
    BY WriterType DEF ForwardEnd, ClientHandleClose, frpsVars
  <1>2. \A d \in Conns : Fewer(toClient[ToProvider], toClient'[ToProvider], d)
    BY <1>1, CalmQueues
  <1>3. \A d \in Conns : /\ VisitorEnd(d) = "absent" <=> VisitorEnd(d)' = "absent"
                         /\ ProviderEnd(d) = "absent" <=> ProviderEnd(d)' = "absent"
    <2>1. CASE UNCHANGED end
      BY <2>1 DEF VisitorEnd, ProviderEnd
    <2>2. ASSUME NEW cl \in Clients, end[cl][c] = "open", end' = [end EXCEPT ![cl][c] = "closed"]
          PROVE  \A d \in Conns : /\ VisitorEnd(d) = "absent" <=> VisitorEnd(d)' = "absent"
                                  /\ ProviderEnd(d) = "absent" <=> ProviderEnd(d)' = "absent"
      <3>1. /\ cl = "visitor" => VisitorEnd(c) = "open"
            /\ cl = "provider" => ProviderEnd(c) = "open"
        BY <2>2 DEF VisitorEnd, ProviderEnd
      <3> QED
        BY <2>2, <3>1, EndSet
    <2> QED
      BY <1>1, <2>1, <2>2
  <1>4. ASSUME NEW d \in Conns PROVE OneInv(d)'
    <2>1. OneInv(d)
      BY DEF OrderInv
    <2> QED
      BY <1>1, <1>2, <1>3, <2>1, KeptSame, OneKept
  <1>5. FlushInv'
    BY <1>1 DEF OrderInv, FlushInv
  <1> QED
    BY <1>4, <1>5 DEF OrderInv

LEMMA OrderStep ==
    ASSUME TypeOK, OnControl, LinkInv, OrderInv, [Next]_vars
    PROVE  OrderInv'
  <1>1. ASSUME UNCHANGED <<mode, stcpConns, writer, buffer, flushing, end, sent>>,
               dialing' \in {dialing, None},
               \A d \in Conns : Fewer(toClient[ToProvider], toClient'[ToProvider], d),
               \A d \in Conns :
                  /\ Later(toServer[ToVisitor], toServer'[ToVisitor], d)
                  /\ Absent(toServer[ToVisitor], d) => Absent(toServer'[ToVisitor], d)
        PROVE  OrderInv'
    <2>1. Calm
      BY <1>1 DEF Calm
    <2>2. FlushInv'
      BY <1>1 DEF OrderInv, FlushInv
    <2> QED
      BY <2>1, <2>2, OrderCalm DEF OrderInv
  <1>2. ASSUME NEW w \in Writers, NEW c \in Conns, NEW s, ClientHandleData(w, c, s)
        PROVE  OrderInv'
    <2>1. /\ UNCHANGED <<mode, stcpConns, writer, buffer, flushing, end, sent, dialing, toServer>>
          /\ ClientReads(w, Data(c, s))
      BY <1>2 DEF ClientHandleData, frpsVars
    <2> QED
      BY <1>1, <2>1, CalmQueues, KeptSame
  <1>3. ASSUME NEW c \in Conns, DialFails(c) PROVE OrderInv'
    <2>1. /\ UNCHANGED <<mode, stcpConns, writer, buffer, flushing, end, sent, toClient>>
          /\ dialing' = None /\ Send(ToProvider, Close(c)) /\ Close(c) \in Msg
      BY <1>3, Control, Messages DEF DialFails, frpsVars
    <2>2. toServer'[ToVisitor] = toServer[ToVisitor]
      BY <2>1, Control, SendEffect
    <2> QED
      BY <1>1, <2>1, <2>2, KeptSame
  <1>4. ASSUME NEW c \in Conns, IdleSweep(c) PROVE OrderInv'
    <2>1. /\ UNCHANGED <<mode, writer, buffer, flushing, end, sent, dialing, toServer>>
          /\ CloseStcpConn(c) /\ stcpConns' \subseteq stcpConns
      BY <1>4 DEF IdleSweep, endVars, CloseStcpConn
    <2>2. \A d \in Conns : Fewer(toClient[ToProvider], toClient'[ToProvider], d)
      BY <2>1, CalmQueues
    <2>3. Calm
      BY <2>1, <2>2, KeptSame DEF Calm
    <2>4. FlushInv'
      BY <2>1 DEF OrderInv, FlushInv
    <2> QED
      BY <2>3, <2>4, OrderCalm DEF OrderInv
  <1>5. CASE UNCHANGED vars
    BY <1>1, <1>5, KeptSame DEF vars, frpsVars, endVars
  <1>6. ASSUME NEW w \in Links, ClientTask(w) PROVE OrderInv'
    BY <1>2, <1>3, <1>6, WriterType, OrderDials, OrderDialled, OrderEnding DEF ClientTask
  <1> QED
    BY <1>4, <1>5, <1>6, OrderFrps, OrderEnds, OrderUser, OrderForward, OrderEnding DEF Next

-----------------------------------------------------------------------------
(* One direction of a connection. The reader's end has the first chunks, and  *)
(* the queues carry it on: frps has taken k chunks from the writer's end and   *)
(* has handed m of them on to the reader's, who has taken n from the queue.    *)

Flow(e, g, qc, qs, s, c, n, m, k) ==
    /\ g = Chunks(0, Len(g)) /\ Len(g) <= n /\ (e # "closed" => n = Len(g))
    /\ e = "absent" => m = 0
    /\ Carries(qc, c, n, m) /\ m <= k /\ Carries(qs, c, k, s)

LEMMA FlowBounds ==
    ASSUME NEW e, NEW g \in Seq(Nat), NEW qc \in Seq(Msg), NEW qs \in Seq(Msg), NEW s \in Nat, NEW c,
           NEW n \in Nat, NEW m \in Nat, NEW k \in Nat, Flow(e, g, qc, qs, s, c, n, m, k)
    PROVE  Len(g) <= n /\ n <= m /\ m <= k /\ k <= s
  BY CarriesBounds DEF Flow

\* The queues may change where they say nothing of c, and the end may close.
LEMMA FlowSame ==
    ASSUME NEW e, NEW g, NEW qc, NEW qs, NEW s \in Nat, NEW c,
           NEW n \in Nat, NEW m \in Nat, NEW k \in Nat, Flow(e, g, qc, qs, s, c, n, m, k),
           NEW f, NEW rc, NEW rs, SameFor(qc, rc, c), SameFor(qs, rs, c),
           f # "closed" => e # "closed", f = "absent" => e = "absent"
    PROVE  Flow(f, g, rc, rs, s, c, n, m, k)
  BY DEF Flow, SameFor

\* What is under way to the reader is lost, or from the writer.
LEMMA FlowLost ==
    ASSUME NEW e, NEW g \in Seq(Nat), NEW qc \in Seq(Msg), NEW qs \in Seq(Msg), NEW s \in Nat, NEW c,
           NEW n \in Nat, NEW m \in Nat, NEW k \in Nat, Flow(e, g, qc, qs, s, c, n, m, k)
    PROVE  /\ Flow(e, g, <<>>, qs, s, c, n, n, k)
           /\ Flow(e, g, qc, <<>>, s, c, n, m, s)
  <1>1. <<>> \in Seq(Msg) /\ Silent(<<>>, c)
    BY DEF Silent
  <1>2. Carries(<<>>, c, n, n) /\ Carries(<<>>, c, s, s)
    BY <1>1, CarriesSilent
  <1>3. Len(g) <= n /\ n <= m /\ m <= k /\ k <= s
    BY FlowBounds
  <1>4. n <= k /\ m <= s /\ (m = 0 => n = 0)
    BY <1>3
  <1> QED
    BY <1>2, <1>3, <1>4 DEF Flow

\* The writer's end writes its next chunk.
LEMMA FlowWritten ==
    ASSUME NEW e, NEW g \in Seq(Nat), NEW qc, NEW qs \in Seq(Msg), NEW s \in Nat, NEW c \in Conns,
           NEW n \in Nat, NEW m \in Nat, NEW k \in Nat, Flow(e, g, qc, qs, s, c, n, m, k)
    PROVE  Flow(e, g, qc, Append(qs, Data(c, <<s + 1>>)), s + 1, c, n, m, k)
  <1> DEFINE t == s + 1
  <1>1. t \in Nat /\ s <= t /\ <<s + 1>> = Chunks(s, t)
    BY ChunksOne
  <1>2. Data(c, <<s + 1>>) = Data(c, Chunks(s, t)) /\ Chunks(s, t) \in Seq(Nat)
    BY <1>1, ChunksType
  <1>3. Data(c, Chunks(s, t)) \in Msg
    BY <1>2, Messages
  <1> HIDE DEF t
  <1>4. Carries(Append(qs, Data(c, Chunks(s, t))), c, k, t)
    BY <1>1, <1>3, CarriesAppend DEF Flow
  <1>5. Flow(e, g, qc, Append(qs, Data(c, Chunks(s, t))), t, c, n, m, k)
    BY <1>4 DEF Flow
  <1> QED
    BY <1>2, <1>5 DEF t

\* frps takes the next chunks.
LEMMA FlowTaken ==
    ASSUME NEW e, NEW g \in Seq(Nat), NEW qc \in Seq(Msg), NEW qs \in Seq(Msg), NEW s \in Nat, NEW c,
           NEW n \in Nat, NEW m \in Nat, NEW k \in Nat, Flow(e, g, qc, qs, s, c, n, m, k),
           NEW x, qs # <<>>, Head(qs) = Data(c, x)
    PROVE  \E j \in Nat : /\ k <= j /\ x = Chunks(k, j)
                          /\ Flow(e, g, qc, Tail(qs), s, c, n, m, j)
  <1>1. PICK j \in Nat : k <= j /\ j <= s /\ Moves(Head(qs), c, k, j) /\ Carries(Tail(qs), c, j, s)
    BY CarriesTail DEF Flow
  <1>2. x = Chunks(k, j)
    BY <1>1 DEF Moves, IsData, Data
  <1>3. m <= j
    BY <1>1 DEF Flow
  <1> QED
    BY <1>1, <1>2, <1>3 DEF Flow

\* frps hands chunks on, to a reader that is there.
LEMMA FlowHanded ==
    ASSUME NEW e, NEW g \in Seq(Nat), NEW qc \in Seq(Msg), NEW qs \in Seq(Msg), NEW s \in Nat,
           NEW c \in Conns, NEW n \in Nat, NEW m \in Nat, NEW k \in Nat,
           Flow(e, g, qc, qs, s, c, n, m, k), e # "absent",
           NEW j \in Nat, m <= j, j <= k
    PROVE  Flow(e, g, qc \o <<Data(c, Chunks(m, j))>>, qs, s, c, n, j, k)
  <1>1. Data(c, Chunks(m, j)) \in Msg
    BY ChunksType, Messages
  <1>2. Carries(qc \o <<Data(c, Chunks(m, j))>>, c, n, j)
    BY <1>1, CarriesAppend DEF Flow
  <1> QED
    BY <1>2 DEF Flow

\* The reader's end takes the next message of the connection.
LEMMA FlowRead ==
    ASSUME NEW e, NEW g \in Seq(Nat), NEW qc \in Seq(Msg), NEW qs \in Seq(Msg), NEW s \in Nat, NEW c,
           NEW n \in Nat, NEW m \in Nat, NEW k \in Nat, Flow(e, g, qc, qs, s, c, n, m, k),
           e \in {"absent", "open", "closed"},
           NEW x, qc # <<>>, Head(qc) = Data(c, x)
    PROVE  \E j \in Nat :
              /\ e = "open" => /\ Len(g) <= j /\ j <= s /\ x = Chunks(Len(g), j)
                               /\ Flow(e, g \o x, Tail(qc), qs, s, c, j, m, k)
              /\ e # "open" => Flow(e, g, Tail(qc), qs, s, c, j, m, k)
  <1>1. PICK j \in Nat : n <= j /\ j <= m /\ Moves(Head(qc), c, n, j) /\ Carries(Tail(qc), c, j, m)
    BY CarriesTail DEF Flow
  <1>2. x = Chunks(n, j)
    BY <1>1 DEF Moves, IsData, Data
  <1>3. Len(g) <= n /\ n <= m /\ m <= k /\ k <= s /\ Len(g) \in Nat
    BY FlowBounds
  <1>4. ASSUME e = "open"
        PROVE  /\ Len(g) <= j /\ j <= s /\ x = Chunks(Len(g), j)
               /\ Flow(e, g \o x, Tail(qc), qs, s, c, j, m, k)
    <2>1. n = Len(g) /\ g = Chunks(0, n)
      BY <1>4 DEF Flow
    <2>2. g \o x = Chunks(0, j)
      <3>1. Chunks(0, n) \o Chunks(n, j) = Chunks(0, j)
        <4> DEFINE z == 0
        <4>1. z \in Nat /\ z <= n /\ n <= j
          BY <1>1
        <4> HIDE DEF z
        <4>2. Chunks(z, n) \o Chunks(n, j) = Chunks(z, j)
          BY <4>1, ChunksJoin
        <4> QED
          BY <4>2 DEF z
      <3> QED
        BY <1>2, <2>1, <3>1, Zenon
    <2>3. Len(g \o x) = j
      <3> DEFINE z == 0
      <3>1. z \in Nat /\ z <= j /\ j - z = j
        OBVIOUS
      <3> HIDE DEF z
      <3>2. Len(Chunks(z, j)) = j
        BY <3>1, ChunksType
      <3> QED
        BY <2>2, <3>2 DEF z
    <2> QED
      BY <1>1, <1>2, <1>3, <1>4, <2>1, <2>2, <2>3 DEF Flow
  <1>5. ASSUME e # "open" PROVE Flow(e, g, Tail(qc), qs, s, c, j, m, k)
    <2>1. Len(g) <= j
      BY <1>1, <1>3
    <2>2. e # "closed" => j = Len(g)
      BY <1>1, <1>5 DEF Flow
    <2> QED
      BY <1>1, <2>1, <2>2 DEF Flow
  <1> QED
    BY <1>4, <1>5

\* The visitor's stream, and the provider's.
UpFlow(c, n, m, k) ==
    Flow(ProviderEnd(c), got["provider"][c], toClient[ToProvider], toServer[ToVisitor],
         sent["visitor"][c], c, n, m, k)
DownFlow(c, n, m, k) ==
    Flow(VisitorEnd(c), got["visitor"][c], toClient[ToVisitor], toServer[ToProvider],
         sent["provider"][c], c, n, m, k)

\* Nothing of the provider's waits in frps.
Passing(c) == c \in stcpConns /\ "visitor" \in up /\ "provider" \in serving

DownOne(c) == \E n, m, k \in Nat : DownFlow(c, n, m, k) /\ (Passing(c) => m = k)
DownInv == \A c \in Conns : DownOne(c)

LEMMA FlowTypes ==
    ASSUME TypeOK, OnControl, NEW c \in Conns
    PROVE  /\ got["visitor"][c] \in Seq(Nat) /\ got["provider"][c] \in Seq(Nat)
           /\ sent["visitor"][c] \in Nat /\ sent["provider"][c] \in Nat
           /\ VisitorEnd(c) \in {"absent", "open", "closed"}
           /\ ProviderEnd(c) \in {"absent", "open", "closed"}
           /\ toServer[ToVisitor] \in Seq(Msg) /\ toServer[ToProvider] \in Seq(Msg)
           /\ toClient[ToVisitor] \in Seq(Msg) /\ toClient[ToProvider] \in Seq(Msg)
  <1>1. /\ got["visitor"][c] \in Seq(Nat) /\ got["provider"][c] \in Seq(Nat)
        /\ sent["visitor"][c] \in 0..MaxChunks /\ sent["provider"][c] \in 0..MaxChunks
        /\ VisitorEnd(c) \in {"absent", "open", "closed"}
        /\ ProviderEnd(c) \in {"absent", "open", "closed"}
    BY DEF TypeOK, Clients, VisitorEnd, ProviderEnd
  <1> QED
    BY <1>1, Control, ConstantsAssumption

\* A step that says nothing of the provider's stream of d.
DownQuiet(d) ==
    /\ got'["visitor"][d] = got["visitor"][d] /\ sent'["provider"][d] = sent["provider"][d]
    /\ VisitorEnd(d)' # "closed" => VisitorEnd(d) # "closed"
    /\ VisitorEnd(d)' = "absent" => VisitorEnd(d) = "absent"
    /\ SameFor(toClient[ToVisitor], toClient'[ToVisitor], d)
    /\ SameFor(toServer[ToProvider], toServer'[ToProvider], d)
    /\ Passing(d)' => Passing(d) \/ sent["provider"][d] = 0

LEMMA DownKept ==
    ASSUME TypeOK, OnControl, NEW d \in Conns, DownOne(d), DownQuiet(d)
    PROVE  DownOne(d)'
  <1>1. PICK n \in Nat, m \in Nat, k \in Nat : DownFlow(d, n, m, k) /\ (Passing(d) => m = k)
    BY DEF DownOne
  <1>2. n <= m /\ m <= k /\ k <= sent["provider"][d]
    BY <1>1, FlowTypes, FlowBounds DEF DownFlow
  <1>3. DownFlow(d, n, m, k)'
    BY <1>1, FlowTypes, FlowSame DEF DownFlow, DownQuiet
  <1>4. Passing(d)' => m = k
    BY <1>1, <1>2 DEF DownQuiet
  <1> QED
    BY <1>3, <1>4 DEF DownOne

\* What the tasks of frps leave alone.
LEMMA FrpsKeeps ==
    ASSUME NEW w, FrpsTask(w)
    PROVE  UNCHANGED <<mode, up, serving, end, sent, got>>
  <1>1. FlushDone(w) => UNCHANGED <<mode, up, serving, end, sent, got>>
    BY DEF FlushDone, endVars
  <1>2. ASSUME NEW c
        PROVE  /\ HandleStcpNewVisitor(c) => UNCHANGED <<mode, up, serving, end, sent, got>>
               /\ HandleStcpVisitorReady(c) => UNCHANGED <<mode, up, serving, end, sent, got>>
               /\ HandleClose(w, c) => UNCHANGED <<mode, up, serving, end, sent, got>>
    BY DEF HandleStcpNewVisitor, HandleStcpVisitorReady, HandleClose, endVars
  <1>3. ASSUME NEW c, NEW s, NEW side, NEW to
        PROVE  /\ DropData(w, c, s) => UNCHANGED <<mode, up, serving, end, sent, got>>
               /\ BufferData(w, c, s, side) => UNCHANGED <<mode, up, serving, end, sent, got>>
               /\ RelayData(w, c, s, side, to) => UNCHANGED <<mode, up, serving, end, sent, got>>
               /\ RelayFails(w, c, s, side, to) => UNCHANGED <<mode, up, serving, end, sent, got>>
    BY DEF DropData, BufferData, RelayData, RelayFails, endVars, frpsVars
  <1> QED
    BY <1>1, <1>2, <1>3 DEF FrpsTask, HandleData

LEMMA WriteOther ==
    ASSUME TypeOK, NEW v \in Writers, NEW w \in Writers, NEW c \in Conns,
           NEW s \in Seq(Nat), NEW t \in Seq(Nat), NEW d, d # c \/ v # w,
           toClient' \in {Written(v, <<Data(c, s)>>), Written(v, <<Data(c, t)>>),
                         Written(v, <<Data(c, t), Data(c, s)>>)}
    PROVE  SameFor(toClient[w], toClient'[w], d)
  <1>1. ASSUME NEW msgs \in Seq(Msg), d # c => Silent(msgs, d), toClient' = Written(v, msgs)
        PROVE  SameFor(toClient[w], toClient'[w], d)
    BY <1>1, WriteEffect
  <1> DEFINE x == <<Data(c, s)>>
             y == <<Data(c, t)>>
             z == <<Data(c, t), Data(c, s)>>
  <1>2. /\ x \in Seq(Msg) /\ (d # c => Silent(x, d))
        /\ y \in Seq(Msg) /\ (d # c => Silent(y, d))
        /\ z \in Seq(Msg) /\ (d # c => Silent(z, d))
    BY DataMessages
  <1>3. toClient' \in {Written(v, x), Written(v, y), Written(v, z)}
    OBVIOUS
  <1> HIDE DEF x, y, z
  <1> QED
    BY <1>1, <1>2, <1>3

\* A message of c that frps reads.
DataTask(w, c, s, side, to) ==
    \/ RelayData(w, c, s, side, to) \/ RelayFails(w, c, s, side, to)
    \/ BufferData(w, c, s, side) /\ to = None

LEMMA DownRelays ==
    ASSUME TypeOK, OnControl, LinkInv, OrderInv, DownInv,
           NEW w \in Links, NEW c \in Conns, NEW s \in Seq(Nat), NEW side \in Clients, NEW to,
           DataTask(w, c, s, side, to), UNCHANGED <<up, serving, end, sent, got>>
    PROVE  DownInv'
  <1>1. StcpData(w, c, s, side, to)
    BY DEF DataTask, RelayData, RelayFails, BufferData
  <1>2. /\ c \in stcpConns /\ FrpsReads(w, Data(c, s)) /\ w \in Writers
        /\ \/ side = "provider" /\ w = ToProvider /\ to = ToVisitor
           \/ side = "visitor" /\ w = ToVisitor /\ to \in {None, ToProvider}
    BY <1>1, DataFrom, WriterType
  <1>3. /\ \A d \in Conns : VisitorEnd(d)' = VisitorEnd(d)
        /\ stcpConns' \subseteq stcpConns
    BY DEF VisitorEnd, DataTask, RelayData, RelayFails, BufferData, CloseStcpConn
  <1>4. buffer["provider"][c] = <<>> /\ buffer[side][c] \in Seq(Nat)
    BY DEF OrderInv, OneInv, TypeOK
  <1>5. /\ RelayData(w, c, s, side, to) =>
              /\ to \in Writers
              /\ toClient' \in {Written(to, <<Data(c, s)>>), Written(to, <<Data(c, buffer[side][c])>>),
                                Written(to, <<Data(c, buffer[side][c]), Data(c, s)>>)}
              /\ buffer[side][c] = <<>> => toClient' = Written(to, <<Data(c, s)>>)
        /\ RelayFails(w, c, s, side, to) => CloseStcpConn(c) /\ to # None /\ WriteMayRaise(to)
        /\ BufferData(w, c, s, side) => UNCHANGED toClient
    <2>1. RelayData(w, c, s, side, to) => to \in Writers
      BY <1>2, Control DEF RelayData
    <2> QED
      BY <2>1 DEF RelayData, RelayFails, BufferData
  <1>6. ASSUME NEW d \in Conns, d # c \/ side = "visitor" PROVE DownOne(d)'
    <2>1. SameFor(toServer[ToProvider], toServer'[ToProvider], d)
      <3>1. d # c => ~IsData(Data(c, s), d)
        BY DEF IsData, Data
      <3> QED
        BY <1>2, <1>6, <3>1, Control, ReadEffect
    <2>2. SameFor(toClient[ToVisitor], toClient'[ToVisitor], d)
      <3>1. CASE RelayData(w, c, s, side, to)
        <4>1. d # c \/ to # ToVisitor
          BY <1>2, <1>5, <1>6, <3>1, Control
        <4> QED
          BY <1>4, <1>5, <3>1, <4>1, WriteOther, Control
      <3>2. CASE RelayFails(w, c, s, side, to)
        BY <1>5, <3>2, CloseEffect, Control
      <3>3. CASE BufferData(w, c, s, side)
        BY <1>5, <3>3, SameForSame
      <3> QED
        BY <3>1, <3>2, <3>3 DEF DataTask
    <2>3. DownQuiet(d)
      BY <1>3, <2>1, <2>2 DEF DownQuiet, Passing
    <2> QED
      BY <2>3, DownKept DEF DownInv
  \* From the provider, to the visitor.
  <1>7. ASSUME side = "provider" PROVE DownOne(c)'
    <2>1. /\ w = ToProvider /\ to = ToVisitor /\ to \in Writers /\ to # None /\ to[1] = "visitor"
          /\ "provider" \in serving
      BY <1>2, <1>7, Control, ReadEffect
    <2>2. PICK n \in Nat, m \in Nat, k \in Nat : DownFlow(c, n, m, k) /\ (Passing(c) => m = k)
      BY DEF DownInv, DownOne
    <2>3. /\ toServer[ToProvider] # <<>> /\ Head(toServer[ToProvider]) = Data(c, s)
          /\ toServer'[ToProvider] = Tail(toServer[ToProvider])
          /\ toServer'[ToProvider] \in Seq(Msg)
      <3>1. /\ toServer[ToProvider] \in Seq(Msg) /\ toServer[ToProvider] # <<>>
            /\ Head(toServer[ToProvider]) = Data(c, s)
            /\ toServer'[ToProvider] = Tail(toServer[ToProvider])
        BY <1>2, <2>1, ReadEffect
      <3> QED
        BY <3>1
    <2>4. PICK j \in Nat :
             /\ k <= j /\ s = Chunks(k, j)
             /\ Flow(VisitorEnd(c), got["visitor"][c], toClient[ToVisitor], toServer'[ToProvider],
                     sent["provider"][c], c, n, m, j)
      BY <2>2, <2>3, FlowTypes, FlowTaken DEF DownFlow
    <2>5. VisitorEnd(c) # "absent"
      BY <1>2 DEF LinkInv
    <2>6. CASE RelayData(w, c, s, side, to) /\ "visitor" \in up
      <3>1. m = k
        BY <1>2, <2>1, <2>2, <2>6 DEF Passing
      <3>2. toClient'[ToVisitor] = toClient[ToVisitor] \o <<Data(c, s)>>
        <4>1. toClient' = Written(ToVisitor, <<Data(c, s)>>) /\ <<Data(c, s)>> \in Seq(Msg)
          BY <1>4, <1>5, <1>7, <2>1, <2>6, DataMessages
        <4> QED
          BY <2>1, <2>6, <4>1, WriteEffect
      <3>3. m <= j /\ j <= j /\ toClient'[ToVisitor] = toClient[ToVisitor] \o <<Data(c, Chunks(m, j))>>
        BY <2>4, <3>1, <3>2
      <3>4. Flow(VisitorEnd(c), got["visitor"][c], toClient'[ToVisitor], toServer'[ToProvider],
                 sent["provider"][c], c, n, j, j)
        <4>1. Flow(VisitorEnd(c), got["visitor"][c], toClient[ToVisitor] \o <<Data(c, Chunks(m, j))>>,
                   toServer'[ToProvider], sent["provider"][c], c, n, j, j)
          BY <2>3, <2>4, <2>5, <3>3, FlowTypes, FlowHanded
        <4> QED
          BY <3>3, <4>1
      <3>5. DownFlow(c, n, j, j)'
        BY <1>3, <3>4 DEF DownFlow
      <3> QED
        BY <3>5 DEF DownOne
    <2>7. CASE ~(RelayData(w, c, s, side, to) /\ "visitor" \in up)
      <3>1. ~Passing(c)' /\ SameFor(toClient[ToVisitor], toClient'[ToVisitor], c)
        <4>1. CASE RelayData(w, c, s, side, to)
          <5>1. "visitor" \notin up
            BY <2>7, <4>1
          <5>2. toClient' = Written(ToVisitor, <<Data(c, s)>>)
            BY <1>4, <1>5, <1>7, <2>1, <4>1
          <5>3. UNCHANGED toClient
            BY <2>1, <5>1, <5>2 DEF Written
          <5> QED
            BY <5>1, <5>3, SameForSame DEF Passing
        <4>2. CASE RelayFails(w, c, s, side, to)
          BY <1>5, <2>1, <4>2, CloseEffect DEF Passing
        <4> QED
          BY <2>1, <4>1, <4>2 DEF DataTask
      <3>2. Flow(VisitorEnd(c), got["visitor"][c], toClient'[ToVisitor], toServer'[ToProvider],
                 sent["provider"][c], c, n, m, j)
        BY <2>4, <3>1, FlowTypes, FlowSame, SameForSame
      <3>3. DownFlow(c, n, m, j)'
        BY <1>3, <3>2 DEF DownFlow
      <3> QED
        BY <3>1, <3>3 DEF DownOne
    <2> QED
      BY <2>6, <2>7
  <1> QED
    BY <1>2, <1>6, <1>7 DEF DownInv

LEMMA DownFrps ==
    ASSUME TypeOK, OnControl, LinkInv, OrderInv, DownInv, NEW w \in Links, FrpsTask(w)
    PROVE  DownInv'
  <1>0. /\ UNCHANGED <<mode, up, serving, end, sent, got>> /\ w \in Writers
        /\ ToVisitor \in Writers /\ ToProvider \in Writers
        /\ \A d \in Conns : VisitorEnd(d)' = VisitorEnd(d)
    BY FrpsKeeps, WriterType, Control DEF VisitorEnd
  <1>1. ASSUME \A d \in Conns :
                  /\ SameFor(toClient[ToVisitor], toClient'[ToVisitor], d)
                  /\ SameFor(toServer[ToProvider], toServer'[ToProvider], d)
                  /\ d \in stcpConns' => d \in stcpConns \/ sent["provider"][d] = 0
        PROVE  DownInv'
    <2>1. ASSUME NEW d \in Conns PROVE DownOne(d)'
      <3>1. DownQuiet(d)
        BY <1>0, <1>1 DEF DownQuiet, Passing
      <3> QED
        BY <3>1, DownKept DEF DownInv
    <2> QED
      BY <2>1 DEF DownInv
  <1>2. ASSUME NEW c \in Conns, HandleStcpNewVisitor(c) PROVE DownInv'
    <2>1. /\ FrpsReads(ToVisitor, NewVisitor(c))
          /\ stcpConns' \subseteq stcpConns \cup {c}
          /\ \/ UNCHANGED toClient
             \/ toClient' = Written(ToProvider, <<NewVisitor(c)>>)
             \/ toClient' = Written(ToVisitor, <<Close(c)>>)
      BY <1>2 DEF HandleStcpNewVisitor, ToVisitor, ToProvider
    <2>2. \A d \in Conns : ~IsData(NewVisitor(c), d) /\ ~IsData(Close(c), d)
      BY DEF IsData, NewVisitor, Close
    <2>3. /\ <<NewVisitor(c)>> \in Seq(Msg) /\ <<Close(c)>> \in Seq(Msg)
          /\ \A d \in Conns : Silent(<<NewVisitor(c)>>, d) /\ Silent(<<Close(c)>>, d)
      BY <2>2, Messages DEF Silent
    <2>4. \A d \in Conns : SameFor(toClient[ToVisitor], toClient'[ToVisitor], d)
      BY <1>0, <2>1, <2>3, WriteEffect, SameForSame
    <2>5. \A d \in Conns : SameFor(toServer[ToProvider], toServer'[ToProvider], d)
      BY <1>0, <2>1, Control, ReadEffect
    <2>6. sent["provider"][c] = 0
      <3>1. OneInv(c) /\ toServer[ToVisitor] \in Seq(Msg) /\ toServer[ToVisitor] # <<>>
            /\ Head(toServer[ToVisitor]) = NewVisitor(c)
        BY <1>0, <2>1, ReadEffect DEF OrderInv
      <3>2. Fresh(c)
        BY <3>1, KeptTail DEF Fresh
      <3> QED
        BY <3>1, <3>2 DEF OneInv
    <2> QED
      BY <1>1, <2>1, <2>4, <2>5, <2>6
  <1>3. ASSUME NEW c \in Conns, HandleStcpVisitorReady(c) PROVE DownInv'
    <2>1. /\ FrpsReads(ToProvider, Ready(c)) /\ UNCHANGED stcpConns
          /\ UNCHANGED toClient \/ toClient' = Written(ToProvider, <<Data(c, buffer["visitor"][c])>>)
          /\ buffer["visitor"][c] \in Seq(Nat)
      BY <1>3 DEF HandleStcpVisitorReady, ToProvider, TypeOK, Clients
    <2>2. \A d \in Conns : ~IsData(Ready(c), d)
      BY DEF IsData, Ready
    <2>3. \A d \in Conns : SameFor(toServer[ToProvider], toServer'[ToProvider], d)
      BY <1>0, <2>1, <2>2, ReadEffect
    <2>4. \A d \in Conns : SameFor(toClient[ToVisitor], toClient'[ToVisitor], d)
      <3>1. CASE UNCHANGED toClient
        BY <3>1, SameForSame
      <3>2. CASE toClient' = Written(ToProvider, <<Data(c, buffer["visitor"][c])>>)
        <4> DEFINE t == buffer["visitor"][c]
        <4>1. toClient' = Written(ToProvider, <<Data(c, t)>>) /\ t \in Seq(Nat) /\ ToProvider # ToVisitor
          BY <2>1, <3>2, Control
        <4> HIDE DEF t
        <4> QED
          BY <1>0, <4>1, WriteOther
      <3> QED
        BY <2>1, <3>1, <3>2
    <2> QED
      BY <1>1, <2>1, <2>3, <2>4
  <1>4. CASE FlushDone(w)
    <2> DEFINE f == flushing[w]
    <2>1. f # None /\ f.to = ToProvider /\ f.conn \in Conns /\ f.rest \in Seq(Nat)
      <3>1. f # None /\ f \in Flush
        BY <1>0, <1>4 DEF FlushDone, TypeOK
      <3> QED
        BY <1>0, <3>1 DEF OrderInv, FlushInv, Flush
    <2>2. /\ UNCHANGED toServer
          /\ \/ /\ UNCHANGED stcpConns
                /\ UNCHANGED toClient \/ toClient' = Written(ToProvider, <<Data(f.conn, f.rest)>>)
             \/ CloseStcpConn(f.conn)
      BY <1>4, <2>1 DEF FlushDone
    <2> HIDE DEF f
    <2>3. stcpConns' \subseteq stcpConns
      BY <2>2 DEF CloseStcpConn
    <2>4. \A d \in Conns : SameFor(toClient[ToVisitor], toClient'[ToVisitor], d)
      BY <1>0, <2>1, <2>2, WriteOther, CloseEffect, SameForSame, Control
    <2> QED
      BY <1>1, <2>2, <2>3, <2>4, SameForSame
  <1>5. ASSUME NEW c \in Conns, HandleClose(w, c) PROVE DownInv'
    <2>1. FrpsReads(w, Close(c)) /\ CloseStcpConn(c)
      BY <1>5 DEF HandleClose
    <2>2. \A d \in Conns : ~IsData(Close(c), d)
      BY DEF IsData, Close
    <2>3. \A d \in Conns : /\ SameFor(toClient[ToVisitor], toClient'[ToVisitor], d)
                           /\ SameFor(toServer[ToProvider], toServer'[ToProvider], d)
      BY <1>0, <2>1, <2>2, ReadEffect, CloseEffect
    <2>4. stcpConns' \subseteq stcpConns
      BY <2>1 DEF CloseStcpConn
    <2> QED
      BY <1>1, <2>3, <2>4
  <1>6. ASSUME NEW c \in Conns, NEW s, DropData(w, c, s) PROVE DownInv'
    <2>1. FrpsReads(w, Data(c, s)) /\ c \notin stcpConns /\ UNCHANGED <<stcpConns, toClient>>
      BY <1>6 DEF DropData, frpsVars
    <2>2. ASSUME NEW d \in Conns, d # c \/ w # ToProvider PROVE DownOne(d)'
      <3>1. d # c => ~IsData(Data(c, s), d)
        BY DEF IsData, Data
      <3>2. SameFor(toServer[ToProvider], toServer'[ToProvider], d)
        BY <1>0, <2>1, <2>2, <3>1, ReadEffect
      <3>3. DownQuiet(d)
        BY <1>0, <2>1, <3>2, SameForSame DEF DownQuiet, Passing
      <3> QED
        BY <3>3, DownKept DEF DownInv
    <2>3. ASSUME w = ToProvider PROVE DownOne(c)'
      <3>1. PICK n \in Nat, m \in Nat, k \in Nat : DownFlow(c, n, m, k)
        BY DEF DownInv, DownOne
      <3>2. /\ toServer[ToProvider] # <<>> /\ Head(toServer[ToProvider]) = Data(c, s)
            /\ toServer'[ToProvider] = Tail(toServer[ToProvider])
        BY <1>0, <2>1, <2>3, ReadEffect
      <3>3. PICK j \in Nat : Flow(VisitorEnd(c), got["visitor"][c], toClient[ToVisitor],
                                  toServer'[ToProvider], sent["provider"][c], c, n, m, j)
        BY <3>1, <3>2, FlowTypes, FlowTaken DEF DownFlow
      <3>4. DownFlow(c, n, m, j)' /\ ~Passing(c)'
        BY <1>0, <2>1, <3>3 DEF DownFlow, Passing
      <3> QED
        BY <3>4 DEF DownOne
    <2> QED
      BY <2>2, <2>3 DEF DownInv
  <1>7. ASSUME NEW c \in Conns, NEW s \in Payload, HandleData(w, c, s) PROVE DownInv'
    <2>1. s \in Seq(Nat)
      BY PayloadType
    <2>2. ASSUME NEW side \in Clients, NEW to, DataTask(w, c, s, side, to) PROVE DownInv'
      BY <1>0, <2>1, <2>2, DownRelays
    <2>3. ASSUME NEW side \in Clients, BufferData(w, c, s, side) PROVE DownInv'
      <3> DEFINE to == None
      <3>1. DataTask(w, c, s, side, to)
        BY <2>3 DEF DataTask
      <3> QED
        BY <2>2, <3>1
    <2> QED
      BY <1>6, <1>7, <2>2, <2>3 DEF HandleData, DataTask
  <1> QED
    BY <1>2, <1>3, <1>4, <1>5, <1>7 DEF FrpsTask

\* What a step does to a stream.
Step(s, t, g, h) ==
    \/ t = s /\ h = g
    \/ \E c \in Conns : t = [s EXCEPT ![c] = @ + 1] /\ h = g
    \/ \E c \in Conns : \E j \in Nat :
          /\ Len(g[c]) <= j /\ j <= s[c]
          /\ t = s /\ h = [g EXCEPT ![c] = @ \o Chunks(Len(@), j)]

LEMMA StepReads ==
    ASSUME NEW s, NEW g, NEW c \in Conns, NEW j \in Nat, NEW x,
           Len(g[c]) <= j, j <= s[c], x = Chunks(Len(g[c]), j)
    PROVE  Step(s, s, g, [g EXCEPT ![c] = g[c] \o x])
  <1>1. [g EXCEPT ![c] = g[c] \o x] = [g EXCEPT ![c] = @ \o Chunks(Len(@), j)]
    OBVIOUS
  <1> QED
    BY <1>1 DEF Step

DownSteps == Step(sent["provider"], sent'["provider"], got["visitor"], got'["visitor"])

LEMMA DownRead ==
    ASSUME TypeOK, OnControl, DownInv, NEW w \in Links, NEW c \in Conns, NEW s \in Seq(Nat),
           ClientHandleData(w, c, s)
    PROVE  DownInv' /\ DownSteps
  <1>0. /\ UNCHANGED <<mode, up, end, sent, toServer, serving, stcpConns>> /\ ClientReads(w, Data(c, s))
        /\ w \in Writers /\ ToVisitor \in Writers /\ ~Skipped(w)
        /\ (w = ToVisitor /\ w[1] = "visitor") \/ (w = ToProvider /\ w[1] = "provider")
        /\ \A d \in Conns : VisitorEnd(d)' = VisitorEnd(d)
    BY WriterType, Control DEF ClientHandleData, frpsVars, VisitorEnd
  <1>1. ASSUME NEW d \in Conns, d # c \/ w # ToVisitor
        PROVE  DownOne(d)' /\ got'["visitor"][d] = got["visitor"][d]
    <2>1. d # c => ~IsData(Data(c, s), d)
      BY DEF IsData, Data
    <2>2. SameFor(toClient[ToVisitor], toClient'[ToVisitor], d)
      BY <1>0, <1>1, <2>1, ClientReadEffect
    <2>3. got'["visitor"][d] = got["visitor"][d]
      <3>1. CASE UNCHANGED got
        BY <3>1
      <3>2. CASE got' = [got EXCEPT ![w[1]][c] = got[w[1]][c] \o s]
        <4> DEFINE x == got[w[1]][c] \o s
                   cl == w[1]
        <4>1. cl \in Clients /\ "visitor" \in Clients /\ (d # c \/ cl # "visitor")
          BY <1>0, <1>1, Control DEF Clients
        <4>2. got' = [got EXCEPT ![cl][c] = x] /\ got \in [Clients -> [Conns -> Seq(Nat)]]
          BY <3>2 DEF TypeOK
        <4> HIDE DEF cl, x
        <4>3. \A k \in Clients : got'[k][d] = IF k = cl /\ d = c THEN x ELSE got[k][d]
          BY <4>1, <4>2
        <4> QED
          BY <4>1, <4>3
      <3> QED
        BY <3>1, <3>2 DEF ClientHandleData
    <2>4. DownQuiet(d)
      BY <1>0, <2>2, <2>3, SameForSame DEF DownQuiet, Passing
    <2> QED
      BY <2>3, <2>4, DownKept DEF DownInv
  <1>2. CASE w = ToVisitor
    <2>1. w[1] = "visitor" /\ "visitor" \in Clients
      BY <1>0, <1>2, Control DEF Clients
    <2>2. PICK n \in Nat, m \in Nat, k \in Nat : DownFlow(c, n, m, k) /\ (Passing(c) => m = k)
      BY DEF DownInv, DownOne
    <2>3. /\ toClient[ToVisitor] # <<>> /\ Head(toClient[ToVisitor]) = Data(c, s)
          /\ toClient'[ToVisitor] = Tail(toClient[ToVisitor])
      BY <1>0, <1>2, ClientReadEffect
    <2> DEFINE g == got["visitor"][c]
               e == VisitorEnd(c)
               S == sent["provider"][c]
               r == toClient'[ToVisitor]
               z == toServer[ToProvider]
    <2>4. PICK j \in Nat :
              /\ e = "open" => /\ Len(g) <= j /\ j <= S /\ s = Chunks(Len(g), j)
                               /\ Flow(e, g \o s, r, z, S, c, j, m, k)
              /\ e # "open" => Flow(e, g, r, z, S, c, j, m, k)
      <3> DEFINE q == toClient[ToVisitor]
      <3>1. /\ Flow(e, g, q, z, S, c, n, m, k) /\ q # <<>> /\ Head(q) = Data(c, s) /\ r = Tail(q)
            /\ g \in Seq(Nat) /\ q \in Seq(Msg) /\ z \in Seq(Msg) /\ S \in Nat
            /\ e \in {"absent", "open", "closed"}
        BY <2>2, <2>3, FlowTypes DEF DownFlow
      <3> HIDE DEF e, g, q, z, S, r
      <3> QED
        BY <3>1, FlowRead
    <2>5. CASE e = "open"
      <3>1. got' = [got EXCEPT !["visitor"][c] = g \o s]
        BY <1>0, <2>1, <2>5 DEF ClientHandleData, VisitorEnd
      <3>2. got'["visitor"] = [got["visitor"] EXCEPT ![c] = g \o s] /\ got'["visitor"][c] = g \o s
        BY <2>1, <3>1 DEF TypeOK
      <3>3. DownFlow(c, j, m, k)'
        BY <1>0, <2>4, <2>5, <3>2 DEF DownFlow
      <3>4. DownOne(c)'
        BY <1>0, <2>2, <3>3 DEF DownOne, Passing
      <3>5. DownSteps
        <4>1. sent'["provider"] = sent["provider"]
          BY <1>0
        <4> DEFINE G == got["visitor"]
                   T == sent["provider"]
        <4>2. Len(G[c]) <= j /\ j <= T[c] /\ s = Chunks(Len(G[c]), j)
          BY <2>4, <2>5
        <4>3. got'["visitor"] = [G EXCEPT ![c] = G[c] \o s]
          BY <3>2
        <4>4. Step(T, T, G, [G EXCEPT ![c] = G[c] \o s])
          <5> HIDE DEF G, T
          <5> QED
            BY <4>2, StepReads
        <4> QED
          BY <4>1, <4>3, <4>4 DEF DownSteps
      <3> QED
        BY <1>1, <3>4, <3>5 DEF DownInv
    <2>6. CASE e # "open"
      <3>1. got' = got
        BY <1>0, <2>1, <2>6 DEF ClientHandleData, VisitorEnd
      <3>3. DownFlow(c, j, m, k)'
        BY <1>0, <2>4, <2>6, <3>1 DEF DownFlow
      <3>4. DownOne(c)'
        BY <1>0, <2>2, <3>3 DEF DownOne, Passing
      <3>5. DownSteps
        BY <1>0, <3>1 DEF DownSteps, Step
      <3> QED
        BY <1>1, <3>4, <3>5 DEF DownInv
    <2> QED
      BY <2>5, <2>6
  <1>3. CASE w # ToVisitor
    <2>1. got'["visitor"] = got["visitor"]
      <3>1. w[1] = "provider"
        BY <1>0, <1>3
      <3> QED
        BY <3>1 DEF ClientHandleData, TypeOK, Clients
    <2>2. DownSteps
      BY <1>0, <2>1 DEF DownSteps, Step
    <2> QED
      BY <1>1, <1>3, <2>2 DEF DownInv
  <1> QED
    BY <1>2, <1>3

\* A step that says nothing of any stream, and announces nothing but a connection
\* whose user has just come.
Silently ==
    /\ UNCHANGED <<sent, got, up, serving, buffer>> /\ stcpConns' \subseteq stcpConns
    /\ \A d \in Conns :
          /\ VisitorEnd(d)' # "closed" => VisitorEnd(d) # "closed"
          /\ VisitorEnd(d)' = "absent" => VisitorEnd(d) = "absent"
          /\ ProviderEnd(d)' # "closed" => ProviderEnd(d) # "closed"
          /\ ProviderEnd(d)' = "absent" => ProviderEnd(d) = "absent"
          /\ Fresh(d)' => Fresh(d)
    /\ \A w \in Writers, d \in Conns :
          SameFor(toClient[w], toClient'[w], d) /\ SameFor(toServer[w], toServer'[w], d)

LEMMA SilentSends ==
    ASSUME TypeOK, NEW v \in Writers, NEW m \in Msg, Send(v, m), m.type # "data", m.type # "newVisitor"
    PROVE  \A w \in Writers, d \in Conns :
              SameFor(toServer[w], toServer'[w], d) /\ Later(toServer[w], toServer'[w], d)
  <1>1. \A d \in Conns : ~IsData(m, d) /\ m # NewVisitor(d)
    BY DEF IsData, NewVisitor
  <1> QED
    BY <1>1, SendEffect

LEMMA SilentReads ==
    ASSUME TypeOK, NEW v \in Writers, NEW m, ClientReads(v, m), m.type # "data"
    PROVE  \A w \in Writers, d \in Conns : SameFor(toClient[w], toClient'[w], d)
  <1>1. \A d \in Conns : ~IsData(m, d)
    BY DEF IsData
  <1> QED
    BY <1>1, ClientReadEffect

LEMMA SilentTasks ==
    ASSUME TypeOK, OnControl, OrderInv, NEW c \in Conns,
           \/ ProviderDials(c) \/ DialSucceeds(c) \/ DialFails(c)
           \/ UserConnect(c) \/ IdleSweep(c)
           \/ \E w \in Links : ClientHandleClose(w, c)
           \/ \E cl \in Clients : ForwardEnd(cl, c)
           \/ UNCHANGED vars
    PROVE  Silently
  <1>0. ToVisitor \in Writers /\ ToProvider \in Writers
    BY Control
  <1>1. /\ UNCHANGED <<sent, got, up, serving, buffer>> /\ stcpConns' \subseteq stcpConns
    BY DEF ProviderDials, DialSucceeds, DialFails, UserConnect, IdleSweep, ClientHandleClose,
           ForwardEnd, CloseStcpConn, frpsVars, endVars, vars
  <1>2. \A d \in Conns :
          /\ VisitorEnd(d)' # "closed" => VisitorEnd(d) # "closed"
          /\ VisitorEnd(d)' = "absent" => VisitorEnd(d) = "absent"
          /\ ProviderEnd(d)' # "closed" => ProviderEnd(d) # "closed"
          /\ ProviderEnd(d)' = "absent" => ProviderEnd(d) = "absent"
    <2>1. CASE UNCHANGED end
      BY <2>1 DEF VisitorEnd, ProviderEnd
    <2>2. CASE DialSucceeds(c)
      <3>1. "provider" \in Clients /\ end' = [end EXCEPT !["provider"][c] = "open"]
        BY <2>2 DEF DialSucceeds, Clients
      <3>2. \A d \in Conns : /\ VisitorEnd(d)' = VisitorEnd(d)
                             /\ ProviderEnd(d)' = IF d = c THEN "open" ELSE ProviderEnd(d)
        BY <3>1, EndSet
      <3>3. ProviderEnd(c) = "absent"
        BY <2>2 DEF DialSucceeds, OrderInv, OneInv
      <3> QED
        BY <3>2, <3>3
    <2>3. CASE UserConnect(c)
      <3>1. /\ "visitor" \in Clients /\ end' = [end EXCEPT !["visitor"][c] = "open"]
            /\ VisitorEnd(c) = "absent"
        BY <2>3 DEF UserConnect, Clients, VisitorEnd
      <3> QED
        BY <3>1, EndSet
    <2>4. ASSUME NEW cl \in Clients, end' = [end EXCEPT ![cl][c] = "closed"]
          PROVE  \A d \in Conns :
                    /\ VisitorEnd(d)' # "closed" => VisitorEnd(d) # "closed"
                    /\ VisitorEnd(d)' = "absent" => VisitorEnd(d) = "absent"
                    /\ ProviderEnd(d)' # "closed" => ProviderEnd(d) # "closed"
                    /\ ProviderEnd(d)' = "absent" => ProviderEnd(d) = "absent"
      <3>1. ASSUME NEW d \in Conns
            PROVE  VisitorEnd(d)' \in {VisitorEnd(d), "closed"} /\ ProviderEnd(d)' \in {ProviderEnd(d), "closed"}
        <4> DEFINE x == "closed"
        <4>1. end' = [end EXCEPT ![cl][c] = x]
          BY <2>4
        <4> HIDE DEF x
        <4>2. VisitorEnd(d)' \in {VisitorEnd(d), x} /\ ProviderEnd(d)' \in {ProviderEnd(d), x}
          BY <4>1, EndSet
        <4> QED
          BY <4>2 DEF x
      <3> QED
        BY <3>1
    <2>5. ASSUME NEW w \in Links, ClientHandleClose(w, c)
          PROVE  UNCHANGED end \/ \E cl \in Clients : end' = [end EXCEPT ![cl][c] = "closed"]
      BY <2>5, WriterType DEF ClientHandleClose
    <2> QED
      BY <2>1, <2>2, <2>3, <2>4, <2>5 DEF ProviderDials, DialFails, IdleSweep, ForwardEnd, endVars, vars
  <1>3. /\ \A w \in Writers, d \in Conns :
              SameFor(toClient[w], toClient'[w], d) /\ SameFor(toServer[w], toServer'[w], d)
        /\ \A d \in Conns : Fresh(d)' => Fresh(d)
    <2>0. /\ Ready(c) \in Msg /\ Close(c) \in Msg /\ NewVisitor(c) \in Msg
          /\ Ready(c).type = "ready" /\ Close(c).type = "close" /\ NewVisitor(c).type = "newVisitor"
      BY Messages DEF Ready, Close, NewVisitor
    <2>1. ASSUME \A w \in Writers, d \in Conns :
                    SameFor(toServer[w], toServer'[w], d) /\ Later(toServer[w], toServer'[w], d),
                 \A w \in Writers, d \in Conns : SameFor(toClient[w], toClient'[w], d)
          PROVE  <1>3!1 /\ \A d \in Conns : Fresh(d)' => Fresh(d)
      <3>1. ASSUME NEW d \in Conns, Fresh(d)' PROVE Fresh(d)
        BY <1>0, <1>2, <2>1, <3>1 DEF Fresh, Later
      <3> QED
        BY <2>1, <3>1
    <2>2. CASE UNCHANGED <<toServer, toClient>>
      BY <2>1, <2>2, SameForSame, KeptSame
    <2>3. CASE ProviderDials(c)
      <3>1. ClientReads(ToProvider, NewVisitor(c)) /\ UNCHANGED toServer
        BY <2>3 DEF ProviderDials, ToProvider
      <3> QED
        BY <1>0, <2>0, <2>1, <3>1, SilentReads, SameForSame, KeptSame
    <2>4. CASE DialSucceeds(c)
      <3>1. Send(ToProvider, Ready(c)) /\ UNCHANGED toClient
        BY <2>4 DEF DialSucceeds, ToProvider
      <3> QED
        BY <1>0, <2>0, <2>1, <3>1, SilentSends, SameForSame
    <2>5. CASE DialFails(c)
      <3>1. Send(ToProvider, Close(c)) /\ UNCHANGED toClient
        BY <2>5, Control DEF DialFails
      <3> QED
        BY <1>0, <2>0, <2>1, <3>1, SilentSends, SameForSame
    <2>6. ASSUME NEW w \in Links, ClientHandleClose(w, c)
          PROVE  <1>3!1 /\ \A d \in Conns : Fresh(d)' => Fresh(d)
      <3>1. w \in Writers /\ ClientReads(w, Close(c)) /\ UNCHANGED toServer
        BY <2>6, WriterType DEF ClientHandleClose
      <3> QED
        BY <2>0, <2>1, <3>1, SilentReads, SameForSame, KeptSame
    <2>7. CASE IdleSweep(c)
      <3>1. CloseStcpConn(c) /\ UNCHANGED toServer
        BY <2>7 DEF IdleSweep
      <3> QED
        BY <2>1, <3>1, CloseEffect, SameForSame, KeptSame
    <2>8. CASE UserConnect(c)
      <3>1. /\ Send(ToVisitor, NewVisitor(c)) /\ UNCHANGED toClient /\ Fresh(c)
        BY <2>8 DEF UserConnect, ToVisitor, Fresh, VisitorEnd
      <3>2. \A d \in Conns : ~IsData(NewVisitor(c), d) /\ (d # c => NewVisitor(c) # NewVisitor(d))
        BY DEF IsData, NewVisitor
      <3>3. \A w \in Writers, d \in Conns : SameFor(toServer[w], toServer'[w], d)
        BY <1>0, <2>0, <3>1, <3>2, SendEffect
      <3>4. \A d \in Conns : d # c => Later(toServer[ToVisitor], toServer'[ToVisitor], d)
        BY <1>0, <2>0, <3>1, <3>2, SendEffect
      <3>5. ASSUME NEW d \in Conns, Fresh(d)' PROVE Fresh(d)
        BY <1>2, <3>1, <3>4, <3>5 DEF Fresh, Later
      <3> QED
        BY <3>1, <3>3, <3>5, SameForSame
    <2> QED
      BY <2>2, <2>3, <2>4, <2>5, <2>6, <2>7, <2>8 DEF ForwardEnd, vars
  <1> QED
    BY <1>1, <1>2, <1>3 DEF Silently

LEMMA DownSilent ==
    ASSUME TypeOK, OnControl, DownInv, Silently
    PROVE  DownInv' /\ DownSteps
  <1>0. ToVisitor \in Writers /\ ToProvider \in Writers
    BY Control
  <1>1. ASSUME NEW d \in Conns PROVE DownOne(d)'
    <2>1. DownQuiet(d)
      BY <1>0 DEF Silently, DownQuiet, Passing
    <2> QED
      BY <2>1, DownKept DEF DownInv
  <1>2. DownSteps
    BY DEF Silently, DownSteps, Step
  <1> QED
    BY <1>1, <1>2 DEF DownInv

LEMMA DownEnds ==
    ASSUME TypeOK, OnControl, DownInv, NEW cl \in Clients, ClientBreaks(cl) \/ ClientGone(cl)
    PROVE  DownInv' /\ DownSteps
  <1>0. /\ UNCHANGED <<end, sent, got>> /\ stcpConns' \subseteq stcpConns
        /\ up' \subseteq up /\ serving' \subseteq serving
        /\ \A d \in Conns : VisitorEnd(d)' = VisitorEnd(d)
        /\ ToVisitor \in Writers /\ ToProvider \in Writers
        /\ ToVisitor[1] = "visitor" /\ ToProvider[1] = "provider"
    BY Control DEF ClientBreaks, ClientGone, endVars, frpsVars, VisitorEnd
  <1>1. DownSteps
    BY <1>0 DEF DownSteps, Step
  <1>2. ASSUME NEW d \in Conns PROVE DownOne(d)'
    <2>1. PICK n \in Nat, m \in Nat, k \in Nat : DownFlow(d, n, m, k) /\ (Passing(d) => m = k)
      BY DEF DownInv, DownOne
    <2>2. CASE ClientBreaks(cl)
      <3>1. /\ UNCHANGED toServer /\ up' = up \ {cl}
            /\ toClient'[ToVisitor] = IF cl = "visitor" THEN <<>> ELSE toClient[ToVisitor]
        BY <1>0, <2>2 DEF ClientBreaks
      <3>2. CASE cl = "visitor"
        <4>1. Flow(VisitorEnd(d), got["visitor"][d], <<>>, toServer[ToProvider],
                   sent["provider"][d], d, n, n, k)
          BY <2>1, FlowTypes, FlowLost DEF DownFlow
        <4>2. DownFlow(d, n, n, k)' /\ ~Passing(d)'
          BY <1>0, <3>1, <3>2, <4>1 DEF DownFlow, Passing
        <4> QED
          BY <4>2 DEF DownOne
      <3>3. CASE cl # "visitor"
        <4>1. DownFlow(d, n, m, k)' /\ (Passing(d)' => Passing(d))
          BY <1>0, <2>1, <3>1, <3>3 DEF DownFlow, Passing
        <4> QED
          BY <2>1, <4>1 DEF DownOne
      <3> QED
        BY <3>2, <3>3
    <2>3. CASE ClientGone(cl)
      <3>1. /\ serving' = serving \ {cl}
            /\ SameFor(toClient[ToVisitor], toClient'[ToVisitor], d)
            /\ toServer'[ToProvider] = IF cl = "provider" THEN <<>> ELSE toServer[ToProvider]
        BY <1>0, <2>3, GoneEffect
      <3>2. CASE cl = "provider"
        <4>1. Flow(VisitorEnd(d), got["visitor"][d], toClient[ToVisitor], <<>>,
                   sent["provider"][d], d, n, m, sent["provider"][d])
          BY <2>1, FlowTypes, FlowLost DEF DownFlow
        <4>2. PICK s \in Nat : s = sent["provider"][d]
          BY FlowTypes
        <4>3. Flow(VisitorEnd(d), got["visitor"][d], toClient'[ToVisitor], <<>>,
                   sent["provider"][d], d, n, m, s)
          BY <3>1, <4>1, <4>2, FlowSame, SameForSame
        <4>4. DownFlow(d, n, m, s)' /\ ~Passing(d)'
          BY <1>0, <3>1, <3>2, <4>3 DEF DownFlow, Passing
        <4> QED
          BY <4>2, <4>4 DEF DownOne
      <3>3. CASE cl # "provider"
        <4>1. DownQuiet(d)
          BY <1>0, <3>1, <3>3, SameForSame DEF DownQuiet, Passing
        <4> QED
          BY <4>1, DownKept DEF DownInv
      <3> QED
        BY <3>2, <3>3
    <2> QED
      BY <2>2, <2>3
  <1> QED
    BY <1>1, <1>2 DEF DownInv

LEMMA DownForward ==
    ASSUME TypeOK, OnControl, DownInv, NEW cl \in Clients, NEW c \in Conns, ForwardData(cl, c)
    PROVE  DownInv' /\ DownSteps
  <1> DEFINE x == Data(c, <<sent[cl][c] + 1>>)
             v == DataWriter(cl)
  <1>1. /\ UNCHANGED <<up, serving, stcpConns, end, got, toClient>>
        /\ sent' = [sent EXCEPT ![cl][c] = sent[cl][c] + 1]
        /\ Send(v, x)
        /\ \A d \in Conns : VisitorEnd(d)' = VisitorEnd(d)
    BY DEF ForwardData, frpsVars, VisitorEnd
  <1>2. x \in Msg /\ x.conn = c /\ v \in Writers /\ (v = ToProvider <=> cl = "provider")
        /\ ToProvider \in Writers
    <2>1. sent[cl][c] + 1 \in Nat
      BY DEF TypeOK
    <2>2. <<sent[cl][c] + 1>> \in Seq(Nat)
      BY <2>1
    <2> QED
      BY <2>2, Messages, WriterType, Control DEF Data, Clients
  <1>3. ASSUME NEW d \in Conns, d # c \/ cl # "provider"
        PROVE  DownOne(d)'
    <2>1. SameFor(toServer[ToProvider], toServer'[ToProvider], d)
      <3>1. d # c => ~IsData(x, d)
        BY <1>2 DEF IsData
      <3> HIDE DEF x, v
      <3> QED
        BY <1>1, <1>2, <1>3, <3>1, SendEffect
    <2>2. sent'["provider"][d] = sent["provider"][d]
      <3> DEFINE y == sent[cl][c] + 1
      <3>1. /\ sent' = [sent EXCEPT ![cl][c] = y] /\ "provider" \in Clients
            /\ sent \in [Clients -> [Conns -> 0..MaxChunks]]
        BY <1>1 DEF TypeOK, Clients
      <3> HIDE DEF y
      <3>2. \A k \in Clients : sent'[k][d] = IF k = cl /\ d = c THEN y ELSE sent[k][d]
        BY <3>1
      <3> QED
        BY <1>3, <3>1, <3>2
    <2>3. DownQuiet(d)
      BY <1>1, <2>1, <2>2, SameForSame DEF DownQuiet, Passing
    <2> QED
      BY <2>3, DownKept DEF DownInv
  <1>4. CASE cl = "provider"
    <2> DEFINE s == sent["provider"][c]
    <2>1. sent'["provider"] = [sent["provider"] EXCEPT ![c] = s + 1] /\ sent'["provider"][c] = s + 1
      BY <1>1, <1>4 DEF TypeOK, Clients
    <2>2. toServer'[ToProvider] = Append(toServer[ToProvider], Data(c, <<s + 1>>))
      <3>1. Data(c, <<s + 1>>) = x
        BY <1>4
      <3> HIDE DEF v, x, s
      <3>2. toServer'[ToProvider] = Append(toServer[ToProvider], x)
        <4>1. v = ToProvider
          BY <1>2, <1>4
        <4> QED
          BY <1>1, <1>2, <4>1, SendEffect
      <3> QED
        BY <3>1, <3>2
    <2>3. PICK n \in Nat, m \in Nat, k \in Nat : DownFlow(c, n, m, k) /\ (Passing(c) => m = k)
      BY DEF DownInv, DownOne
    <2>4. Flow(VisitorEnd(c), got["visitor"][c], toClient[ToVisitor],
               Append(toServer[ToProvider], Data(c, <<s + 1>>)), s + 1, c, n, m, k)
      BY <2>3, FlowTypes, FlowWritten DEF DownFlow
    <2>5. DownFlow(c, n, m, k)'
      BY <1>1, <2>1, <2>2, <2>4 DEF DownFlow
    <2>6. DownOne(c)'
      BY <1>1, <2>3, <2>5 DEF DownOne, Passing
    <2>7. DownSteps
      BY <1>1, <2>1 DEF DownSteps, Step
    <2> QED
      BY <1>3, <2>6, <2>7 DEF DownInv
  <1>5. CASE cl # "provider"
    <2>1. sent'["provider"] = sent["provider"]
      BY <1>1, <1>5 DEF TypeOK, Clients
    <2>2. DownSteps
      BY <1>1, <2>1 DEF DownSteps, Step
    <2> QED
      BY <1>3, <1>5, <2>2 DEF DownInv
  <1> QED
    BY <1>4, <1>5

LEMMA DownStep ==
    ASSUME TypeOK, OnControl, LinkInv, OrderInv, DownInv, [Next]_vars
    PROVE  DownInv' /\ DownSteps
  <1>1. ASSUME NEW w \in Links, FrpsTask(w) PROVE DownInv' /\ DownSteps
    <2>1. UNCHANGED <<sent, got>>
      BY <1>1, FrpsKeeps
    <2>2. DownSteps
      BY <2>1 DEF DownSteps, Step
    <2> QED
      BY <1>1, <2>2, DownFrps
  <1>2. ASSUME NEW c \in Conns,
               \/ ProviderDials(c) \/ DialSucceeds(c) \/ DialFails(c)
               \/ UserConnect(c) \/ IdleSweep(c)
               \/ \E w \in Links : ClientHandleClose(w, c)
               \/ \E cl \in Clients : ForwardEnd(cl, c)
        PROVE  DownInv' /\ DownSteps
    BY <1>2, SilentTasks, DownSilent
  <1>3. ASSUME NEW w \in Links, ClientTask(w) PROVE DownInv' /\ DownSteps
    BY <1>2, <1>3, DownRead, PayloadType DEF ClientTask
  <1>4. CASE UNCHANGED vars
    <2>1. ASSUME NEW d \in Conns PROVE DownOne(d)'
      <3>1. DownQuiet(d)
        BY <1>4, SameForSame DEF DownQuiet, Passing, VisitorEnd, vars, frpsVars, endVars
      <3> QED
        BY <3>1, DownKept DEF DownInv
    <2>2. DownSteps
      BY <1>4 DEF DownSteps, Step, vars, endVars
    <2> QED
      BY <2>1, <2>2 DEF DownInv
  <1> QED
    BY <1>1, <1>2, <1>3, <1>4, DownEnds, DownForward DEF Next

-----------------------------------------------------------------------------
(* The visitor's stream, where no drain suspends: what frps has taken and not *)
(* handed on yet waits in the buffer, as long as it may be handed on.          *)

Holding(c) == c \in stcpConns /\ "provider" \in up

\* frps has taken k chunks, and buffered the first b of them: all, until the
\* visitor is gone and its last messages with it.
Waits(c, m, b, k) ==
    /\ m <= b /\ b <= k /\ (Fresh(c) => k = 0)
    /\ "visitor" \in serving => b = k
    /\ Holding(c) => buffer["visitor"][c] = Chunks(m, b)

UpOne(c) == \E n, m, b, k \in Nat : UpFlow(c, n, m, k) /\ Waits(c, m, b, k)
UpInv == \A c \in Conns : UpOne(c)

\* A step that says nothing of the visitor's stream of d.
UpQuiet(d) ==
    /\ got'["provider"][d] = got["provider"][d] /\ sent'["visitor"][d] = sent["visitor"][d]
    /\ ProviderEnd(d)' # "closed" => ProviderEnd(d) # "closed"
    /\ ProviderEnd(d)' = "absent" => ProviderEnd(d) = "absent"
    /\ SameFor(toClient[ToProvider], toClient'[ToProvider], d)
    /\ SameFor(toServer[ToVisitor], toServer'[ToVisitor], d)
    /\ Fresh(d)' => Fresh(d)
    /\ "visitor" \in serving' => "visitor" \in serving
    /\ Holding(d)' => /\ buffer'["visitor"][d] = buffer["visitor"][d]
                      /\ Holding(d) \/ Fresh(d)

LEMMA UpKept ==
    ASSUME TypeOK, OnControl, OrderInv, NEW d \in Conns, UpOne(d), UpQuiet(d)
    PROVE  UpOne(d)'
  <1>1. PICK n \in Nat, m \in Nat, b \in Nat, k \in Nat : UpFlow(d, n, m, k) /\ Waits(d, m, b, k)
    BY DEF UpOne
  <1>2. UpFlow(d, n, m, k)'
    BY <1>1, FlowTypes, FlowSame DEF UpFlow, UpQuiet
  <1>3. ASSUME Fresh(d) PROVE buffer["visitor"][d] = Chunks(m, b)
    <2>1. k = 0 /\ m = k /\ b = k /\ buffer["visitor"][d] = <<>>
      BY <1>1, <1>3 DEF Waits, OrderInv, OneInv
    <2>2. Chunks(k, k) = <<>>
      BY ChunksType
    <2> QED
      BY <2>1, <2>2
  <1>4. Holding(d)' => buffer'["visitor"][d] = Chunks(m, b)
    BY <1>1, <1>3 DEF UpQuiet, Waits
  <1>5. Waits(d, m, b, k)'
    BY <1>1, <1>4 DEF UpQuiet, Waits
  <1> QED
    BY <1>2, <1>5 DEF UpOne

LEMMA TwoBehind ==
    ASSUME NEW q \in Seq(Msg), NEW x \in Msg, NEW y \in Msg
    PROVE  q \o <<x, y>> = (q \o <<x>>) \o <<y>>
  <1>1. <<x>> \in Seq(Msg) /\ <<y>> \in Seq(Msg)
    OBVIOUS
  <1>2. <<x, y>> = <<x>> \o <<y>>
    <2>1. <<x, y>> = Append(<<x>>, y)
      OBVIOUS
    <2> QED
      BY <1>1, <2>1, AppendIsConcat
  <1> QED
    BY <1>1, <1>2, ConcatAssociative

LEMMA VisitorBuffer ==
    ASSUME TypeOK, NEW c \in Conns, NEW x, buffer' = [buffer EXCEPT !["visitor"][c] = x]
    PROVE  buffer'["visitor"][c] = x
  BY DEF TypeOK, Clients

\* What frps does with the visitor's data.
LEMMA UpTaken ==
    ASSUME TypeOK, Steady, LinkInv, OrderInv, UpInv,
           NEW c \in Conns, NEW s \in Seq(Nat), NEW to,
           DataTask(ToVisitor, c, s, "visitor", to), UNCHANGED <<up, serving, end, sent, got>>
    PROVE  UpOne(c)'
  <1>0. OnControl /\ ~mode.pauses /\ ToVisitor \in Writers /\ "visitor" \in Clients
        /\ ToVisitor \in Links /\ ToVisitor[1] = "visitor" /\ ToVisitor # ToProvider
        /\ ToProvider \in Writers /\ ToProvider # None /\ ToProvider[1] = "provider"
    BY Control DEF Steady, Clients
  <1>1. StcpData(ToVisitor, c, s, "visitor", to)
    BY DEF DataTask, RelayData, RelayFails, BufferData
  <1>2. /\ c \in stcpConns /\ FrpsReads(ToVisitor, Data(c, s)) /\ to \in {None, ToProvider}
        /\ to = writer["provider"][c] /\ "visitor" \in serving
    <2>1. /\ c \in stcpConns /\ FrpsReads(ToVisitor, Data(c, s)) /\ to = writer[Other("visitor")][c]
          /\ to \in {None, ToProvider}
      BY <1>0, <1>1, DataFrom
    <2> QED
      BY <1>0, <2>1 DEF Other, FrpsReads
  <1>3. PICK n \in Nat, m \in Nat, b \in Nat, k \in Nat : UpFlow(c, n, m, k) /\ Waits(c, m, b, k)
    BY DEF UpInv, UpOne
  <1>4. b = k /\ m <= k /\ ~Fresh(c)
    <2>1. ~Fresh(c)
      BY <1>2 DEF OrderInv, OneInv
    <2> QED
      BY <1>2, <1>3, <2>1 DEF Waits
  <1>5. /\ toServer[ToVisitor] # <<>> /\ Head(toServer[ToVisitor]) = Data(c, s)
        /\ toServer'[ToVisitor] = Tail(toServer[ToVisitor])
        /\ toServer'[ToVisitor] \in Seq(Msg)
        /\ Later(toServer[ToVisitor], toServer'[ToVisitor], c)
    <2>1. /\ toServer[ToVisitor] \in Seq(Msg) /\ toServer[ToVisitor] # <<>>
          /\ Head(toServer[ToVisitor]) = Data(c, s)
          /\ toServer'[ToVisitor] = Tail(toServer[ToVisitor])
          /\ Later(toServer[ToVisitor], toServer'[ToVisitor], c)
      BY <1>0, <1>2, ReadEffect
    <2> QED
      BY <2>1
  <1>6. ProviderEnd(c)' = ProviderEnd(c) /\ ~Fresh(c)' /\ ("provider" \in up' <=> "provider" \in up)
    BY <1>4, <1>5 DEF ProviderEnd, VisitorEnd, Fresh, Later
  <1>7. PICK j \in Nat :
           /\ k <= j /\ s = Chunks(k, j)
           /\ Flow(ProviderEnd(c), got["provider"][c], toClient[ToProvider], toServer'[ToVisitor],
                   sent["visitor"][c], c, n, m, j)
    BY <1>0, <1>3, <1>5, FlowTypes, FlowTaken DEF UpFlow
  <1> DEFINE B == buffer["visitor"][c]
             q == toClient[ToProvider]
             G == got["provider"][c]
             e == ProviderEnd(c)
             r == toServer'[ToVisitor]
             S == sent["visitor"][c]
  <1>8. B \in Seq(Nat) /\ q \in Seq(Msg) /\ G \in Seq(Nat) /\ r \in Seq(Msg) /\ S \in Nat
    BY <1>0, <1>5, FlowTypes DEF TypeOK
  <1>9. Holding(c) => B = Chunks(m, k)
    BY <1>3, <1>4 DEF Waits
  <1>10. ASSUME "provider" \notin up' \/ c \notin stcpConns', SameFor(q, toClient'[ToProvider], c)
         PROVE  UpOne(c)'
    <2>1. Flow(e, G, toClient'[ToProvider], r, S, c, n, m, j)
      BY <1>7, <1>8, <1>10, FlowSame, SameForSame
    <2>2. UpFlow(c, n, m, j)'
      BY <1>6, <2>1 DEF UpFlow
    <2>3. Waits(c, m, j, j)'
      BY <1>4, <1>6, <1>7, <1>10 DEF Waits, Holding
    <2> QED
      BY <2>2, <2>3 DEF UpOne
  <1>11. CASE RelayData(ToVisitor, c, s, "visitor", to)
    <2>1. /\ to = ToProvider
          /\ toClient' = Written(ToProvider, IF B = <<>> THEN <<Data(c, s)>>
                                             ELSE <<Data(c, B), Data(c, s)>>)
          /\ buffer' = [buffer EXCEPT !["visitor"][c] = <<>>]
      BY <1>0, <1>2, <1>11 DEF RelayData
    <2>2. CASE "provider" \notin up
      <3>1. UNCHANGED toClient
        BY <1>0, <2>1, <2>2 DEF Written
      <3> QED
        BY <1>6, <1>10, <2>2, <3>1, SameForSame
    <2>3. CASE "provider" \in up
      <3>1. B = Chunks(m, k) /\ ProviderEnd(c) # "absent"
        <4>1. Holding(c)
          BY <1>2, <2>3 DEF Holding
        <4>2. writer["provider"][c] # None
          BY <1>0, <1>2, <2>1
        <4>3. ProviderEnd(c) # "absent"
          BY <4>2 DEF LinkInv, ProviderIsDialled, ProviderEnd
        <4> QED
          BY <1>9, <4>1, <4>3
      <3>2. Flow(e, G, toClient'[ToProvider], r, S, c, n, j, j)
        <4>1. CASE B = <<>>
          <5>1. m = k
            BY <1>4, <3>1, <4>1, ChunksType
          <5>2. m <= j /\ j <= j /\ s = Chunks(m, j)
            BY <1>7, <5>1
          <5>3. toClient' = Written(ToProvider, <<Data(c, s)>>) /\ <<Data(c, s)>> \in Seq(Msg)
            BY <2>1, <4>1, DataMessages
          <5>4. toClient'[ToProvider] = q \o <<Data(c, Chunks(m, j))>>
            BY <1>0, <2>3, <5>2, <5>3, WriteEffect
          <5>5. Flow(e, G, q \o <<Data(c, Chunks(m, j))>>, r, S, c, n, j, j)
            <6> HIDE DEF e, G, q, r, S
            <6> QED
              BY <1>7, <1>8, <3>1, <5>2, FlowHanded DEF e, G, q, r, S
          <5> QED
            BY <5>4, <5>5
        <4>2. CASE B # <<>>
          <5> DEFINE x == Data(c, Chunks(m, k))
                     y == Data(c, Chunks(k, j))
          <5>1. /\ x \in Msg /\ y \in Msg /\ <<x, y>> \in Seq(Msg) /\ q \o <<x>> \in Seq(Msg)
            <6>1. x \in Msg /\ y \in Msg
              BY <1>4, <1>7, ChunksType, Messages
            <6> HIDE DEF x, y
            <6> QED
              BY <1>8, <6>1
          <5>2. toClient' = Written(ToProvider, <<x, y>>)
            BY <1>7, <2>1, <3>1, <4>2
          <5>3. toClient'[ToProvider] = (q \o <<x>>) \o <<y>>
            <6> HIDE DEF x, y
            <6>1. toClient'[ToProvider] = q \o <<x, y>>
              BY <1>0, <2>3, <5>1, <5>2, WriteEffect
            <6> QED
              BY <1>8, <5>1, <6>1, TwoBehind
          <5>4. m <= k /\ k <= j /\ j <= j
            BY <1>4, <1>7
          <5>5. Flow(e, G, q \o <<x>>, r, S, c, n, k, j)
            BY <1>7, <1>8, <3>1, <5>4, FlowHanded
          <5>6. Flow(e, G, (q \o <<x>>) \o <<y>>, r, S, c, n, j, j)
            BY <1>8, <3>1, <5>1, <5>4, <5>5, FlowHanded
          <5> QED
            BY <5>3, <5>6
        <4> QED
          BY <4>1, <4>2
      <3>3. UpFlow(c, n, j, j)'
        BY <1>6, <3>2 DEF UpFlow
      <3>4. Waits(c, j, j, j)'
        <4>1. buffer'["visitor"][c] = <<>> /\ Chunks(j, j) = <<>>
          <5>1. buffer'["visitor"][c] = <<>>
            <6> DEFINE x == <<>>
            <6>1. buffer' = [buffer EXCEPT !["visitor"][c] = x]
              BY <2>1
            <6> HIDE DEF x
            <6>2. buffer'["visitor"][c] = x
              BY <6>1, VisitorBuffer
            <6> QED
              BY <6>2 DEF x
          <5>2. j <= j
            OBVIOUS
          <5> QED
            BY <5>1, <5>2, ChunksType
        <4> QED
          BY <1>6, <4>1 DEF Waits
      <3> QED
        BY <3>3, <3>4 DEF UpOne
    <2> QED
      BY <2>2, <2>3
  <1>12. CASE RelayFails(ToVisitor, c, s, "visitor", to)
    <2>1. CloseStcpConn(c)
      BY <1>12 DEF RelayFails
    <2>2. c \notin stcpConns' /\ SameFor(q, toClient'[ToProvider], c)
      BY <1>0, <2>1, CloseEffect
    <2> QED
      BY <1>10, <2>2
  <1>13. CASE BufferData(ToVisitor, c, s, "visitor") /\ to = None
    <2>1. /\ buffer' = [buffer EXCEPT !["visitor"][c] = B \o s]
          /\ UNCHANGED <<stcpConns, toClient>>
      BY <1>13 DEF BufferData
    <2>2. UpFlow(c, n, m, j)'
      BY <1>6, <1>7, <2>1 DEF UpFlow
    <2>3. Holding(c)' => buffer'["visitor"][c] = Chunks(m, j)
      <3>1. buffer'["visitor"][c] = B \o s
        BY <2>1, VisitorBuffer
      <3>2. Chunks(m, k) \o Chunks(k, j) = Chunks(m, j)
        BY <1>4, <1>7, ChunksJoin
      <3> QED
        BY <1>6, <1>7, <1>9, <2>1, <3>1, <3>2 DEF Holding
    <2>4. Waits(c, m, j, j)'
      BY <1>4, <1>6, <1>7, <2>3 DEF Waits
    <2> QED
      BY <2>2, <2>4 DEF UpOne
  <1> QED
    BY <1>11, <1>12, <1>13 DEF DataTask

\* Linking the provider flushes what waits.
LEMMA UpReady ==
    ASSUME TypeOK, Steady, LinkInv, OrderInv, UpInv, NEW c \in Conns, HandleStcpVisitorReady(c),
           UNCHANGED <<up, serving, end, sent, got>>
    PROVE  UpInv'
  <1>0. OnControl /\ ~mode.pauses /\ ToVisitor \in Writers /\ ToProvider \in Writers
        /\ ToProvider[1] = "provider" /\ ToProvider # ToVisitor
    BY Control DEF Steady
  <1> DEFINE B == buffer["visitor"][c]
  <1>1. /\ FrpsReads(ToProvider, Ready(c)) /\ UNCHANGED stcpConns
        /\ \/ /\ c \notin stcpConns \/ B = <<>>
              /\ UNCHANGED <<buffer, toClient>>
           \/ /\ c \in stcpConns
              /\ toClient' = Written(ToProvider, <<Data(c, B)>>)
              /\ buffer' = [buffer EXCEPT !["visitor"][c] = <<>>]
        /\ B \in Seq(Nat)
    BY <1>0 DEF HandleStcpVisitorReady, ToProvider, TypeOK, Clients
  <1>2. /\ \A d \in Conns : ~IsData(Ready(c), d)
        /\ \A d \in Conns : ProviderEnd(d)' = ProviderEnd(d) /\ VisitorEnd(d)' = VisitorEnd(d)
    BY DEF IsData, Ready, VisitorEnd, ProviderEnd
  <1>3. \A d \in Conns : /\ SameFor(toServer[ToVisitor], toServer'[ToVisitor], d)
                         /\ Later(toServer[ToVisitor], toServer'[ToVisitor], d)
    BY <1>0, <1>1, <1>2, ReadEffect
  <1>4. \A d \in Conns : Fresh(d)' => Fresh(d)
    BY <1>2, <1>3 DEF Fresh, Later
  <1>5. ASSUME NEW d \in Conns, SameFor(toClient[ToProvider], toClient'[ToProvider], d),
               Holding(d) => buffer'["visitor"][d] = buffer["visitor"][d]
        PROVE  UpOne(d)'
    <2>1. Holding(d)' => Holding(d)
      BY <1>1 DEF Holding
    <2>2. UpQuiet(d)
      BY <1>2, <1>3, <1>4, <1>5, <2>1 DEF UpQuiet
    <2> QED
      BY <1>0, <2>2, UpKept DEF UpInv
  <1>6. ASSUME NEW d \in Conns, d # c PROVE UpOne(d)'
    <2>1. SameFor(toClient[ToProvider], toClient'[ToProvider], d)
      <3>1. CASE toClient' = Written(ToProvider, <<Data(c, B)>>)
        <4> HIDE DEF B
        <4> QED
          BY <1>0, <1>1, <1>6, <3>1, WriteOther
      <3> QED
        BY <1>1, <3>1, SameForSame
    <2>2. buffer'["visitor"][d] = buffer["visitor"][d]
      <3>1. "visitor" \in Clients
        BY DEF Clients
      <3>2. UNCHANGED buffer \/ buffer' = [buffer EXCEPT !["visitor"][c] = <<>>]
        BY <1>1
      <3> QED
        BY <1>6, <3>1, <3>2 DEF TypeOK
    <2> QED
      BY <1>5, <2>1, <2>2
  <1>7. UpOne(c)'
    <2>1. CASE UNCHANGED <<buffer, toClient>>
      BY <1>5, <2>1, SameForSame
    <2>2. CASE "provider" \notin up /\ toClient' = Written(ToProvider, <<Data(c, B)>>)
      <3>1. UNCHANGED toClient
        BY <1>0, <2>2 DEF Written
      <3> QED
        BY <1>5, <2>2, <3>1, SameForSame DEF Holding
    <2>3. CASE /\ "provider" \in up /\ c \in stcpConns
               /\ toClient' = Written(ToProvider, <<Data(c, B)>>)
               /\ buffer' = [buffer EXCEPT !["visitor"][c] = <<>>]
      <3>1. PICK n \in Nat, m \in Nat, b \in Nat, k \in Nat : UpFlow(c, n, m, k) /\ Waits(c, m, b, k)
        BY DEF UpInv, UpOne
      <3>2. B = Chunks(m, b) /\ m <= b /\ b <= k
        BY <2>3, <3>1 DEF Waits, Holding
      <3>3. ProviderEnd(c) # "absent"
        <4>1. Says(toServer[ToProvider], "ready", c)
          BY <1>0, <1>1, FrpsReadsSays DEF Ready
        <4> QED
          BY <1>0, <4>1 DEF LinkInv
      <3>4. Flow(ProviderEnd(c), got["provider"][c], toClient[ToProvider] \o <<Data(c, Chunks(m, b))>>,
                 toServer[ToVisitor], sent["visitor"][c], c, n, b, k)
        BY <1>0, <3>1, <3>2, <3>3, FlowTypes, FlowHanded DEF UpFlow
      <3>5. toClient'[ToProvider] = toClient[ToProvider] \o <<Data(c, Chunks(m, b))>>
        <4>1. <<Data(c, B)>> \in Seq(Msg)
          BY <1>1, DataMessages
        <4>2. toClient'[ToProvider] = toClient[ToProvider] \o <<Data(c, B)>>
          BY <1>0, <2>3, <4>1, WriteEffect
        <4> QED
          BY <3>2, <4>2
      <3>6. Flow(ProviderEnd(c), got["provider"][c], toClient'[ToProvider],
                 toServer'[ToVisitor], sent["visitor"][c], c, n, b, k)
        <4>1. sent["visitor"][c] \in Nat
          BY <1>0, FlowTypes
        <4> QED
          BY <1>3, <3>4, <3>5, <4>1, FlowSame, SameForSame
      <3>7. UpFlow(c, n, b, k)'
        BY <1>2, <3>6 DEF UpFlow
      <3>8. buffer'["visitor"][c] = Chunks(b, b)
        <4>1. buffer'["visitor"][c] = <<>>
          <5> DEFINE x == <<>>
          <5>1. buffer' = [buffer EXCEPT !["visitor"][c] = x]
            BY <2>3
          <5> HIDE DEF x
          <5>2. buffer'["visitor"][c] = x
            BY <5>1, VisitorBuffer
          <5> QED
            BY <5>2 DEF x
        <4> QED
          BY <4>1, ChunksType
      <3>9. Waits(c, b, b, k)'
        BY <1>4, <3>1, <3>8 DEF Waits
      <3> QED
        BY <3>7, <3>9 DEF UpOne
    <2> QED
      BY <1>1, <2>1, <2>2, <2>3
  <1> QED
    BY <1>6, <1>7 DEF UpInv

LEMMA UpRelays ==
    ASSUME TypeOK, Steady, LinkInv, OrderInv, UpInv,
           NEW w \in Links, NEW c \in Conns, NEW s \in Seq(Nat), NEW side \in Clients, NEW to,
           DataTask(w, c, s, side, to), UNCHANGED <<up, serving, end, sent, got>>
    PROVE  UpInv'
  <1>0. OnControl /\ ToVisitor \in Writers /\ ToProvider \in Writers /\ ToProvider # ToVisitor
    BY Control DEF Steady
  <1>1. StcpData(w, c, s, side, to)
    BY DEF DataTask, RelayData, RelayFails, BufferData
  <1>2. /\ c \in stcpConns /\ FrpsReads(w, Data(c, s)) /\ w \in Writers
        /\ \/ side = "provider" /\ w = ToProvider /\ to = ToVisitor
           \/ side = "visitor" /\ w = ToVisitor /\ to \in {None, ToProvider}
    BY <1>0, <1>1, DataFrom, WriterType
  <1>3. /\ \A d \in Conns : ProviderEnd(d)' = ProviderEnd(d) /\ VisitorEnd(d)' = VisitorEnd(d)
        /\ stcpConns' \subseteq stcpConns
        /\ \A d \in Conns : Holding(d)' => Holding(d)
    BY DEF VisitorEnd, ProviderEnd, DataTask, RelayData, RelayFails, BufferData, CloseStcpConn, Holding
  <1>4. /\ buffer[side][c] \in Seq(Nat)
        /\ RelayData(w, c, s, side, to) =>
              /\ to \in Writers
              /\ toClient' \in {Written(to, <<Data(c, s)>>), Written(to, <<Data(c, buffer[side][c])>>),
                                Written(to, <<Data(c, buffer[side][c]), Data(c, s)>>)}
        /\ RelayFails(w, c, s, side, to) => CloseStcpConn(c)
        /\ BufferData(w, c, s, side) => UNCHANGED toClient
    <2>1. RelayData(w, c, s, side, to) => to \in Writers
      BY <1>0, <1>2 DEF RelayData
    <2> QED
      BY <2>1 DEF RelayData, RelayFails, BufferData, TypeOK
  <1>5. ASSUME NEW d \in Conns, d # c \/ side = "provider" PROVE UpOne(d)'
    <2>1. /\ SameFor(toServer[ToVisitor], toServer'[ToVisitor], d)
          /\ Later(toServer[ToVisitor], toServer'[ToVisitor], d)
      <3>1. d # c => ~IsData(Data(c, s), d)
        BY DEF IsData, Data
      <3> QED
        BY <1>0, <1>2, <1>5, <3>1, ReadEffect
    <2>2. SameFor(toClient[ToProvider], toClient'[ToProvider], d)
      <3>1. CASE RelayData(w, c, s, side, to)
        <4>1. d # c \/ to # ToProvider
          BY <1>0, <1>2, <1>5
        <4> QED
          BY <1>0, <1>4, <3>1, <4>1, WriteOther
      <3>2. CASE RelayFails(w, c, s, side, to)
        BY <1>0, <1>4, <3>2, CloseEffect
      <3>3. CASE BufferData(w, c, s, side)
        BY <1>4, <3>3, SameForSame
      <3> QED
        BY <3>1, <3>2, <3>3 DEF DataTask
    <2>3. buffer'["visitor"][d] = buffer["visitor"][d]
      <3>1. UNCHANGED buffer \/ \E x : buffer' = [buffer EXCEPT ![side][c] = x]
        BY DEF DataTask, RelayData, RelayFails, BufferData
      <3>2. ASSUME NEW x, buffer' = [buffer EXCEPT ![side][c] = x]
            PROVE  buffer'["visitor"][d] = buffer["visitor"][d]
        <4>1. "visitor" \in Clients /\ buffer \in [Clients -> [Conns -> Seq(Nat)]]
          BY DEF TypeOK, Clients
        <4> DEFINE v == "visitor"
        <4>2. v \in Clients /\ (d # c \/ v # side)
          BY <1>5, <4>1
        <4> HIDE DEF v
        <4>3. buffer'[v][d] = buffer[v][d]
          BY <3>2, <4>1, <4>2
        <4> QED
          BY <4>3 DEF v
      <3> QED
        BY <3>1, <3>2
    <2>4. Fresh(d)' => Fresh(d)
      BY <1>3, <2>1 DEF Fresh, Later
    <2>5. UpQuiet(d)
      BY <1>3, <2>1, <2>2, <2>3, <2>4 DEF UpQuiet
    <2> QED
      BY <1>0, <2>5, UpKept DEF UpInv
  <1>6. side = "visitor" => UpOne(c)'
    BY <1>2, UpTaken
  <1> QED
    BY <1>2, <1>5, <1>6 DEF UpInv

LEMMA UpFrps ==
    ASSUME TypeOK, Steady, LinkInv, OrderInv, UpInv, NEW w \in Links, FrpsTask(w)
    PROVE  UpInv'
  <1>0. /\ UNCHANGED <<mode, up, serving, end, sent, got>> /\ w \in Writers
        /\ ToVisitor \in Writers /\ ToProvider \in Writers /\ OnControl
        /\ ToProvider # ToVisitor
        /\ \A d \in Conns : VisitorEnd(d)' = VisitorEnd(d) /\ ProviderEnd(d)' = ProviderEnd(d)
    BY FrpsKeeps, WriterType, Control DEF VisitorEnd, ProviderEnd, Steady
  <1>1. ASSUME NEW d \in Conns,
               SameFor(toClient[ToProvider], toClient'[ToProvider], d),
               SameFor(toServer[ToVisitor], toServer'[ToVisitor], d),
               Later(toServer[ToVisitor], toServer'[ToVisitor], d),
               d \in stcpConns' => d \in stcpConns \/ Fresh(d),
               UNCHANGED buffer
        PROVE  UpOne(d)'
    <2>1. Fresh(d)' => Fresh(d)
      BY <1>0, <1>1 DEF Fresh, Later
    <2>2. Holding(d)' => Holding(d) \/ Fresh(d)
      BY <1>0, <1>1 DEF Holding
    <2>3. UpQuiet(d)
      BY <1>0, <1>1, <2>1, <2>2 DEF UpQuiet
    <2> QED
      BY <1>0, <2>3, UpKept DEF UpInv
  <1>2. ASSUME NEW c \in Conns, HandleStcpNewVisitor(c) PROVE UpInv'
    <2>1. /\ FrpsReads(ToVisitor, NewVisitor(c)) /\ UNCHANGED buffer
          /\ stcpConns' \subseteq stcpConns \cup {c}
          /\ \/ UNCHANGED toClient
             \/ toClient' = Written(ToProvider, <<NewVisitor(c)>>)
             \/ toClient' = Written(ToVisitor, <<Close(c)>>)
      BY <1>2 DEF HandleStcpNewVisitor, ToVisitor, ToProvider
    <2>2. \A d \in Conns : ~IsData(NewVisitor(c), d) /\ ~IsData(Close(c), d)
      BY DEF IsData, NewVisitor, Close
    <2>3. /\ <<NewVisitor(c)>> \in Seq(Msg) /\ <<Close(c)>> \in Seq(Msg)
          /\ \A d \in Conns : Silent(<<NewVisitor(c)>>, d) /\ Silent(<<Close(c)>>, d)
      BY <2>2, Messages DEF Silent
    <2>4. \A d \in Conns : SameFor(toClient[ToProvider], toClient'[ToProvider], d)
      BY <1>0, <2>1, <2>3, WriteEffect, SameForSame
    <2>5. \A d \in Conns : /\ SameFor(toServer[ToVisitor], toServer'[ToVisitor], d)
                           /\ Later(toServer[ToVisitor], toServer'[ToVisitor], d)
      BY <1>0, <2>1, <2>2, ReadEffect
    <2>6. Fresh(c)
      <3>1. toServer[ToVisitor] \in Seq(Msg) /\ toServer[ToVisitor] # <<>>
            /\ Head(toServer[ToVisitor]) = NewVisitor(c)
        BY <1>0, <2>1, ReadEffect
      <3> QED
        BY <3>1, KeptTail DEF Fresh
    <2> QED
      BY <1>1, <2>1, <2>4, <2>5, <2>6 DEF UpInv
  <1>3. ASSUME NEW c \in Conns, HandleStcpVisitorReady(c) PROVE UpInv'
    BY <1>0, <1>3, UpReady
  <1>4. ~FlushDone(w)
    BY <1>0 DEF FlushDone, OrderInv, FlushInv, Steady
  <1>5. ASSUME NEW c \in Conns, HandleClose(w, c) PROVE UpInv'
    <2>1. FrpsReads(w, Close(c)) /\ CloseStcpConn(c) /\ UNCHANGED buffer
      BY <1>5 DEF HandleClose
    <2>2. \A d \in Conns : ~IsData(Close(c), d)
      BY DEF IsData, Close
    <2>3. \A d \in Conns : /\ SameFor(toClient[ToProvider], toClient'[ToProvider], d)
                           /\ SameFor(toServer[ToVisitor], toServer'[ToVisitor], d)
                           /\ Later(toServer[ToVisitor], toServer'[ToVisitor], d)
      BY <1>0, <2>1, <2>2, ReadEffect, CloseEffect
    <2>4. stcpConns' \subseteq stcpConns
      BY <2>1 DEF CloseStcpConn
    <2> QED
      BY <1>1, <2>1, <2>3, <2>4 DEF UpInv
  <1>6. ASSUME NEW c \in Conns, NEW s, DropData(w, c, s) PROVE UpInv'
    <2>1. /\ FrpsReads(w, Data(c, s)) /\ c \notin stcpConns
          /\ UNCHANGED <<stcpConns, buffer, toClient>>
      BY <1>6 DEF DropData, frpsVars
    <2>2. ASSUME NEW d \in Conns, d # c \/ w # ToVisitor PROVE UpOne(d)'
      <3>1. d # c => ~IsData(Data(c, s), d)
        BY DEF IsData, Data
      <3>2. /\ SameFor(toServer[ToVisitor], toServer'[ToVisitor], d)
            /\ Later(toServer[ToVisitor], toServer'[ToVisitor], d)
        BY <1>0, <2>1, <2>2, <3>1, ReadEffect
      <3> QED
        BY <1>1, <2>1, <3>2, SameForSame
    <2>3. ASSUME w = ToVisitor PROVE UpOne(c)'
      <3>1. PICK n \in Nat, m \in Nat, b \in Nat, k \in Nat : UpFlow(c, n, m, k) /\ Waits(c, m, b, k)
        BY DEF UpInv, UpOne
      <3>2. /\ toServer[ToVisitor] \in Seq(Msg)
            /\ toServer[ToVisitor] # <<>> /\ Head(toServer[ToVisitor]) = Data(c, s)
            /\ toServer'[ToVisitor] = Tail(toServer[ToVisitor])
            /\ Later(toServer[ToVisitor], toServer'[ToVisitor], c)
        BY <1>0, <2>1, <2>3, ReadEffect
      <3>3. PICK j \in Nat : /\ k <= j
                             /\ Flow(ProviderEnd(c), got["provider"][c], toClient[ToProvider],
                                     toServer'[ToVisitor], sent["visitor"][c], c, n, m, j)
        BY <1>0, <3>1, <3>2, FlowTypes, FlowTaken DEF UpFlow
      <3>4. UpFlow(c, n, m, j)'
        BY <1>0, <2>1, <3>3 DEF UpFlow
      <3>5. ~Fresh(c)'
        <4>1. OneInv(c)
          BY DEF OrderInv
        <4>2. Head(toServer[ToVisitor]) # NewVisitor(c) /\ Head(toServer[ToVisitor]).conn = c
          BY <3>2 DEF Data, NewVisitor
        <4>3. ~Announces(toServer[ToVisitor], c)
          BY <3>2, <4>1, <4>2, KeptTail DEF OneInv
        <4>4. ~Absent(toServer[ToVisitor], c)
          BY <3>2, <4>2 DEF Absent
        <4> QED
          BY <1>0, <3>2, <4>1, <4>3, <4>4 DEF OneInv, Fresh, Later
      <3>6. Waits(c, m, j, j)'
        BY <2>1, <3>1, <3>3, <3>5 DEF Waits, Holding
      <3> QED
        BY <3>4, <3>6 DEF UpOne
    <2> QED
      BY <2>2, <2>3 DEF UpInv
  <1>7. ASSUME NEW c \in Conns, NEW s \in Payload, HandleData(w, c, s) PROVE UpInv'
    <2>1. s \in Seq(Nat)
      BY PayloadType
    <2>2. ASSUME NEW side \in Clients, NEW to, DataTask(w, c, s, side, to) PROVE UpInv'
      BY <1>0, <2>1, <2>2, UpRelays
    <2>3. ASSUME NEW side \in Clients, BufferData(w, c, s, side) PROVE UpInv'
      <3> DEFINE to == None
      <3>1. DataTask(w, c, s, side, to)
        BY <2>3 DEF DataTask
      <3> QED
        BY <2>2, <3>1
    <2> QED
      BY <1>6, <1>7, <2>2, <2>3 DEF HandleData, DataTask
  <1> QED
    BY <1>2, <1>3, <1>4, <1>5, <1>7 DEF FrpsTask

UpSteps == Step(sent["visitor"], sent'["visitor"], got["provider"], got'["provider"])

LEMMA UpRead ==
    ASSUME TypeOK, Steady, OrderInv, UpInv, NEW w \in Links, NEW c \in Conns, NEW s \in Seq(Nat),
           ClientHandleData(w, c, s)
    PROVE  UpInv' /\ UpSteps
  <1>0. /\ OnControl /\ UNCHANGED <<mode, up, end, sent, toServer, serving, stcpConns, buffer>>
        /\ ClientReads(w, Data(c, s))
        /\ w \in Writers /\ ToProvider \in Writers /\ ~Skipped(w)
        /\ (w = ToVisitor /\ w[1] = "visitor") \/ (w = ToProvider /\ w[1] = "provider")
        /\ \A d \in Conns : ProviderEnd(d)' = ProviderEnd(d) /\ (Fresh(d)' <=> Fresh(d))
    BY WriterType, Control DEF ClientHandleData, frpsVars, ProviderEnd, VisitorEnd, Fresh, Steady
  <1>1. ASSUME NEW d \in Conns, d # c \/ w # ToProvider
        PROVE  UpOne(d)' /\ got'["provider"][d] = got["provider"][d]
    <2>1. d # c => ~IsData(Data(c, s), d)
      BY DEF IsData, Data
    <2>2. SameFor(toClient[ToProvider], toClient'[ToProvider], d)
      BY <1>0, <1>1, <2>1, ClientReadEffect
    <2>3. got'["provider"][d] = got["provider"][d]
      <3>1. CASE UNCHANGED got
        BY <3>1
      <3>2. CASE got' = [got EXCEPT ![w[1]][c] = got[w[1]][c] \o s]
        <4> DEFINE x == got[w[1]][c] \o s
                   cl == w[1]
        <4>1. cl \in Clients /\ "provider" \in Clients /\ (d # c \/ cl # "provider")
          BY <1>0, <1>1, Control DEF Clients
        <4>2. got' = [got EXCEPT ![cl][c] = x] /\ got \in [Clients -> [Conns -> Seq(Nat)]]
          BY <3>2 DEF TypeOK
        <4> HIDE DEF cl, x
        <4>3. \A k \in Clients : got'[k][d] = IF k = cl /\ d = c THEN x ELSE got[k][d]
          BY <4>1, <4>2
        <4> QED
          BY <4>1, <4>3
      <3> QED
        BY <3>1, <3>2 DEF ClientHandleData
    <2>4. UpQuiet(d)
      BY <1>0, <2>2, <2>3, SameForSame DEF UpQuiet, Holding
    <2> QED
      BY <1>0, <2>3, <2>4, UpKept DEF UpInv
  <1>2. CASE w = ToProvider
    <2>1. w[1] = "provider" /\ "provider" \in Clients
      BY <1>0, <1>2, Control DEF Clients
    <2>2. PICK n \in Nat, m \in Nat, b \in Nat, k \in Nat : UpFlow(c, n, m, k) /\ Waits(c, m, b, k)
      BY DEF UpInv, UpOne
    <2>3. /\ toClient[ToProvider] # <<>> /\ Head(toClient[ToProvider]) = Data(c, s)
          /\ toClient'[ToProvider] = Tail(toClient[ToProvider])
          /\ Waits(c, m, b, k)'
      BY <1>0, <1>2, <2>2, ClientReadEffect DEF Waits, Holding
    <2> DEFINE g == got["provider"][c]
               e == ProviderEnd(c)
               S == sent["visitor"][c]
               r == toClient'[ToProvider]
               z == toServer[ToVisitor]
    <2>4. PICK j \in Nat :
              /\ e = "open" => /\ Len(g) <= j /\ j <= S /\ s = Chunks(Len(g), j)
                               /\ Flow(e, g \o s, r, z, S, c, j, m, k)
              /\ e # "open" => Flow(e, g, r, z, S, c, j, m, k)
      <3> DEFINE q == toClient[ToProvider]
      <3>1. /\ Flow(e, g, q, z, S, c, n, m, k) /\ q # <<>> /\ Head(q) = Data(c, s) /\ r = Tail(q)
            /\ g \in Seq(Nat) /\ q \in Seq(Msg) /\ z \in Seq(Msg) /\ S \in Nat
            /\ e \in {"absent", "open", "closed"}
        BY <1>0, <2>2, <2>3, FlowTypes DEF UpFlow
      <3> HIDE DEF e, g, q, z, S, r
      <3> QED
        BY <3>1, FlowRead
    <2>5. CASE e = "open"
      <3>1. got' = [got EXCEPT !["provider"][c] = g \o s]
        BY <1>0, <2>1, <2>5 DEF ClientHandleData, ProviderEnd
      <3>2. got'["provider"] = [got["provider"] EXCEPT ![c] = g \o s] /\ got'["provider"][c] = g \o s
        BY <2>1, <3>1 DEF TypeOK
      <3>3. UpFlow(c, j, m, k)'
        BY <1>0, <2>4, <2>5, <3>2 DEF UpFlow
      <3>4. UpOne(c)'
        BY <2>3, <3>3 DEF UpOne
      <3>5. UpSteps
        <4>1. sent'["visitor"] = sent["visitor"]
          BY <1>0
        <4> DEFINE G == got["provider"]
                   T == sent["visitor"]
        <4>2. Len(G[c]) <= j /\ j <= T[c] /\ s = Chunks(Len(G[c]), j)
          BY <2>4, <2>5
        <4>3. got'["provider"] = [G EXCEPT ![c] = G[c] \o s]
          BY <3>2
        <4>4. Step(T, T, G, [G EXCEPT ![c] = G[c] \o s])
          <5> HIDE DEF G, T
          <5> QED
            BY <4>2, StepReads
        <4> QED
          BY <4>1, <4>3, <4>4 DEF UpSteps
      <3> QED
        BY <1>1, <3>4, <3>5 DEF UpInv
    <2>6. CASE e # "open"
      <3>1. got' = got
        BY <1>0, <2>1, <2>6 DEF ClientHandleData, ProviderEnd
      <3>2. UpFlow(c, j, m, k)'
        BY <1>0, <2>4, <2>6, <3>1 DEF UpFlow
      <3>3. UpOne(c)'
        BY <2>3, <3>2 DEF UpOne
      <3>4. UpSteps
        BY <1>0, <3>1 DEF UpSteps, Step
      <3> QED
        BY <1>1, <3>3, <3>4 DEF UpInv
    <2> QED
      BY <2>5, <2>6
  <1>3. CASE w # ToProvider
    <2>1. got'["provider"] = got["provider"]
      <3>1. w[1] = "visitor"
        BY <1>0, <1>3
      <3> QED
        BY <3>1 DEF ClientHandleData, TypeOK, Clients
    <2>2. UpSteps
      BY <1>0, <2>1 DEF UpSteps, Step
    <2> QED
      BY <1>1, <1>3, <2>2 DEF UpInv
  <1> QED
    BY <1>2, <1>3

LEMMA UpSilent ==
    ASSUME TypeOK, OnControl, OrderInv, UpInv, Silently
    PROVE  UpInv' /\ UpSteps
  <1>0. ToVisitor \in Writers /\ ToProvider \in Writers
    BY Control
  <1>1. ASSUME NEW d \in Conns PROVE UpOne(d)'
    <2>1. UpQuiet(d)
      BY <1>0 DEF Silently, UpQuiet, Holding
    <2> QED
      BY <2>1, UpKept DEF UpInv
  <1>2. UpSteps
    BY DEF Silently, UpSteps, Step
  <1> QED
    BY <1>1, <1>2 DEF UpInv

\* With a client go the messages to it, and with frps's end of it those from it.
LEMMA UpEnds ==
    ASSUME TypeOK, OnControl, OrderInv, UpInv, NEW cl \in Clients, ClientBreaks(cl) \/ ClientGone(cl)
    PROVE  UpInv' /\ UpSteps
  <1>0. /\ UNCHANGED <<end, sent, got, buffer>> /\ stcpConns' \subseteq stcpConns
        /\ up' \subseteq up /\ serving' \subseteq serving
        /\ \A d \in Conns : VisitorEnd(d)' = VisitorEnd(d) /\ ProviderEnd(d)' = ProviderEnd(d)
        /\ \A d \in Conns : Holding(d)' => Holding(d)
        /\ ToVisitor \in Writers /\ ToProvider \in Writers
        /\ ToVisitor[1] = "visitor" /\ ToProvider[1] = "provider"
    BY Control DEF ClientBreaks, ClientGone, endVars, frpsVars, VisitorEnd, ProviderEnd, Holding
  <1>1. UpSteps
    BY <1>0 DEF UpSteps, Step
  <1>2. ASSUME NEW d \in Conns PROVE UpOne(d)'
    <2>1. PICK n \in Nat, m \in Nat, b \in Nat, k \in Nat : UpFlow(d, n, m, k) /\ Waits(d, m, b, k)
      BY DEF UpInv, UpOne
    <2>2. n <= m /\ m <= b /\ b <= k /\ k <= sent["visitor"][d]
      BY <2>1, FlowTypes, FlowBounds DEF UpFlow, Waits
    <2>3. CASE ClientBreaks(cl)
      <3>1. /\ UNCHANGED toServer /\ up' = up \ {cl}
            /\ toClient'[ToProvider] = IF cl = "provider" THEN <<>> ELSE toClient[ToProvider]
            /\ Fresh(d)' <=> Fresh(d)
        BY <1>0, <2>3 DEF ClientBreaks, Fresh
      <3>2. CASE cl = "provider"
        <4>1. Flow(ProviderEnd(d), got["provider"][d], <<>>, toServer[ToVisitor],
                   sent["visitor"][d], d, n, n, k)
          BY <2>1, FlowTypes, FlowLost DEF UpFlow
        <4>2. UpFlow(d, n, n, k)' /\ ~Holding(d)'
          BY <1>0, <3>1, <3>2, <4>1 DEF UpFlow, Holding
        <4>3. Waits(d, n, b, k)'
          BY <1>0, <2>1, <2>2, <3>1, <4>2 DEF Waits
        <4> QED
          BY <4>2, <4>3 DEF UpOne
      <3>3. CASE cl # "provider"
        <4>1. UpQuiet(d)
          BY <1>0, <3>1, <3>3, SameForSame DEF UpQuiet
        <4> QED
          BY <4>1, UpKept DEF UpInv
      <3> QED
        BY <3>2, <3>3
    <2>4. CASE ClientGone(cl)
      <3>1. /\ serving' = serving \ {cl}
            /\ SameFor(toClient[ToProvider], toClient'[ToProvider], d)
            /\ toServer'[ToVisitor] = IF cl = "visitor" THEN <<>> ELSE toServer[ToVisitor]
        BY <1>0, <2>4, GoneEffect
      <3>2. CASE cl = "visitor"
        <4>1. PICK s \in Nat : s = sent["visitor"][d]
          BY FlowTypes
        <4>2. Flow(ProviderEnd(d), got["provider"][d], toClient[ToProvider], <<>>, s, d, n, m, s)
          BY <2>1, <4>1, FlowTypes, FlowLost DEF UpFlow
        <4>3. Flow(ProviderEnd(d), got["provider"][d], toClient'[ToProvider], <<>>, s, d, n, m, s)
          BY <3>1, <4>2, FlowSame, SameForSame
        <4>4. UpFlow(d, n, m, s)'
          BY <1>0, <3>1, <3>2, <4>1, <4>3 DEF UpFlow
        <4>5. Fresh(d)' => s = 0
          <5>1. ~Announces(<<>>, d)
            BY DEF Announces, Says
          <5> QED
            BY <1>0, <3>1, <3>2, <4>1, <5>1 DEF Fresh, OrderInv, OneInv
        <4>6. b <= s /\ "visitor" \notin serving'
          BY <2>2, <3>1, <3>2, <4>1
        <4>7. Waits(d, m, b, s)'
          BY <1>0, <2>1, <2>2, <4>5, <4>6 DEF Waits
        <4> QED
          BY <4>4, <4>7 DEF UpOne
      <3>3. CASE cl # "visitor"
        <4>1. Fresh(d)' => Fresh(d)
          BY <1>0, <3>1, <3>3 DEF Fresh
        <4>2. UpQuiet(d)
          BY <1>0, <3>1, <3>3, <4>1, SameForSame DEF UpQuiet
        <4> QED
          BY <4>2, UpKept DEF UpInv
      <3> QED
        BY <3>2, <3>3
    <2> QED
      BY <2>3, <2>4
  <1> QED
    BY <1>1, <1>2 DEF UpInv

LEMMA UpForward ==
    ASSUME TypeOK, OnControl, OrderInv, UpInv, NEW cl \in Clients, NEW c \in Conns, ForwardData(cl, c)
    PROVE  UpInv' /\ UpSteps
  <1> DEFINE x == Data(c, <<sent[cl][c] + 1>>)
             v == DataWriter(cl)
  <1>1. /\ UNCHANGED <<up, serving, stcpConns, buffer, end, got, toClient>>
        /\ sent' = [sent EXCEPT ![cl][c] = sent[cl][c] + 1]
        /\ Send(v, x)
        /\ \A d \in Conns : ProviderEnd(d)' = ProviderEnd(d) /\ VisitorEnd(d)' = VisitorEnd(d)
        /\ \A d \in Conns : Holding(d)' <=> Holding(d)
    BY DEF ForwardData, frpsVars, ProviderEnd, VisitorEnd, Holding
  <1>2. x \in Msg /\ x.conn = c /\ v \in Writers /\ (v = ToVisitor <=> cl = "visitor")
        /\ ToVisitor \in Writers /\ \A d \in Conns : x # NewVisitor(d)
    <2>1. sent[cl][c] + 1 \in Nat
      BY DEF TypeOK
    <2>2. <<sent[cl][c] + 1>> \in Seq(Nat)
      BY <2>1
    <2> QED
      BY <2>2, Messages, WriterType, Control DEF Data, NewVisitor, Clients
  <1>3. ASSUME NEW d \in Conns PROVE Fresh(d)' => Fresh(d)
    <2>1. Later(toServer[ToVisitor], toServer'[ToVisitor], d)
      <3> HIDE DEF x, v
      <3> QED
        BY <1>1, <1>2, SendEffect
    <2> QED
      BY <1>1, <2>1 DEF Fresh, Later
  <1>4. ASSUME NEW d \in Conns, d # c \/ cl # "visitor"
        PROVE  UpOne(d)'
    <2>1. SameFor(toServer[ToVisitor], toServer'[ToVisitor], d)
      <3>1. d # c => ~IsData(x, d)
        BY <1>2 DEF IsData
      <3> HIDE DEF x, v
      <3> QED
        BY <1>1, <1>2, <1>4, <3>1, SendEffect
    <2>2. sent'["visitor"][d] = sent["visitor"][d]
      <3> DEFINE y == sent[cl][c] + 1
      <3>1. /\ sent' = [sent EXCEPT ![cl][c] = y] /\ "visitor" \in Clients
            /\ sent \in [Clients -> [Conns -> 0..MaxChunks]]
        BY <1>1 DEF TypeOK, Clients
      <3> HIDE DEF y
      <3>2. \A k \in Clients : sent'[k][d] = IF k = cl /\ d = c THEN y ELSE sent[k][d]
        BY <3>1
      <3> QED
        BY <1>4, <3>1, <3>2
    <2>3. UpQuiet(d)
      BY <1>1, <1>3, <2>1, <2>2, SameForSame DEF UpQuiet
    <2> QED
      BY <2>3, UpKept DEF UpInv
  <1>5. CASE cl = "visitor"
    <2> DEFINE s == sent["visitor"][c]
    <2>1. sent'["visitor"] = [sent["visitor"] EXCEPT ![c] = s + 1] /\ sent'["visitor"][c] = s + 1
      BY <1>1, <1>5 DEF TypeOK, Clients
    <2>2. toServer'[ToVisitor] = Append(toServer[ToVisitor], Data(c, <<s + 1>>))
      <3>1. Data(c, <<s + 1>>) = x
        BY <1>5
      <3> HIDE DEF v, x, s
      <3>2. toServer'[ToVisitor] = Append(toServer[ToVisitor], x)
        <4>1. v = ToVisitor
          BY <1>2, <1>5
        <4> QED
          BY <1>1, <1>2, <4>1, SendEffect
      <3> QED
        BY <3>1, <3>2
    <2>3. PICK n \in Nat, m \in Nat, b \in Nat, k \in Nat : UpFlow(c, n, m, k) /\ Waits(c, m, b, k)
      BY DEF UpInv, UpOne
    <2>4. Flow(ProviderEnd(c), got["provider"][c], toClient[ToProvider],
               Append(toServer[ToVisitor], Data(c, <<s + 1>>)), s + 1, c, n, m, k)
      BY <2>3, FlowTypes, FlowWritten DEF UpFlow
    <2>5. UpFlow(c, n, m, k)'
      BY <1>1, <2>1, <2>2, <2>4 DEF UpFlow
    <2>6. Waits(c, m, b, k)'
      BY <1>1, <1>3, <2>3 DEF Waits
    <2>7. UpOne(c)'
      BY <2>5, <2>6 DEF UpOne
    <2>8. UpSteps
      BY <1>1, <2>1 DEF UpSteps, Step
    <2> QED
      BY <1>4, <2>7, <2>8 DEF UpInv
  <1>6. CASE cl # "visitor"
    <2>1. sent'["visitor"] = sent["visitor"]
      BY <1>1, <1>6 DEF TypeOK, Clients
    <2>2. UpSteps
      BY <1>1, <2>1 DEF UpSteps, Step
    <2> QED
      BY <1>4, <1>6, <2>2 DEF UpInv
  <1> QED
    BY <1>5, <1>6

LEMMA UpStep ==
    ASSUME TypeOK, Steady, LinkInv, OrderInv, UpInv, [Next]_vars
    PROVE  UpInv' /\ UpSteps
  <1>0. OnControl
    BY DEF Steady
  <1>1. ASSUME NEW w \in Links, FrpsTask(w) PROVE UpInv' /\ UpSteps
    <2>1. UNCHANGED <<sent, got>>
      BY <1>1, FrpsKeeps
    <2>2. UpSteps
      BY <2>1 DEF UpSteps, Step
    <2> QED
      BY <1>1, <2>2, UpFrps
  <1>2. ASSUME NEW c \in Conns,
               \/ ProviderDials(c) \/ DialSucceeds(c) \/ DialFails(c)
               \/ UserConnect(c) \/ IdleSweep(c)
               \/ \E w \in Links : ClientHandleClose(w, c)
               \/ \E cl \in Clients : ForwardEnd(cl, c)
        PROVE  UpInv' /\ UpSteps
    BY <1>0, <1>2, SilentTasks, UpSilent
  <1>3. ASSUME NEW w \in Links, ClientTask(w) PROVE UpInv' /\ UpSteps
    BY <1>2, <1>3, UpRead, PayloadType DEF ClientTask
  <1>4. CASE UNCHANGED vars
    <2>1. ASSUME NEW d \in Conns PROVE UpOne(d)'
      <3>1. UpQuiet(d)
        BY <1>4, SameForSame
           DEF UpQuiet, Holding, Fresh, VisitorEnd, ProviderEnd, vars, frpsVars, endVars
      <3> QED
        BY <1>0, <3>1, UpKept DEF UpInv
    <2>2. UpSteps
      BY <1>4 DEF UpSteps, Step, vars, endVars
    <2> QED
      BY <2>1, <2>2 DEF UpInv
  <1> QED
    BY <1>0, <1>1, <1>2, <1>3, <1>4, UpEnds, UpForward DEF Next

-----------------------------------------------------------------------------
(* The relay implements Pipe in both directions.                             *)

\* A step of a stream is one of Pipe's: writing, reading or none.
LEMMA StreamSteps ==
    ASSUME NEW s \in [Conns -> Nat], NEW g \in [Conns -> Seq(Nat)], NEW t, NEW h, Step(s, t, g, h)
    PROVE  \/ t = s /\ h = g
           \/ \E c \in Conns : t = [s EXCEPT ![c] = @ + 1] /\ h = g
           \/ \E c \in Conns : \E n \in 1..(s[c] - Len(g[c])) :
                 /\ h = [g EXCEPT ![c] = @ \o [i \in 1..n |-> Len(@) + i]]
                 /\ t = s
  <1>1. ASSUME NEW c \in Conns, NEW j \in Nat, Len(g[c]) <= j, j <= s[c], t = s,
               h = [g EXCEPT ![c] = @ \o Chunks(Len(@), j)]
        PROVE  \/ h = g
               \/ \E n \in 1..(s[c] - Len(g[c])) :
                     h = [g EXCEPT ![c] = @ \o [i \in 1..n |-> Len(@) + i]]
    <2> DEFINE l == Len(g[c])
               n == j - l
    <2>1. l \in Nat /\ s[c] \in Nat /\ g[c] \in Seq(Nat)
      OBVIOUS
    <2>2. h = [g EXCEPT ![c] = g[c] \o Chunks(l, j)]
      BY <1>1
    <2>3. CASE j = l
      <3>1. Chunks(l, j) = <<>>
        <4> HIDE DEF l
        <4> QED
          BY <1>1, <2>1, <2>3, ChunksType
      <3>2. g[c] \o Chunks(l, j) = g[c]
        BY <2>1, <3>1
      <3>3. h = [g EXCEPT ![c] = g[c]]
        BY <2>2, <3>2
      <3> QED
        BY <3>3
    <2>4. CASE j # l
      <3>1. n \in 1..(s[c] - l)
        BY <1>1, <2>1, <2>4
      <3>2. Chunks(l, j) = [i \in 1..n |-> l + i]
        BY DEF Chunks
      <3>3. h = [g EXCEPT ![c] = g[c] \o [i \in 1..n |-> l + i]]
        BY <2>2, <3>2
      <3> QED
        BY <3>1, <3>3
    <2> QED
      BY <2>3, <2>4
  <1> QED
    BY <1>1 DEF Step

LEMMA StreamTypes ==
    ASSUME NEW s \in [Clients -> [Conns -> 0..MaxChunks]],
           NEW g \in [Clients -> [Conns -> Seq(Nat)]], NEW cl \in Clients
    PROVE  s[cl] \in [Conns -> Nat] /\ g[cl] \in [Conns -> Seq(Nat)]
  <1>1. 0..MaxChunks \subseteq Nat
    BY ConstantsAssumption
  <1>2. s[cl] \in [Conns -> 0..MaxChunks] /\ g[cl] \in [Conns -> Seq(Nat)]
    OBVIOUS
  <1> QED
    BY <1>1, <1>2

RelayInv == OnControl => LinkInv /\ VisitorIsTold /\ OrderInv /\ DownInv

LEMMA RelayInvInit == Init => RelayInv /\ (Steady => UpInv)
  <1> SUFFICES ASSUME Init, OnControl PROVE LinkInv /\ VisitorIsTold /\ OrderInv /\ DownInv /\ UpInv
    BY DEF RelayInv, Steady
  <1>1. TypeOK /\ LinkInv /\ VisitorIsTold
    BY Initially, LinkInit
  <1>2. /\ ToVisitor \in Writers /\ ToProvider \in Writers
        /\ Clients = {"provider", "visitor"}
    BY <1>1, Control
  <1>3. /\ toServer[ToVisitor] = <<>> /\ toServer[ToProvider] = <<>>
        /\ toClient[ToVisitor] = <<>> /\ toClient[ToProvider] = <<>>
        /\ stcpConns = {} /\ dialing = None /\ \A w \in Writers : flushing[w] = None
    BY <1>2 DEF Init
  <1>4. \A c \in Conns :
          /\ writer["provider"][c] = None /\ writer["visitor"][c] = None
          /\ buffer["provider"][c] = <<>> /\ buffer["visitor"][c] = <<>>
          /\ VisitorEnd(c) = "absent" /\ ProviderEnd(c) = "absent"
          /\ sent["provider"][c] = 0 /\ sent["visitor"][c] = 0
          /\ got["provider"][c] = <<>> /\ got["visitor"][c] = <<>>
    BY <1>2 DEF Init, PerConn, VisitorEnd, ProviderEnd
  <1>5. OrderInv
    <2>1. ASSUME NEW c \in Conns PROVE OneInv(c)
      <3>1. c # None
        BY ConstantsAssumption
      <3>2. /\ Absent(<<>>, c) /\ Leads(<<>>, c) /\ Once(<<>>, c) /\ ~Announces(<<>>, c)
        BY DEF Absent, Leads, Once, Announces, Says
      <3> QED
        BY <1>3, <1>4, <3>1, <3>2 DEF OneInv
    <2> QED
      BY <1>3, <2>1 DEF OrderInv, FlushInv
  <1>6. ASSUME NEW c \in Conns, NEW e PROVE Flow(e, <<>>, <<>>, <<>>, 0, c, 0, 0, 0)
    <2> DEFINE z == 0
    <2>1. z \in Nat /\ z <= z /\ Len(<<>>) = z /\ <<>> \in Seq(Msg) /\ Silent(<<>>, c)
      BY DEF Silent
    <2> HIDE DEF z
    <2>2. Carries(<<>>, c, z, z) /\ Chunks(z, z) = <<>>
      BY <2>1, CarriesSilent, ChunksType
    <2>3. Flow(e, <<>>, <<>>, <<>>, z, c, z, z, z)
      <3>1. Chunks(0, Len(<<>>)) = <<>>
        BY <2>1, <2>2 DEF z
      <3> QED
        BY <2>1, <2>2, <3>1 DEF Flow
    <2> QED
      BY <2>3 DEF z
  <1>7. ASSUME NEW c \in Conns PROVE DownOne(c) /\ UpOne(c)
    <2>1. UpFlow(c, 0, 0, 0) /\ DownFlow(c, 0, 0, 0)
      BY <1>3, <1>4, <1>6 DEF UpFlow, DownFlow
    <2>2. Waits(c, 0, 0, 0)
      BY <1>3 DEF Waits, Holding
    <2> QED
      BY <2>1, <2>2 DEF DownOne, UpOne
  <1> QED
    BY <1>1, <1>5, <1>7 DEF DownInv, UpInv

LEMMA RelayInvStep ==
    ASSUME TypeOK, RelayInv, [Next]_vars
    PROVE  RelayInv' /\ (OnControl' <=> OnControl) /\ (OnControl => DownSteps)
  <1>1. OnControl' <=> OnControl
    BY ModeFixed DEF OnControl
  <1>2. ASSUME OnControl
        PROVE  LinkInv' /\ VisitorIsTold' /\ OrderInv' /\ DownInv' /\ DownSteps
    <2>1. "visitor" \notin mode.data
      BY <1>2 DEF OnControl
    <2> QED
      BY <1>2, <2>1, RelayStep, OrderStep, DownStep DEF RelayInv
  <1> QED
    BY <1>1, <1>2 DEF RelayInv

\* From the provider's service to the visitor's user the relay is a byte stream
\* (forward_local_data, handle_data), where the clients have no data channel: what
\* frps takes from the provider it hands on or, for a connection it has forgotten,
\* drops with all that follows it.
THEOREM DownstreamCorrect == Spec => DownstreamIsPipe
  <1>1. Init => Downstream!Init
    <2> SUFFICES ASSUME Init PROVE Downstream!Init
      OBVIOUS
    <2>1. \A c \in Conns : sent["provider"][c] = 0 /\ got["visitor"][c] = <<>>
      BY DEF Init, PerConn, Clients
    <2> QED
      BY <2>1 DEF Downstream!Init, Where
  <1>2. ASSUME TypeOK, TypeOK', RelayInv, [Next]_vars
        PROVE  RelayInv' /\ [Downstream!Next]_(Downstream!vars)
    <2>1. RelayInv' /\ (OnControl' <=> OnControl) /\ (OnControl => DownSteps)
      BY <1>2, RelayInvStep
    <2>2. CASE ~OnControl
      <3>1. UNCHANGED <<Where(OnControl, sent["provider"], 0), Where(OnControl, got["visitor"], <<>>)>>
        BY <2>1, <2>2 DEF Where
      <3> QED
        BY <2>1, <3>1 DEF Downstream!vars
    <2>3. CASE OnControl
      <3> DEFINE s == sent["provider"]
                 g == got["visitor"]
      <3>1. /\ s \in [Conns -> Nat] /\ g \in [Conns -> Seq(Nat)]
            /\ s' \in [Conns -> Nat] /\ g' \in [Conns -> Seq(Nat)]
        <4>1. /\ sent \in [Clients -> [Conns -> 0..MaxChunks]]
              /\ sent' \in [Clients -> [Conns -> 0..MaxChunks]]
              /\ got \in [Clients -> [Conns -> Seq(Nat)]]
              /\ got' \in [Clients -> [Conns -> Seq(Nat)]]
          BY <1>2 DEF TypeOK
        <4>2. "provider" \in Clients /\ "visitor" \in Clients
          BY DEF Clients
        <4> QED
          BY <4>1, <4>2, StreamTypes
      <3>2. /\ Where(OnControl, s, 0) = s /\ Where(OnControl, g, <<>>) = g
            /\ Where(OnControl, s, 0)' = s' /\ Where(OnControl, g, <<>>)' = g'
        BY <2>1, <2>3, <3>1 DEF Where
      <3>3. \/ s' = s /\ g' = g
            \/ \E c \in Conns : s' = [s EXCEPT ![c] = @ + 1] /\ g' = g
            \/ \E c \in Conns : \E n \in 1..(s[c] - Len(g[c])) :
                  /\ g' = [g EXCEPT ![c] = @ \o [i \in 1..n |-> Len(@) + i]]
                  /\ s' = s
        <4>1. Step(s, s', g, g')
          BY <2>1, <2>3 DEF DownSteps
        <4> HIDE DEF s, g
        <4> QED
          BY <3>1, <4>1, StreamSteps
      <3> HIDE DEF s, g
      <3>4. [Downstream!Next]_(Downstream!vars)
        BY <3>2, <3>3 DEF Downstream!Next, Downstream!Write, Downstream!Read, Downstream!vars, s, g
      <3> QED
        BY <2>1, <3>4
    <2> QED
      BY <2>2, <2>3
  <1> QED
    BY <1>1, <1>2, RelayInvInit, TypeCorrect, PTL DEF Spec, DownstreamIsPipe, Downstream!Spec

\* From the visitor's user to the provider's service the relay is a byte stream,
\* too, where the clients have no data channel and no drain suspends: what comes
\* before the provider is linked waits in the buffer, and goes first, whether
\* handle_stcp_visitor_ready or handle_data flushes it.
THEOREM UpstreamCorrect == Spec => UpstreamIsPipe
  <1>1. Init => Upstream!Init
    <2> SUFFICES ASSUME Init PROVE Upstream!Init
      OBVIOUS
    <2>1. \A c \in Conns : sent["visitor"][c] = 0 /\ got["provider"][c] = <<>>
      BY DEF Init, PerConn, Clients
    <2> QED
      BY <2>1 DEF Upstream!Init, Where
  <1>2. ASSUME TypeOK, TypeOK', RelayInv, Steady => UpInv, [Next]_vars
        PROVE  RelayInv' /\ (Steady => UpInv)' /\ [Upstream!Next]_(Upstream!vars)
    <2>0. RelayInv' /\ (Steady' <=> Steady)
      BY <1>2, RelayInvStep, ModeFixed DEF Steady
    <2>1. RelayInv' /\ (Steady' <=> Steady) /\ (Steady => UpInv' /\ UpSteps)
      BY <1>2, <2>0, UpStep DEF RelayInv, Steady
    <2>2. CASE ~Steady
      <3>1. UNCHANGED <<Where(Steady, sent["visitor"], 0), Where(Steady, got["provider"], <<>>)>>
        BY <2>1, <2>2 DEF Where
      <3> QED
        BY <2>1, <3>1 DEF Upstream!vars
    <2>3. CASE Steady
      <3> DEFINE s == sent["visitor"]
                 g == got["provider"]
      <3>1. /\ s \in [Conns -> Nat] /\ g \in [Conns -> Seq(Nat)]
            /\ s' \in [Conns -> Nat] /\ g' \in [Conns -> Seq(Nat)]
        <4>1. /\ sent \in [Clients -> [Conns -> 0..MaxChunks]]
              /\ sent' \in [Clients -> [Conns -> 0..MaxChunks]]
              /\ got \in [Clients -> [Conns -> Seq(Nat)]]
              /\ got' \in [Clients -> [Conns -> Seq(Nat)]]
          BY <1>2 DEF TypeOK
        <4>2. "provider" \in Clients /\ "visitor" \in Clients
          BY DEF Clients
        <4> QED
          BY <4>1, <4>2, StreamTypes
      <3>2. /\ Where(Steady, s, 0) = s /\ Where(Steady, g, <<>>) = g
            /\ Where(Steady, s, 0)' = s' /\ Where(Steady, g, <<>>)' = g'
        BY <2>1, <2>3, <3>1 DEF Where
      <3>3. \/ s' = s /\ g' = g
            \/ \E c \in Conns : s' = [s EXCEPT ![c] = @ + 1] /\ g' = g
            \/ \E c \in Conns : \E n \in 1..(s[c] - Len(g[c])) :
                  /\ g' = [g EXCEPT ![c] = @ \o [i \in 1..n |-> Len(@) + i]]
                  /\ s' = s
        <4>1. Step(s, s', g, g')
          BY <2>1, <2>3 DEF UpSteps
        <4> HIDE DEF s, g
        <4> QED
          BY <3>1, <4>1, StreamSteps
      <3> HIDE DEF s, g
      <3>4. [Upstream!Next]_(Upstream!vars)
        BY <3>2, <3>3 DEF Upstream!Next, Upstream!Write, Upstream!Read, Upstream!vars, s, g
      <3> QED
        BY <2>1, <3>4
    <2> QED
      BY <2>2, <2>3
  <1> QED
    BY <1>1, <1>2, RelayInvInit, TypeCorrect, PTL DEF Spec, UpstreamIsPipe, Upstream!Spec
=============================================================================
