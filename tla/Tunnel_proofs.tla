---------------------------- MODULE Tunnel_proofs ----------------------------
(***************************************************************************)
(* Proofs about a tunnelled connection, for any set of connections and any   *)
(* combination of the failures the model knows: what pool, sockets, tasks    *)
(* and counters say of each other, dialling, and (from "Streams" on) that    *)
(* each direction implements the byte stream of Pipe.                        *)
(***************************************************************************)
EXTENDS Tunnel, SequenceTheorems, TLAPS

-----------------------------------------------------------------------------
(* Messages and channels. *)

LEMMA MsgType ==
    /\ \A c \in Conns : NewConn(c) \in Msg /\ InitConn(c) \in Msg /\ Close(c) \in Msg
    /\ \A c \in Conns, k \in Nat : Data(c, k) \in Msg
    /\ [type |-> "auth"] \in Msg /\ [type |-> "authResp"] \in Msg
  BY DEF Msg, NewConn, InitConn, Close, Data

LEMMA SeqType ==
    ASSUME NEW q \in Seq(Msg)
    PROVE  /\ \A m \in Msg : Append(q, m) \in Seq(Msg)
           /\ q # <<>> => Tail(q) \in Seq(Msg) /\ Head(q) \in Msg
  OBVIOUS

LEMMA AppendNat == \A s \in Seq(Nat), k \in Nat : Append(s, k) \in Seq(Nat)
  OBVIOUS

LEMMA ChunkType == Chunk \subseteq Nat
  BY ConstantsAssumption DEF Chunk

\* A write of frps keeps the channels towards frpc well-formed.
LEMMA FrpsSendType ==
    ASSUME TypeOK, NEW ch \in Channel \cup {"none"}, NEW m \in Msg, FrpsSend(ch, m)
    PROVE  toClient' \in [Channel -> Seq(Msg)]
  BY SeqType DEF FrpsSend, TypeOK

\* A write of frpc keeps the channels towards frps and its own state well-formed.
LEMMA FrpcSendType ==
    ASSUME TypeOK, NEW m \in Msg, FrpcSend(m)
    PROVE  /\ toServer' \in [Channel -> Seq(Msg)]
           /\ dataUp' \in BOOLEAN /\ dataReader' \in BOOLEAN
  <1>1. \A ch \in Channel :
            [toServer EXCEPT ![ch] = Append(@, m)] \in [Channel -> Seq(Msg)]
    BY SeqType DEF TypeOK
  <1>2. toServer' \in [Channel -> Seq(Msg)]
    BY <1>1 DEF FrpcSend, TypeOK, Channel
  <1>3. dataUp' \in BOOLEAN /\ dataReader' \in BOOLEAN
    BY DEF FrpcSend, TypeOK
  <1> QED
    BY <1>2, <1>3

\* So does a read of either program.
LEMMA FrpsReadsType ==
    ASSUME TypeOK, NEW ch \in Channel, NEW m, FrpsReads(ch, m)
    PROVE  toServer' \in [Channel -> Seq(Msg)]
  BY SeqType DEF FrpsReads, TypeOK

LEMMA FrpcReadsType ==
    ASSUME TypeOK, NEW ch \in Channel, NEW m, FrpcReads(ch, m)
    PROVE  toClient' \in [Channel -> Seq(Msg)]
  BY SeqType DEF FrpcReads, TypeOK

\* Closing connections keeps frps' tables within Conns.
LEMMA CloseConnType ==
    ASSUME TypeOK, NEW c \in Conns, CloseConn(c)
    PROVE  pool' \subseteq Conns /\ counted' \subseteq Conns /\ sock' \subseteq Conns
  BY DEF CloseConn, TypeOK

LEMMA AnnounceType ==
    ASSUME TypeOK, NEW c \in Conns, Announce(c)
    PROVE  /\ counted' \subseteq Conns /\ pool' \subseteq Conns
           /\ task' \in [Conns -> {"none", "accepted", "draining", "failed", "waiting",
                                   "forwarding", "done"}]
           /\ toClient' \in [Channel -> Seq(Msg)] /\ sock' \subseteq Conns
  <1>1. toClient' \in [Channel -> Seq(Msg)]
    BY FrpsSendType, MsgType DEF Announce, Channel
  <1> QED
    BY <1>1 DEF Announce, AnnounceFails, TypeOK

LEMMA ForwardType ==
    ASSUME TypeOK, NEW c \in Conns, NEW k \in Nat, Forward(c, k)
    PROVE  /\ pool' \subseteq Conns /\ counted' \subseteq Conns /\ sock' \subseteq Conns
           /\ task' \in [Conns -> {"none", "accepted", "draining", "failed", "waiting",
                                   "forwarding", "done"}]
           /\ toClient' \in [Channel -> Seq(Msg)]
  <1>1. CASE FrpsSend(clientWriter[c], Data(c, k)) /\ UNCHANGED <<pool, counted, sock>>
             /\ task' = [task EXCEPT ![c] = "forwarding"]
    BY <1>1, FrpsSendType, MsgType DEF TypeOK
  <1>2. CASE CloseConn(c) /\ task' = [task EXCEPT ![c] = "done"] /\ UNCHANGED toClient
    BY <1>2, CloseConnType DEF TypeOK
  <1> QED
    BY <1>1, <1>2 DEF Forward

-----------------------------------------------------------------------------
(* Types. *)

LEMMA InitType == Init => TypeOK
  <1> SUFFICES ASSUME Init PROVE TypeOK
    OBVIOUS
  <1>1. << [type |-> "auth"] >> \in Seq(Msg) /\ <<>> \in Seq(Msg)
    BY MsgType
  <1>2. toServer \in [Channel -> Seq(Msg)]
    <2>1. CASE toServer = [ch \in Channel |-> <<>>]
      BY <1>1, <2>1
    <2>2. CASE toServer = [ch \in Channel |->
                             IF ch = "data" THEN << [type |-> "auth"] >> ELSE <<>>]
      BY <1>1, <2>2
    <2> QED
      BY <2>1, <2>2 DEF Init
  <1>3. toClient \in [Channel -> Seq(Msg)]
    BY <1>1 DEF Init
  <1>4. \A c \in Conns : <<>> \in Seq(Nat)
    OBVIOUS
  <1>5. userGot \in [Conns -> Seq(Nat)] /\ localGot \in [Conns -> Seq(Nat)]
    BY <1>4 DEF Init
  <1> QED
    BY <1>2, <1>3, <1>5 DEF Init, TypeOK, Channel

LEMMA UsersType ==
    ASSUME TypeOK, Users
    PROVE  TypeOK'
  <1> PICK c \in Conns :
          UserConnect(c) \/ UserWrite(c) \/ UserLeave(c) \/ LocalWrite(c) \/ LocalLeave(c)
    BY DEF Users
  <1> USE DEF TypeOK, usersVars, frpsVars, sessVars, frpcVars, localVars, netVars
  <1>1. CASE UserConnect(c)
    BY <1>1 DEF UserConnect
  <1>2. CASE UserWrite(c)
    <2>1. userSent' \in [Conns -> Nat]
      BY <1>2 DEF UserWrite
    <2> QED
      BY <1>2, <2>1 DEF UserWrite
  <1>3. CASE UserLeave(c)
    BY <1>3 DEF UserLeave
  <1>4. CASE LocalWrite(c)
    <2>1. localSent' \in [Conns -> Nat]
      BY <1>4 DEF LocalWrite
    <2> QED
      BY <1>4, <2>1 DEF LocalWrite
  <1>5. CASE LocalLeave(c)
    BY <1>5 DEF LocalLeave
  <1> QED
    BY <1>1, <1>2, <1>3, <1>4, <1>5

LEMMA FrpsConnType ==
    ASSUME TypeOK, NEW c \in Conns, FrpsConn(c) \/ IdleSweep(c)
    PROVE  TypeOK'
  <1> DEFINE Places == [Conns -> {"none", "accepted", "draining", "failed", "waiting",
                                  "forwarding", "done"}]
  <1> USE DEF usersVars, frpsVars, sessVars, frpcVars, localVars, netVars
  \* The variables these actions may change have their types.
  <1>1. ASSUME NEW tk \in [Conns -> Nat], taken' = tk,
               sock' \subseteq Conns, pool' \subseteq Conns, counted' \subseteq Conns,
               task' \in Places, toClient' \in [Channel -> Seq(Msg)],
               UNCHANGED <<user, userSent, userGot, clientWriter, ready, sessVars,
                           frpcVars, localVars, ctrlUp, toServer>>
        PROVE  TypeOK'
    BY <1>1 DEF TypeOK
  <1>2. sock \subseteq Conns /\ pool \subseteq Conns /\ counted \subseteq Conns
        /\ taken \in [Conns -> Nat] /\ toClient \in [Channel -> Seq(Msg)]
        /\ \A p \in {"failed", "waiting", "forwarding", "done"} :
              [task EXCEPT ![c] = p] \in Places
        /\ task \in Places
    BY DEF TypeOK
  <1> HIDE DEF Places
  <1>3. ASSUME RefuseConn(c)
        PROVE  /\ sock' \subseteq Conns /\ pool' \subseteq Conns
               /\ counted' \subseteq Conns
               /\ task' \in Places /\ toClient' \in [Channel -> Seq(Msg)]
    BY <1>2, <1>3 DEF RefuseConn
  <1>4. Announce(c) => /\ pool' \subseteq Conns /\ counted' \subseteq Conns
                       /\ sock' \subseteq Conns
                       /\ task' \in Places /\ toClient' \in [Channel -> Seq(Msg)]
    BY AnnounceType DEF Places
  <1>5. \A k \in Nat : Forward(c, k) =>
            /\ pool' \subseteq Conns /\ counted' \subseteq Conns /\ sock' \subseteq Conns
            /\ task' \in Places /\ toClient' \in [Channel -> Seq(Msg)]
    BY ForwardType DEF Places
  <1>6. CASE HandleTcpProxyConn(c)
    BY <1>1, <1>2, <1>3, <1>4, <1>6 DEF HandleTcpProxyConn
  <1>7. CASE HandleHttpVhostConn(c)
    <2>1. taken' = taken \/ taken' = [taken EXCEPT ![c] = 1]
      BY <1>7 DEF HandleHttpVhostConn
    <2>2. taken' \in [Conns -> Nat]
      BY <1>2, <2>1
    <2> QED
      BY <1>1, <1>2, <1>3, <1>4, <1>7, <2>2 DEF HandleHttpVhostConn
  <1>8. CASE FinishDrain(c)
    BY <1>1, <1>2, <1>8 DEF FinishDrain, AnnounceFails
  <1>9. CASE StartForwarding(c)
    BY <1>1, <1>2, <1>5, <1>9 DEF StartForwarding
  <1>10. CASE ReadyTimeout(c)
    BY <1>1, <1>2, CloseConnType, <1>10 DEF ReadyTimeout
  <1>11. CASE ForwardProxyData(c)
    <2>1. taken' \in [Conns -> Nat] /\ taken[c] + 1 \in Nat
      BY <1>2, <1>11 DEF ForwardProxyData
    <2> QED
      BY <1>1, <1>2, <1>5, <1>11, <2>1 DEF ForwardProxyData
  <1>12. CASE ForwardProxyEnd(c)
    BY <1>1, <1>2, CloseConnType, <1>12 DEF ForwardProxyEnd
  <1>13. CASE IdleSweep(c)
    BY <1>1, <1>2, CloseConnType, <1>13 DEF IdleSweep
  <1> QED
    BY <1>6, <1>7, <1>8, <1>9, <1>10, <1>11, <1>12, <1>13 DEF FrpsConn

LEMMA FrpsMsgsType ==
    ASSUME TypeOK, FrpsCtrl \/ FrpsData
    PROVE  TypeOK'
  <1> USE DEF usersVars, frpsVars, sessVars, frpcVars, localVars, netVars
  <1>1. ASSUME NEW c \in Conns, HandleInitConn(c) PROVE TypeOK'
    <2>1. toServer' \in [Channel -> Seq(Msg)]
      BY <1>1, FrpsReadsType DEF HandleInitConn, Channel
    <2> QED
      BY <1>1, <2>1 DEF HandleInitConn, TypeOK, Channel
  <1>2. ASSUME NEW ch \in Channel, NEW c \in Conns, HandleClose(ch, c) PROVE TypeOK'
    <2>1. toServer' \in [Channel -> Seq(Msg)]
      BY <1>2, FrpsReadsType DEF HandleClose
    <2>2. pool' \subseteq Conns /\ counted' \subseteq Conns /\ sock' \subseteq Conns
      BY <1>2, CloseConnType DEF HandleClose
    <2> QED
      BY <1>2, <2>1, <2>2 DEF HandleClose, TypeOK
  <1>3. ASSUME NEW ch \in Channel, NEW c \in Conns, NEW k \in Chunk,
               HandleData(ch, c, k)
        PROVE  TypeOK'
    <2>1. toServer' \in [Channel -> Seq(Msg)]
      BY <1>3, FrpsReadsType DEF HandleData
    <2>2. pool' \subseteq Conns /\ counted' \subseteq Conns /\ sock' \subseteq Conns
      BY <1>3, CloseConnType DEF HandleData, TypeOK
    <2>3. userGot' \in [Conns -> Seq(Nat)]
      <3>1. [userGot EXCEPT ![c] = Append(@, k)] \in [Conns -> Seq(Nat)]
        BY ChunkType, AppendNat DEF TypeOK
      <3> QED
        BY <1>3, <3>1 DEF HandleData, TypeOK
    <2>4. clientWriter' \in [Conns -> Channel \cup {"none"}]
      BY <1>3 DEF HandleData, TypeOK
    <2> QED
      BY <1>3, <2>1, <2>2, <2>3, <2>4 DEF HandleData, TypeOK
  <1>4. ASSUME HandleDataAuth PROVE TypeOK'
    <2>1. toServer' \in [Channel -> Seq(Msg)]
      BY <1>4, FrpsReadsType DEF HandleDataAuth, Channel
    <2>2. toClient' \in [Channel -> Seq(Msg)]
      BY <1>4, FrpsSendType, MsgType DEF HandleDataAuth, Channel, TypeOK
    <2> QED
      BY <1>4, <2>1, <2>2 DEF HandleDataAuth, TypeOK
  <1> QED
    BY <1>1, <1>2, <1>3, <1>4 DEF FrpsCtrl, FrpsData, Channel

LEMMA FrpcMsgsType ==
    ASSUME TypeOK, FrpcCtrl \/ FrpcData
    PROVE  TypeOK'
  <1> USE DEF usersVars, frpsVars, sessVars, frpcVars, localVars, netVars
  <1>1. ASSUME NEW c \in Conns, HandleNewConn(c) PROVE TypeOK'
    <2>1. toClient' \in [Channel -> Seq(Msg)]
      BY <1>1, FrpcReadsType DEF HandleNewConn, Channel
    <2> QED
      BY <1>1, <2>1 DEF HandleNewConn, TypeOK
  <1>2. ASSUME NEW c \in Conns, DialSucceeds(c) PROVE TypeOK'
    <2>1. toServer' \in [Channel -> Seq(Msg)] /\ dataUp' \in BOOLEAN
          /\ dataReader' \in BOOLEAN
      <3>1. CASE ~ctrlUp /\ FrpcSend(Close(c))
        BY <3>1, FrpcSendType, MsgType
      <3>2. CASE /\ toServer' = IF ctrlUp /\ srvCtrl
                       THEN [toServer EXCEPT !["ctrl"] = Append(@, InitConn(c))]
                       ELSE toServer
                 /\ UNCHANGED <<dataUp, dataReader>>
        BY <3>2, SeqType, MsgType DEF TypeOK, Channel
      <3> QED
        BY <1>2, <3>1, <3>2 DEF DialSucceeds
    <2>2. ctask' \in [Conns -> {"none", "reading", "done"}]
      BY <1>2 DEF DialSucceeds, TypeOK
    <2> QED
      BY <1>2, <2>1, <2>2 DEF DialSucceeds, TypeOK
  <1>3. ASSUME NEW c \in Conns, DialFails(c) PROVE TypeOK'
    <2>1. toServer' \in [Channel -> Seq(Msg)] /\ dataUp' \in BOOLEAN
          /\ dataReader' \in BOOLEAN
      BY <1>3, FrpcSendType, MsgType DEF DialFails
    <2> QED
      BY <1>3, <2>1 DEF DialFails, TypeOK
  <1>4. ASSUME NEW ch \in Channel, NEW c \in Conns, NEW k \in Chunk,
               FrpcHandleData(ch, c, k)
        PROVE  TypeOK'
    <2>1. toClient' \in [Channel -> Seq(Msg)]
      BY <1>4, FrpcReadsType DEF FrpcHandleData
    <2>2. localGot' \in [Conns -> Seq(Nat)] /\ cpool' \subseteq Conns
      <3>1. [localGot EXCEPT ![c] = Append(@, k)] \in [Conns -> Seq(Nat)]
        BY ChunkType, AppendNat DEF TypeOK
      <3> QED
        BY <1>4, <3>1 DEF FrpcHandleData, TypeOK
    <2> QED
      BY <1>4, <2>1, <2>2 DEF FrpcHandleData, TypeOK
  <1>5. ASSUME DataChannelUp PROVE TypeOK'
    <2>1. toClient' \in [Channel -> Seq(Msg)]
      BY <1>5, SeqType DEF DataChannelUp, TypeOK, Channel
    <2> QED
      BY <1>5, <2>1 DEF DataChannelUp, TypeOK
  <1>6. CASE DataChannelSetupFails
    BY <1>6 DEF DataChannelSetupFails, TypeOK
  <1>7. CASE DataChannelEof
    BY <1>7 DEF DataChannelEof, TypeOK
  <1> QED
    BY <1>1, <1>2, <1>3, <1>4, <1>5, <1>6, <1>7 DEF FrpcCtrl, FrpcData, Channel

LEMMA FrpcConnType ==
    ASSUME TypeOK, NEW c \in Conns, FrpcConn(c)
    PROVE  TypeOK'
  <1> USE DEF usersVars, frpsVars, sessVars, frpcVars, localVars, netVars
  <1>1. CASE ForwardLocalData(c)
    <2>1. localTaken' \in [Conns -> Nat] /\ localTaken[c] + 1 \in Nat
      BY <1>1 DEF ForwardLocalData, TypeOK
    <2>2. toServer' \in [Channel -> Seq(Msg)] /\ dataUp' \in BOOLEAN
          /\ dataReader' \in BOOLEAN
      BY <1>1, <2>1, FrpcSendType, MsgType DEF ForwardLocalData, TypeOK
    <2>3. cpool' \subseteq Conns /\ ctask' \in [Conns -> {"none", "reading", "done"}]
      BY <1>1 DEF ForwardLocalData, TypeOK
    <2> QED
      BY <1>1, <2>1, <2>2, <2>3 DEF ForwardLocalData, TypeOK
  <1>2. CASE ForwardLocalEnd(c)
    BY <1>2 DEF ForwardLocalEnd, TypeOK
  <1> QED
    BY <1>1, <1>2 DEF FrpcConn

LEMMA SessionType ==
    ASSUME TypeOK,
           DataConnEnds \/ ControlBreaks \/ ControlConnEnds \/ ServerMessagesEnd
    PROVE  TypeOK'
  <1> USE DEF usersVars, frpsVars, sessVars, frpcVars, localVars, netVars, TypeOK
  <1> DEFINE Cleared(q, ch) == [q EXCEPT ![ch] = <<>>]
  <1>0. \A ch \in Channel : Cleared(toServer, ch) \in [Channel -> Seq(Msg)]
    OBVIOUS
  <1>1. CASE DataConnEnds
    BY <1>0, <1>1 DEF DataConnEnds, Channel
  <1>2. CASE ControlBreaks
    BY <1>2 DEF ControlBreaks
  <1>3. CASE ControlConnEnds
    BY <1>0, <1>3 DEF ControlConnEnds, Channel
  <1>4. CASE ServerMessagesEnd
    <2>1. toClient' \in [Channel -> Seq(Msg)]
      BY <1>4 DEF ServerMessagesEnd
    <2> QED
      BY <1>4, <2>1 DEF ServerMessagesEnd
  <1> QED
    BY <1>1, <1>2, <1>3, <1>4

\* Every variable keeps its type, whatever fails.
THEOREM TypeCorrect == Spec => []TypeOK
  <1>1. TypeOK /\ [Next]_vars => TypeOK'
    <2> SUFFICES ASSUME TypeOK, [Next]_vars PROVE TypeOK'
      OBVIOUS
    <2>1. CASE UNCHANGED vars
      BY <2>1 DEF vars, usersVars, frpsVars, sessVars, frpcVars, localVars, netVars,
         TypeOK
    <2>2. CASE Next
      BY <2>2, UsersType, FrpsConnType, FrpsMsgsType, FrpcMsgsType, FrpcConnType,
         SessionType DEF Next
    <2> QED
      BY <2>1, <2>2
  <1> QED
    BY <1>1, InitType, PTL DEF Spec

-----------------------------------------------------------------------------
(* Sockets: what conn_pool, the open sockets and the coroutines say of each   *)
(* other.                                                                    *)

SocksInv ==
    /\ PoolIsTended /\ NoOrphanSocket
    /\ \A c \in Conns : task[c] \in {"accepted", "draining"} => c \in sock
    /\ \A c \in Conns : user[c] = "absent" => task[c] = "none"

LEMMA SocksInit == Init => SocksInv
  BY DEF Init, SocksInv, PoolIsTended, NoOrphanSocket

LEMMA SocksStep ==
    ASSUME TypeOK, SocksInv, [Next]_vars
    PROVE  SocksInv'
  <1> USE DEF SocksInv, PoolIsTended, NoOrphanSocket, TypeOK,
              usersVars, frpsVars, sessVars, frpcVars, localVars, netVars
  <1>1. ASSUME UNCHANGED <<user, sock, task, pool>> PROVE SocksInv'
    BY <1>1
  <1>2. ASSUME NEW c \in Conns, CloseConn(c), UNCHANGED <<user, task>>
        PROVE  SocksInv'
    BY <1>2 DEF CloseConn
  <1>3. ASSUME NEW c \in Conns, CloseConn(c), UNCHANGED user,
               task[c] \in {"waiting", "forwarding"},
               task' = [task EXCEPT ![c] = "done"]
        PROVE  SocksInv'
    BY <1>3 DEF CloseConn
  <1>4. ASSUME NEW c \in Conns, NEW k \in Nat, Forward(c, k), UNCHANGED user,
               task[c] \in {"waiting", "forwarding"}
        PROVE  SocksInv'
    <2>1. CASE CloseConn(c) /\ task' = [task EXCEPT ![c] = "done"]
      BY <1>3, <1>4, <2>1
    <2>2. CASE task' = [task EXCEPT ![c] = "forwarding"] /\ UNCHANGED <<pool, sock>>
      BY <1>4, <2>2
    <2> QED
      BY <1>4, <2>1, <2>2 DEF Forward
  <1>11. ASSUME NEW c \in Conns, RefuseConn(c), UNCHANGED user,
                task[c] \in {"accepted", "draining"}
         PROVE  SocksInv'
    BY <1>11 DEF RefuseConn
  <1>15. ASSUME NEW c \in Conns, AnnounceFails(c), UNCHANGED user,
                task[c] \in {"accepted", "draining"}
         PROVE  SocksInv'
    BY <1>15 DEF AnnounceFails
  <1>12. ASSUME NEW c \in Conns, UNCHANGED <<user, sock>>,
                task[c] \in {"accepted", "draining"},
                pool' = pool \cup {c} /\ task' = [task EXCEPT ![c] = "waiting"]
         PROVE  SocksInv'
    BY <1>12
  <1>13. ASSUME NEW c \in Conns, UNCHANGED <<user, sock, pool>>,
                task[c] = "accepted", task' = [task EXCEPT ![c] = "draining"]
         PROVE  SocksInv'
    BY <1>13
  <1>14. ASSUME NEW c \in Conns, Announce(c), UNCHANGED user, task[c] = "accepted"
         PROVE  SocksInv'
    BY <1>12, <1>13, <1>14, <1>15 DEF Announce
  <1>5. ASSUME NEW c \in Conns, FrpsConn(c) \/ IdleSweep(c)
        PROVE  SocksInv'
    <2>1. CASE HandleTcpProxyConn(c)
      BY <1>11, <1>14, <2>1 DEF HandleTcpProxyConn
    <2>2. CASE HandleHttpVhostConn(c)
      BY <1>11, <1>14, <2>2 DEF HandleHttpVhostConn
    <2>3. CASE FinishDrain(c)
      BY <1>12, <1>15, <2>3 DEF FinishDrain
    <2>4. CASE StartForwarding(c)
      <3>1. CASE c \in HttpConns
        <4>1. Forward(c, 1) /\ UNCHANGED user /\ task[c] = "waiting" /\ 1 \in Nat
          BY <2>4, <3>1 DEF StartForwarding
        <4> HIDE DEF SocksInv
        <4> QED
          BY <1>4, <4>1
      <3>2. CASE c \notin HttpConns
        <4>1. UNCHANGED <<user, sock, pool>> /\ task[c] = "waiting"
              /\ task' = [task EXCEPT ![c] = "forwarding"]
          BY <2>4, <3>2 DEF StartForwarding
        <4> QED
          BY <4>1
      <3> QED
        BY <3>1, <3>2
    <2>5. CASE ReadyTimeout(c)
      BY <1>3, <2>5 DEF ReadyTimeout
    <2>6. CASE ForwardProxyData(c)
      <3>1. taken[c] + 1 \in Nat
        OBVIOUS
      <3> QED
        BY <1>4, <2>6, <3>1 DEF ForwardProxyData
    <2>7. CASE ForwardProxyEnd(c)
      BY <1>3, <2>7 DEF ForwardProxyEnd
    <2>8. CASE IdleSweep(c)
      BY <1>2, <2>8 DEF IdleSweep
    <2> QED
      BY <1>5, <2>1, <2>2, <2>3, <2>4, <2>5, <2>6, <2>7, <2>8 DEF FrpsConn
  <1>6. CASE Users
    <2> PICK c \in Conns :
            UserConnect(c) \/ UserWrite(c) \/ UserLeave(c) \/ LocalWrite(c) \/ LocalLeave(c)
      BY <1>6 DEF Users
    <2>1. CASE UserConnect(c)
      BY <2>1 DEF UserConnect
    <2>2. CASE UserLeave(c)
      BY <2>2 DEF UserLeave
    <2>3. CASE UserWrite(c) \/ LocalWrite(c) \/ LocalLeave(c)
      BY <1>1, <2>3 DEF UserWrite, LocalWrite, LocalLeave
    <2> QED
      BY <2>1, <2>2, <2>3
  <1>7. CASE FrpsCtrl \/ FrpsData
    <2>1. ASSUME NEW ch \in Channel, NEW c \in Conns, HandleClose(ch, c)
          PROVE  SocksInv'
      BY <1>2, <2>1 DEF HandleClose
    <2>2. ASSUME NEW ch \in Channel, NEW c \in Conns, NEW k \in Chunk,
                 HandleData(ch, c, k)
          PROVE  SocksInv'
      <3>1. UNCHANGED <<user, task>> /\ (CloseConn(c) \/ UNCHANGED <<pool, sock>>)
        BY <2>2 DEF HandleData
      <3> QED
        BY <1>1, <1>2, <3>1
    <2>3. ASSUME NEW c \in Conns, HandleInitConn(c) PROVE SocksInv'
      BY <1>1, <2>3 DEF HandleInitConn
    <2>4. CASE HandleDataAuth
      BY <1>1, <2>4 DEF HandleDataAuth
    <2> QED
      BY <1>7, <2>1, <2>2, <2>3, <2>4 DEF FrpsCtrl, FrpsData, Channel
  <1>8. CASE FrpcCtrl \/ FrpcData \/ \E c \in Conns : FrpcConn(c)
    <2>1. UNCHANGED <<user, sock, task, pool>>
      BY <1>8 DEF FrpcCtrl, FrpcData, FrpcConn, HandleNewConn, DialSucceeds,
         DialFails, FrpcHandleData, DataChannelUp, DataChannelSetupFails,
         DataChannelEof, ForwardLocalData, ForwardLocalEnd
    <2> QED
      BY <1>1, <2>1
  <1>9. CASE ControlConnEnds
    BY <1>9 DEF ControlConnEnds
  <1>10. CASE DataConnEnds \/ ControlBreaks \/ ServerMessagesEnd \/ UNCHANGED vars
    BY <1>1, <1>10 DEF DataConnEnds, ControlBreaks, ServerMessagesEnd, vars
  <1> QED
    BY <1>5, <1>6, <1>7, <1>8, <1>9, <1>10 DEF Next

LEMMA SocksHold == Spec => []SocksInv
  <1>1. TypeOK /\ SocksInv /\ [Next]_vars => SocksInv'
    BY SocksStep
  <1> QED
    BY <1>1, SocksInit, TypeCorrect, PTL DEF Spec

\* What conn_pool holds is an open socket with a coroutine that will close it
\* (forward_proxy_data and its finally).
THEOREM PoolCorrect == Spec => []PoolIsTended
  <1>1. SocksInv => PoolIsTended
    BY DEF SocksInv
  <1> QED
    BY <1>1, SocksHold, PTL

\* No public socket is open that neither conn_pool nor a coroutine which still
\* accepts it (handle_tcp_proxy_conn, handle_http_vhost_conn) accounts for.
THEOREM SocketsCorrect == Spec => []NoOrphanSocket
  <1>1. SocksInv => NoOrphanSocket
    BY DEF SocksInv
  <1> QED
    BY <1>1, SocksHold, PTL

-----------------------------------------------------------------------------
(* Counting: the statistics, and the proxies' end while no drain suspends.     *)

\* Whatever other connections do meanwhile: TypeOK and SocksInv say that what is
\* pooled has a task past its announcement.
LEMMA StatsStep ==
    ASSUME TypeOK, SocksInv, StatsFollowPool, [Next]_vars
    PROVE  StatsFollowPool'
  <1> USE DEF StatsFollowPool, TypeOK,
              usersVars, frpsVars, sessVars, frpcVars, localVars, netVars
  <1> DEFINE Places == {"none", "accepted", "draining", "failed", "waiting", "forwarding", "done"}
  <1>0. \A c \in pool : task[c] \in {"waiting", "forwarding"}
    BY DEF SocksInv, PoolIsTended
  <1>1. ASSUME UNCHANGED <<counted, pool, task>> PROVE StatsFollowPool'
    BY <1>1
  \* Closing, by whoever, and a step of the task past the announcement.
  <1>2. ASSUME NEW c \in Conns, CloseConn(c) \/ UNCHANGED <<pool, counted>>,
               NEW st \in {"accepted", "waiting", "forwarding", "done"},
               \/ UNCHANGED task
               \/ task[c] \notin {"draining", "failed"} /\ task' = [task EXCEPT ![c] = st]
        PROVE  StatsFollowPool'
    <2>0. task \in [Conns -> Places]
      OBVIOUS
    <2>1. ASSUME NEW d \in Conns, d # c
          PROVE  task'[d] = task[d] /\ (d \in pool' <=> d \in pool) /\ (d \in counted' <=> d \in counted)
      <3> HIDE DEF StatsFollowPool, TypeOK
      <3>1. task'[d] = task[d]
        BY <1>2, <2>0, <2>1
      <3>2. (d \in pool' <=> d \in pool) /\ (d \in counted' <=> d \in counted)
        BY <1>2, <2>1 DEF CloseConn
      <3> QED
        BY <3>1, <3>2
    <2>2. task'[c] \in {"draining", "failed"} <=> task[c] \in {"draining", "failed"}
      BY <1>2
    <2>3. c \in pool => task[c] \notin {"draining", "failed"}
      BY <1>0
    <2>4. c \in counted' <=> c \in pool' \/ task'[c] \in {"draining", "failed"}
      BY <1>2, <2>2, <2>3 DEF CloseConn
    <2> QED
      BY <2>1, <2>4
  \* on_connect, and what becomes of the drain of NEW_CONN.
  <1>3. ASSUME NEW c \in Conns, counted' = counted \cup {c},
               \/ pool' = pool \cup {c} /\ task' = [task EXCEPT ![c] = "waiting"]
               \/ UNCHANGED pool /\ task' = [task EXCEPT ![c] = "draining"]
               \/ UNCHANGED pool /\ task' = [task EXCEPT ![c] = "failed"]
        PROVE  StatsFollowPool'
    <2>1. task \in [Conns -> Places]
      OBVIOUS
    <2>2. ASSUME NEW d \in Conns, d # c
          PROVE  task'[d] = task[d] /\ (d \in pool' <=> d \in pool) /\ (d \in counted' <=> d \in counted)
      <3> HIDE DEF StatsFollowPool, TypeOK
      <3> QED
        BY <1>3, <2>1, <2>2
    <2>3. c \in counted' /\ (c \in pool' \/ task'[c] \in {"draining", "failed"})
      <3> HIDE DEF StatsFollowPool, TypeOK
      <3> QED
        BY <1>3, <2>1
    <2> QED
      BY <2>2, <2>3
  <1>4. ASSUME NEW c \in Conns, Announce(c) PROVE StatsFollowPool'
    BY <1>3, <1>4 DEF Announce, AnnounceFails
  <1>5. ASSUME NEW c \in Conns, NEW k, Forward(c, k), task[c] \in {"waiting", "forwarding"}
        PROVE  StatsFollowPool'
    BY <1>2, <1>5 DEF Forward
  <1>6. ASSUME NEW c \in Conns, FrpsConn(c) \/ IdleSweep(c) PROVE StatsFollowPool'
    <2>1. CASE HandleTcpProxyConn(c) \/ HandleHttpVhostConn(c)
      <3>1. task[c] = "accepted" /\ (Announce(c) \/ RefuseConn(c))
        BY <2>1 DEF HandleTcpProxyConn, HandleHttpVhostConn
      <3> QED
        BY <1>2, <1>4, <3>1 DEF RefuseConn
    <2>2. CASE FinishDrain(c)
      <3>1. task[c] = "draining" /\ UNCHANGED counted
        BY <2>2 DEF FinishDrain
      <3>2. counted' = counted \cup {c}
        BY <3>1
      <3> QED
        BY <1>3, <2>2, <3>2 DEF FinishDrain, AnnounceFails
    <2>3. CASE StartForwarding(c)
      <3>1. /\ task[c] = "waiting"
            /\ \/ Forward(c, 1)
               \/ task' = [task EXCEPT ![c] = "forwarding"] /\ UNCHANGED <<pool, counted>>
        BY <2>3 DEF StartForwarding
      <3> QED
        BY <1>2, <1>5, <3>1
    <2>4. CASE ForwardProxyData(c)
      BY <1>5, <2>4 DEF ForwardProxyData
    <2>5. CASE ReadyTimeout(c) \/ ForwardProxyEnd(c) \/ IdleSweep(c)
      BY <1>2, <2>5 DEF ReadyTimeout, ForwardProxyEnd, IdleSweep
    <2> QED
      BY <1>6, <2>1, <2>2, <2>3, <2>4, <2>5 DEF FrpsConn
  <1>7. CASE Users
    <2>1. ASSUME NEW c \in Conns, UserConnect(c) PROVE StatsFollowPool'
      <3>1. task[c] = "none"
        BY <2>1 DEF UserConnect, SocksInv
      <3> QED
        BY <1>2, <2>1, <3>1 DEF UserConnect
    <2>2. ASSUME NEW c \in Conns,
                 UserWrite(c) \/ UserLeave(c) \/ LocalWrite(c) \/ LocalLeave(c)
          PROVE  StatsFollowPool'
      BY <1>1, <2>2 DEF UserWrite, UserLeave, LocalWrite, LocalLeave
    <2> QED
      BY <1>7, <2>1, <2>2 DEF Users
  <1>8. CASE FrpsCtrl \/ FrpsData
    <2>1. ASSUME NEW ch \in Channel, NEW c \in Conns, NEW k,
                 HandleClose(ch, c) \/ HandleData(ch, c, k)
          PROVE  StatsFollowPool'
      <3>1. UNCHANGED task /\ (CloseConn(c) \/ UNCHANGED <<pool, counted>>)
        BY <2>1 DEF HandleClose, HandleData
      <3> QED
        BY <1>2, <3>1
    <2>2. ASSUME NEW c \in Conns, HandleInitConn(c) PROVE StatsFollowPool'
      BY <1>1, <2>2 DEF HandleInitConn
    <2>3. CASE HandleDataAuth
      BY <1>1, <2>3 DEF HandleDataAuth
    <2> QED
      BY <1>8, <2>1, <2>2, <2>3 DEF FrpsCtrl, FrpsData, Channel
  <1>9. CASE FrpcCtrl \/ FrpcData \/ \E c \in Conns : FrpcConn(c)
    <2>1. UNCHANGED <<counted, pool, task>>
      BY <1>9 DEF FrpcCtrl, FrpcData, FrpcConn, HandleNewConn, DialSucceeds,
         DialFails, FrpcHandleData, DataChannelUp, DataChannelSetupFails,
         DataChannelEof, ForwardLocalData, ForwardLocalEnd
    <2> QED
      BY <1>1, <2>1
  <1>10. CASE ControlConnEnds
    BY <1>0, <1>10 DEF ControlConnEnds
  <1>11. CASE DataConnEnds \/ ControlBreaks \/ ServerMessagesEnd \/ UNCHANGED vars
    BY <1>1, <1>11 DEF DataConnEnds, ControlBreaks, ServerMessagesEnd, vars
  <1> QED
    BY <1>6, <1>7, <1>8, <1>9, <1>10, <1>11 DEF Next

\* Whatever fails and whether drains suspend or not: the statistics count what is
\* pooled or being announced, and what the drain of NEW_CONN left behind.
THEOREM StatsCorrect == Spec => []StatsFollowPool
  <1>1. Init => StatsFollowPool
    BY DEF Init, StatsFollowPool
  <1>2. TypeOK /\ SocksInv /\ StatsFollowPool /\ [Next]_vars => StatsFollowPool'
    BY StatsStep
  <1> QED
    BY <1>1, <1>2, SocksHold, TypeCorrect, PTL DEF Spec

CountInv ==
    /\ \A c \in Conns : task[c] # "draining"
    /\ TcpConnsEndWithProxy

LEMMA CountInit == Init => CountInv
  BY DEF Init, CountInv, TcpConnsEndWithProxy

LEMMA CountStep ==
    ASSUME ~DrainPauses, TypeOK, CountInv, [Next]_vars
    PROVE  CountInv'
  <1> USE DEF CountInv, TcpConnsEndWithProxy, TypeOK,
              usersVars, frpsVars, sessVars, frpcVars, localVars, netVars
  <1>1. ASSUME UNCHANGED <<pool, task, registered>> PROVE CountInv'
    BY <1>1
  <1>2. ASSUME NEW c \in Conns, CloseConn(c) \/ UNCHANGED pool,
               NEW st \in {"accepted", "waiting", "forwarding", "done"},
               UNCHANGED task \/ task' = [task EXCEPT ![c] = st], UNCHANGED registered
        PROVE  CountInv'
    <2>1. pool' \subseteq pool
      BY <1>2 DEF CloseConn
    <2>2. \A d \in Conns : task'[d] # "draining"
      BY <1>2
    <2> QED
      BY <1>2, <2>1, <2>2
  <1>3. ASSUME NEW c \in Conns, RefuseConn(c), UNCHANGED registered PROVE CountInv'
    BY <1>2, <1>3 DEF RefuseConn
  <1>4. ASSUME NEW c \in Conns, Announce(c), registered, UNCHANGED registered
        PROVE  CountInv'
    BY <1>4 DEF Announce, AnnounceFails
  <1>5. ASSUME NEW c \in Conns, NEW k \in Nat, Forward(c, k), UNCHANGED registered
        PROVE  CountInv'
    BY <1>2, <1>5 DEF Forward
  <1>6. ASSUME NEW c \in Conns, FrpsConn(c) \/ IdleSweep(c) PROVE CountInv'
    <2>1. CASE HandleTcpProxyConn(c) \/ HandleHttpVhostConn(c)
      BY <1>3, <1>4, <2>1 DEF HandleTcpProxyConn, HandleHttpVhostConn
    <2>2. CASE StartForwarding(c)
      <3>1. UNCHANGED registered
            /\ \/ Forward(c, 1)
               \/ task' = [task EXCEPT ![c] = "forwarding"] /\ UNCHANGED pool
        BY <2>2 DEF StartForwarding
      <3> HIDE DEF CountInv
      <3> QED
        BY <1>2, <1>5, <3>1
    <2>3. CASE ForwardProxyData(c)
      <3>1. taken[c] + 1 \in Nat
        OBVIOUS
      <3> QED
        BY <1>5, <2>3, <3>1 DEF ForwardProxyData
    <2>4. CASE ReadyTimeout(c) \/ ForwardProxyEnd(c) \/ IdleSweep(c)
      BY <1>2, <2>4 DEF ReadyTimeout, ForwardProxyEnd, IdleSweep
    <2>5. ~FinishDrain(c)
      BY DEF FinishDrain
    <2> QED
      BY <1>6, <2>1, <2>2, <2>3, <2>4, <2>5 DEF FrpsConn
  <1>7. CASE Users
    <2>1. ASSUME NEW c \in Conns, UserConnect(c) PROVE CountInv'
      BY <1>2, <2>1 DEF UserConnect
    <2>2. ASSUME NEW c \in Conns,
                 UserWrite(c) \/ UserLeave(c) \/ LocalWrite(c) \/ LocalLeave(c)
          PROVE  CountInv'
      BY <1>1, <2>2 DEF UserWrite, UserLeave, LocalWrite, LocalLeave
    <2> QED
      BY <1>7, <2>1, <2>2 DEF Users
  <1>8. CASE FrpsCtrl \/ FrpsData
    <2>1. ASSUME NEW ch \in Channel, NEW c \in Conns, HandleClose(ch, c)
          PROVE  CountInv'
      BY <1>2, <2>1 DEF HandleClose
    <2>2. ASSUME NEW ch \in Channel, NEW c \in Conns, NEW k \in Chunk,
                 HandleData(ch, c, k)
          PROVE  CountInv'
      <3>1. /\ UNCHANGED <<task, registered>>
            /\ CloseConn(c) \/ UNCHANGED pool
        BY <2>2 DEF HandleData
      <3> HIDE DEF CountInv
      <3> QED
        BY <1>2, <3>1
    <2>3. ASSUME NEW c \in Conns, HandleInitConn(c) PROVE CountInv'
      BY <1>1, <2>3 DEF HandleInitConn
    <2>4. CASE HandleDataAuth
      BY <1>1, <2>4 DEF HandleDataAuth
    <2> QED
      BY <1>8, <2>1, <2>2, <2>3, <2>4 DEF FrpsCtrl, FrpsData, Channel
  <1>9. CASE FrpcCtrl \/ FrpcData \/ \E c \in Conns : FrpcConn(c)
    <2>1. UNCHANGED <<pool, task, registered>>
      BY <1>9 DEF FrpcCtrl, FrpcData, FrpcConn, HandleNewConn, DialSucceeds,
         DialFails, FrpcHandleData, DataChannelUp, DataChannelSetupFails,
         DataChannelEof, ForwardLocalData, ForwardLocalEnd
    <2> QED
      BY <1>1, <2>1
  <1>10. CASE ControlConnEnds
    <2>1. pool' = pool \cap HttpConns /\ UNCHANGED task
      BY <1>10 DEF ControlConnEnds
    <2> QED
      BY <2>1
  <1>11. CASE DataConnEnds \/ ControlBreaks \/ ServerMessagesEnd \/ UNCHANGED vars
    BY <1>1, <1>11 DEF DataConnEnds, ControlBreaks, ServerMessagesEnd, vars
  <1> QED
    BY <1>6, <1>7, <1>8, <1>9, <1>10, <1>11 DEF Next

LEMMA CountHolds ==
    ASSUME ~DrainPauses
    PROVE  Spec => []CountInv
  <1>1. TypeOK /\ CountInv /\ [Next]_vars => CountInv'
    BY CountStep
  <1> QED
    BY <1>1, CountInit, TypeCorrect, PTL DEF Spec

\* As long as the drain of NEW_CONN returns or raises at once, no connection of a
\* TCP proxy is pooled once its client is gone: _remove_proxy closes what it finds.
THEOREM CountersCorrect ==
    ASSUME ~DrainPauses
    PROVE  Spec => []TcpConnsEndWithProxy
  <1>1. CountInv => TcpConnsEndWithProxy
    BY DEF CountInv
  <1> QED
    BY <1>1, CountHolds, PTL

-----------------------------------------------------------------------------
(* What is in flight: a channel holds only what was written to it.           *)

LEMMA HoldsAppend ==
    ASSUME NEW q \in Seq(Msg), NEW m \in Msg, NEW t, NEW c, Holds(Append(q, m), t, c)
    PROVE  Holds(q, t, c) \/ (m.type = t /\ m.conn = c)
  BY DEF Holds

LEMMA HoldsTail ==
    ASSUME NEW q \in Seq(Msg), q # <<>>, NEW t, NEW c, Holds(Tail(q), t, c)
    PROVE  Holds(q, t, c)
  BY DEF Holds

LEMMA HoldsHead ==
    ASSUME NEW q \in Seq(Msg), q # <<>>
    PROVE  Holds(q, Head(q).type, Head(q).conn)
  BY DEF Holds

LEMMA HoldsEmpty == \A t, c : ~Holds(<<>>, t, c)
  BY DEF Holds

LEMMA FrpsSendHolds ==
    ASSUME TypeOK, NEW ch \in Channel \cup {"none"}, NEW m \in Msg, FrpsSend(ch, m)
    PROVE  \A x \in Channel : \A t, c :
               Holds(toClient'[x], t, c) =>
                   Holds(toClient[x], t, c) \/ (x = ch /\ m.type = t /\ m.conn = c)
  BY HoldsAppend DEF FrpsSend, TypeOK

LEMMA FrpcSendHolds ==
    ASSUME TypeOK, NEW m \in Msg, FrpcSend(m)
    PROVE  \A x \in Channel : \A t, c :
               Holds(toServer'[x], t, c) =>
                   Holds(toServer[x], t, c) \/ (m.type = t /\ m.conn = c)
  <1>1. \/ UNCHANGED toServer
        \/ \E ch \in Channel : toServer' = [toServer EXCEPT ![ch] = Append(@, m)]
    BY DEF FrpcSend, Channel
  <1>2. ASSUME NEW ch \in Channel,
               toServer' = [toServer EXCEPT ![ch] = Append(@, m)],
               NEW x \in Channel, NEW t, NEW c, Holds(toServer'[x], t, c)
        PROVE  Holds(toServer[x], t, c) \/ (m.type = t /\ m.conn = c)
    <2>1. toServer[x] \in Seq(Msg)
      BY DEF TypeOK
    <2>2. toServer'[x] = IF x = ch THEN Append(toServer[x], m) ELSE toServer[x]
      BY <1>2 DEF TypeOK
    <2> QED
      BY <1>2, <2>1, <2>2, HoldsAppend
  <1> QED
    BY <1>1, <1>2

LEMMA FrpsReadsHolds ==
    ASSUME TypeOK, NEW ch \in Channel, NEW m, FrpsReads(ch, m)
    PROVE  /\ \A x \in Channel : \A t, c :
                  Holds(toServer'[x], t, c) => Holds(toServer[x], t, c)
           /\ Holds(toServer[ch], m.type, m.conn)
  BY HoldsTail, HoldsHead DEF FrpsReads, TypeOK

LEMMA FrpcReadsHolds ==
    ASSUME TypeOK, NEW ch \in Channel, NEW m, FrpcReads(ch, m)
    PROVE  /\ \A x \in Channel : \A t, c :
                  Holds(toClient'[x], t, c) => Holds(toClient[x], t, c)
           /\ Holds(toClient[ch], m.type, m.conn)
  BY HoldsTail, HoldsHead DEF FrpcReads, TypeOK

-----------------------------------------------------------------------------
(* Dialling: everything that follows a successful dial shows that it happened. *)

Follows(c) ==
    \/ \E ch \in Channel : Holds(toClient[ch], "data", c)
    \/ Holds(toServer["ctrl"], "init", c)
    \/ ready[c] \/ task[c] = "forwarding"

DialledInv == \A c \in Conns : Follows(c) => local[c] # "absent"

LEMMA DialledInit == Init => DialledInv
  <1> SUFFICES ASSUME Init, NEW c \in Conns PROVE ~Follows(c)
    BY DEF DialledInv
  <1>1. ~Holds(toServer["ctrl"], "init", c)
    BY HoldsEmpty DEF Init, Channel
  <1>2. \A ch \in Channel : ~Holds(toClient[ch], "data", c)
    BY HoldsEmpty DEF Init
  <1>3. ~ready[c] /\ task[c] # "forwarding"
    BY DEF Init
  <1> QED
    BY <1>1, <1>2, <1>3 DEF Follows

\* DATA is only sent for a connection that is ready or being forwarded.
LEMMA DialledForward ==
    ASSUME TypeOK, DialledInv, NEW c \in Conns, NEW k \in Nat, Forward(c, k),
           ready[c] \/ task[c] = "forwarding",
           UNCHANGED <<ready, toServer, local>>
    PROVE  DialledInv'
  <1>1. \A x \in Channel, d \in Conns : Holds(toClient'[x], "data", d) =>
            Holds(toClient[x], "data", d) \/ d = c
    <2>1. CASE FrpsSend(clientWriter[c], Data(c, k))
      <3>1. clientWriter[c] \in Channel \cup {"none"} /\ Data(c, k) \in Msg
            /\ Data(c, k).conn = c
        BY MsgType DEF Data, TypeOK
      <3>2. \A x \in Channel : \A d : Holds(toClient'[x], "data", d) =>
                Holds(toClient[x], "data", d) \/ Data(c, k).conn = d
        BY <2>1, <3>1, FrpsSendHolds
      <3> QED
        BY <3>1, <3>2
    <2>2. CASE UNCHANGED toClient
      BY <2>2
    <2> QED
      BY <2>1, <2>2 DEF Forward
  <1>2. \A d \in Conns : task'[d] = "forwarding" => task[d] = "forwarding" \/ d = c
    BY DEF Forward, TypeOK
  <1>3. local[c] # "absent"
    BY DEF DialledInv, Follows
  <1> QED
    BY <1>1, <1>2, <1>3 DEF DialledInv, Follows

\* NEW_CONN is no sign of a dial.
LEMMA DialledAnnounce ==
    ASSUME TypeOK, DialledInv, NEW c \in Conns, Announce(c) \/ RefuseConn(c),
           UNCHANGED <<ready, toServer, local>>
    PROVE  DialledInv'
  <1>1. \A x \in Channel, d \in Conns : Holds(toClient'[x], "data", d) =>
            Holds(toClient[x], "data", d)
    <2>1. CASE Announce(c)
      <3>1. NewConn(c) \in Msg /\ NewConn(c).type # "data"
        BY MsgType DEF NewConn
      <3>2. FrpsSend("ctrl", NewConn(c)) /\ "ctrl" \in Channel \cup {"none"}
        BY <2>1 DEF Announce, Channel
      <3>3. \A x \in Channel : \A d : Holds(toClient'[x], "data", d) =>
                Holds(toClient[x], "data", d) \/ NewConn(c).type = "data"
        BY <3>1, <3>2, FrpsSendHolds
      <3> QED
        BY <3>1, <3>3
    <2>2. CASE RefuseConn(c)
      BY <2>2 DEF RefuseConn
    <2> QED
      BY <2>1, <2>2
  <1>2. \A d \in Conns : task'[d] = "forwarding" => task[d] = "forwarding"
    BY DEF Announce, AnnounceFails, RefuseConn, TypeOK
  <1> QED
    BY <1>1, <1>2 DEF DialledInv, Follows

LEMMA DialledFrpsConn ==
    ASSUME TypeOK, DialledInv, NEW c \in Conns, FrpsConn(c) \/ IdleSweep(c)
    PROVE  DialledInv'
  <1> USE DEF sessVars, frpcVars, localVars, netVars
  <1>1. CASE HandleTcpProxyConn(c) \/ HandleHttpVhostConn(c)
    BY <1>1, DialledAnnounce DEF HandleTcpProxyConn, HandleHttpVhostConn
  <1>2. CASE FinishDrain(c)
    <2>1. \A d \in Conns : task'[d] = "forwarding" => task[d] = "forwarding"
      BY <1>2 DEF FinishDrain, AnnounceFails, TypeOK
    <2>2. UNCHANGED <<toClient, toServer, ready, local>>
      BY <1>2 DEF FinishDrain
    <2> QED
      BY <2>1, <2>2 DEF DialledInv, Follows
  <1>3. CASE StartForwarding(c)
    <2>1. CASE c \in HttpConns
      <3>1. Forward(c, 1) /\ ready[c] /\ 1 \in Nat /\ UNCHANGED <<ready, toServer, local>>
        BY <1>3, <2>1 DEF StartForwarding
      <3> QED
        BY <3>1, DialledForward
    <2>2. CASE c \notin HttpConns
      <3>1. ready[c] /\ task' = [task EXCEPT ![c] = "forwarding"]
            /\ UNCHANGED <<toClient, toServer, ready, local>>
        BY <1>3, <2>2 DEF StartForwarding
      <3> QED
        BY <3>1 DEF DialledInv, Follows, TypeOK
    <2> QED
      BY <2>1, <2>2
  <1>4. CASE ForwardProxyData(c)
    <2>1. Forward(c, taken[c] + 1) /\ task[c] = "forwarding" /\ taken[c] + 1 \in Nat
          /\ UNCHANGED <<ready, toServer, local>>
      BY <1>4 DEF ForwardProxyData, TypeOK
    <2> QED
      BY <2>1, DialledForward
  <1>5. CASE ReadyTimeout(c) \/ ForwardProxyEnd(c) \/ IdleSweep(c)
    <2>1. UNCHANGED <<toClient, toServer, ready, local>>
          /\ \A d \in Conns : task'[d] = "forwarding" => task[d] = "forwarding"
      BY <1>5 DEF ReadyTimeout, ForwardProxyEnd, IdleSweep, TypeOK
    <2> QED
      BY <2>1 DEF DialledInv, Follows
  <1> QED
    BY <1>1, <1>2, <1>3, <1>4, <1>5 DEF FrpsConn

LEMMA DialledFrpsMsgs ==
    ASSUME TypeOK, DialledInv, FrpsCtrl \/ FrpsData
    PROVE  DialledInv'
  <1> USE DEF sessVars, frpcVars, localVars, netVars, usersVars
  <1>1. ASSUME NEW c \in Conns, HandleInitConn(c) PROVE DialledInv'
    <2>1. Holds(toServer["ctrl"], "init", c)
          /\ \A d : Holds(toServer'["ctrl"], "init", d) => Holds(toServer["ctrl"], "init", d)
      BY <1>1, FrpsReadsHolds DEF HandleInitConn, InitConn, Channel
    <2>2. \A d \in Conns : ready'[d] => ready[d] \/ d = c
      BY <1>1 DEF HandleInitConn, TypeOK
    <2>3. UNCHANGED <<toClient, task, local>>
      BY <1>1 DEF HandleInitConn
    <2> QED
      BY <2>1, <2>2, <2>3 DEF DialledInv, Follows
  <1>2. ASSUME NEW ch \in Channel, NEW c \in Conns, NEW k \in Chunk,
               HandleData(ch, c, k)
        PROVE  DialledInv'
    <2>1. \A x \in Channel : \A d : Holds(toServer'[x], "init", d) =>
                                    Holds(toServer[x], "init", d)
      BY <1>2, FrpsReadsHolds DEF HandleData
    <2>2. UNCHANGED <<toClient, task, ready, local>>
      BY <1>2 DEF HandleData
    <2> QED
      BY <2>1, <2>2 DEF DialledInv, Follows, Channel
  <1>3. CASE HandleDataAuth
    <2>1. \A x \in Channel : \A d : Holds(toServer'[x], "init", d) =>
                                    Holds(toServer[x], "init", d)
      BY <1>3, FrpsReadsHolds DEF HandleDataAuth, Channel
    <2>2. \A x \in Channel : \A d : Holds(toClient'[x], "data", d) =>
                                    Holds(toClient[x], "data", d)
      <3>1. [type |-> "authResp"] \in Msg /\ [type |-> "authResp"].type # "data"
        BY MsgType
      <3> QED
        BY <1>3, <3>1, FrpsSendHolds DEF HandleDataAuth, Channel
    <2>3. UNCHANGED <<task, ready, local>>
      BY <1>3 DEF HandleDataAuth, frpsVars
    <2> QED
      BY <2>1, <2>2, <2>3 DEF DialledInv, Follows, Channel
  <1>4. ASSUME NEW ch \in Channel, NEW c \in Conns, HandleClose(ch, c)
        PROVE  DialledInv'
    <2>1. \A x \in Channel : \A d : Holds(toServer'[x], "init", d) =>
                                    Holds(toServer[x], "init", d)
      BY <1>4, FrpsReadsHolds DEF HandleClose
    <2>2. UNCHANGED <<toClient, task, ready, local>>
      BY <1>4 DEF HandleClose
    <2> QED
      BY <2>1, <2>2 DEF DialledInv, Follows, Channel
  <1> QED
    BY <1>1, <1>2, <1>3, <1>4 DEF FrpsCtrl, FrpsData, Channel

LEMMA DialledFrpc ==
    ASSUME TypeOK, DialledInv,
           FrpcCtrl \/ FrpcData \/ \E c \in Conns : FrpcConn(c)
    PROVE  DialledInv'
  <1> USE DEF sessVars, frpsVars, netVars, usersVars
  \* A step that only takes from toClient, adds no INIT_CONN and forgets no dial.
  <1>1. ASSUME \A x \in Channel, d \in Conns :
                   Holds(toClient'[x], "data", d) => Holds(toClient[x], "data", d),
               \A d \in Conns : Holds(toServer'["ctrl"], "init", d) =>
                                    Holds(toServer["ctrl"], "init", d),
               UNCHANGED <<task, ready>>,
               \A d \in Conns : local[d] # "absent" => local'[d] # "absent"
        PROVE  DialledInv'
    BY <1>1 DEF DialledInv, Follows
  <1>2. ASSUME NEW m \in Msg, FrpcSend(m), m.type # "init", NEW d \in Conns,
               Holds(toServer'["ctrl"], "init", d)
        PROVE  Holds(toServer["ctrl"], "init", d)
    BY <1>2, FrpcSendHolds DEF Channel
  <1>3. \A c \in Conns, k \in Nat :
            /\ Close(c) \in Msg /\ Close(c).type # "init"
            /\ Data(c, k) \in Msg /\ Data(c, k).type # "init"
    BY MsgType DEF Close, Data
  <1>4. ASSUME NEW c \in Conns, HandleNewConn(c) PROVE DialledInv'
    <2>1. UNCHANGED <<toServer, task, ready, local>>
      BY <1>4 DEF HandleNewConn, localVars
    <2>2. \A x \in Channel : \A d :
              Holds(toClient'[x], "data", d) => Holds(toClient[x], "data", d)
      BY <1>4, FrpcReadsHolds DEF HandleNewConn, Channel
    <2> QED
      BY <1>1, <2>1, <2>2
  <1>5. ASSUME NEW c \in Conns, DialSucceeds(c) PROVE DialledInv'
    <2>1. local' = [local EXCEPT ![c] = "open"] /\ UNCHANGED <<toClient, task, ready>>
      BY <1>5 DEF DialSucceeds
    <2>2. \A d \in Conns : Holds(toServer'["ctrl"], "init", d) =>
                               Holds(toServer["ctrl"], "init", d) \/ d = c
      <3>1. CASE FrpcSend(Close(c))
        BY <1>2, <1>3, <3>1
      <3>2. CASE toServer' = IF ctrlUp /\ srvCtrl
                       THEN [toServer EXCEPT !["ctrl"] = Append(@, InitConn(c))]
                       ELSE toServer
        <4>1. toServer["ctrl"] \in Seq(Msg) /\ InitConn(c) \in Msg
              /\ InitConn(c).conn = c
          BY MsgType DEF TypeOK, Channel, InitConn
        <4>2. toServer'["ctrl"] = toServer["ctrl"]
              \/ toServer'["ctrl"] = Append(toServer["ctrl"], InitConn(c))
          BY <3>2 DEF TypeOK, Channel
        <4>3. ASSUME NEW d \in Conns,
                     Holds(Append(toServer["ctrl"], InitConn(c)), "init", d)
              PROVE  Holds(toServer["ctrl"], "init", d) \/ d = c
          BY <4>1, <4>3, HoldsAppend
        <4>4. CASE toServer'["ctrl"] = toServer["ctrl"]
          BY <4>4
        <4>5. CASE toServer'["ctrl"] = Append(toServer["ctrl"], InitConn(c))
          BY <4>3, <4>5
        <4> QED
          BY <4>2, <4>4, <4>5
      <3> QED
        BY <1>5, <3>1, <3>2 DEF DialSucceeds
    <2> QED
      BY <2>1, <2>2 DEF DialledInv, Follows, TypeOK
  <1>6. ASSUME NEW c \in Conns, DialFails(c) PROVE DialledInv'
    <2>1. FrpcSend(Close(c)) /\ UNCHANGED <<toClient, task, ready, local>>
      BY <1>6 DEF DialFails, localVars
    <2> QED
      BY <1>1, <1>2, <1>3, <2>1
  <1>7. ASSUME NEW ch \in Channel, NEW c \in Conns, NEW k \in Chunk,
               FrpcHandleData(ch, c, k)
        PROVE  DialledInv'
    <2>1. UNCHANGED <<toServer, task, ready, local>>
      BY <1>7 DEF FrpcHandleData
    <2>2. \A x \in Channel : \A d :
              Holds(toClient'[x], "data", d) => Holds(toClient[x], "data", d)
      BY <1>7, FrpcReadsHolds DEF FrpcHandleData
    <2> QED
      BY <1>1, <2>1, <2>2
  <1>8. CASE DataChannelUp
    <2>1. UNCHANGED <<toServer, task, ready, local>>
      BY <1>8 DEF DataChannelUp, localVars
    <2>2. \A x \in Channel : \A d :
              Holds(toClient'[x], "data", d) => Holds(toClient[x], "data", d)
      BY <1>8, HoldsTail DEF DataChannelUp, TypeOK, Channel
    <2> QED
      BY <1>1, <2>1, <2>2
  <1>9. CASE DataChannelSetupFails \/ DataChannelEof
    <2>1. UNCHANGED <<toClient, toServer, task, ready, local>>
      BY <1>9 DEF DataChannelSetupFails, DataChannelEof, localVars
    <2> QED
      BY <1>1, <2>1
  <1>10. ASSUME NEW c \in Conns, ForwardLocalData(c) PROVE DialledInv'
    <2>1. UNCHANGED <<toClient, task, ready, local>>
      BY <1>10 DEF ForwardLocalData
    <2>2. FrpcSend(Data(c, localTaken[c] + 1)) \/ UNCHANGED toServer
      BY <1>10 DEF ForwardLocalData
    <2>3. localTaken \in [Conns -> Nat]
      BY DEF TypeOK
    <2>4. localTaken[c] + 1 \in Nat
      BY <2>3
    <2> QED
      BY <1>1, <1>2, <1>3, <2>1, <2>2, <2>4
  <1>11. ASSUME NEW c \in Conns, ForwardLocalEnd(c) PROVE DialledInv'
    <2>1. UNCHANGED <<toClient, toServer, task, ready, local>>
      BY <1>11 DEF ForwardLocalEnd, localVars
    <2> QED
      BY <1>1, <2>1
  <1> QED
    BY <1>4, <1>5, <1>6, <1>7, <1>8, <1>9, <1>10, <1>11
       DEF FrpcCtrl, FrpcData, FrpcConn, Channel

LEMMA DialledRest ==
    ASSUME TypeOK, DialledInv,
           Users \/ DataConnEnds \/ ControlBreaks \/ ControlConnEnds
             \/ ServerMessagesEnd \/ UNCHANGED vars
    PROVE  DialledInv'
  <1> USE DEF sessVars, frpsVars, frpcVars, localVars, netVars, usersVars
  <1>1. CASE Users
    <2>1. UNCHANGED <<toClient, toServer, ready>>
      BY <1>1 DEF Users, UserConnect, UserWrite, UserLeave, LocalWrite, LocalLeave
    <2>2. \A d \in Conns : /\ task'[d] = "forwarding" => task[d] = "forwarding"
                           /\ local[d] # "absent" => local'[d] # "absent"
      BY <1>1 DEF Users, UserConnect, UserWrite, UserLeave, LocalWrite, LocalLeave,
         TypeOK
    <2> QED
      BY <2>1, <2>2 DEF DialledInv, Follows
  <1>2. CASE DataConnEnds \/ ControlConnEnds
    <2>1. UNCHANGED <<toClient, task, ready, local>>
      BY <1>2 DEF DataConnEnds, ControlConnEnds
    <2>2. toServer'["ctrl"] = toServer["ctrl"] \/ toServer'["ctrl"] = <<>>
      BY <1>2 DEF DataConnEnds, ControlConnEnds, TypeOK, Channel
    <2> QED
      BY <2>1, <2>2, HoldsEmpty DEF DialledInv, Follows
  <1>3. CASE ServerMessagesEnd
    <2>1. UNCHANGED <<toServer, task, ready, local>>
          /\ \A x \in Channel : toClient'[x] = <<>>
      BY <1>3 DEF ServerMessagesEnd
    <2> QED
      BY <2>1, HoldsEmpty DEF DialledInv, Follows
  <1>4. CASE ControlBreaks \/ UNCHANGED vars
    BY <1>4 DEF ControlBreaks, vars, DialledInv, Follows
  <1> QED
    BY <1>1, <1>2, <1>3, <1>4

LEMMA DialledStep == TypeOK /\ DialledInv /\ [Next]_vars => DialledInv'
  BY DialledFrpsConn, DialledFrpsMsgs, DialledFrpc, DialledRest DEF Next

\* A user's bytes never reach frpc before the local service has been dialled.
THEOREM DialCorrect == Spec => []DataFollowsDial
  <1>1. DialledInv => DataFollowsDial
    BY DEF DialledInv, Follows, DataFollowsDial
  <1> QED
    BY <1>1, DialledInit, DialledStep, TypeCorrect, PTL DEF Spec

-----------------------------------------------------------------------------
(* Announcing: NEW_CONN goes out once for each connection.                    *)

Announced == toClient["ctrl"]

Once(q, c) == \A i, j \in 1..Len(q) : q[i] = NewConn(c) /\ q[j] = NewConn(c) => i = j

\* frpc has taken note of the connection.
Taken(c) == dialing = c \/ local[c] # "absent"

OnceInv ==
    \A c \in Conns :
        /\ Once(Announced, c)
        /\ Taken(c) => ~Holds(Announced, "new", c)
        /\ task[c] \in {"none", "accepted"} => ~Taken(c) /\ ~Holds(Announced, "new", c)
        /\ user[c] = "absent" => task[c] = "none"

LEMMA NewIs ==
    ASSUME NEW q \in Seq(Msg), NEW c \in Conns
    PROVE  Holds(q, "new", c) <=> \E i \in 1..Len(q) : q[i] = NewConn(c)
  <1>1. \A m \in Msg : m.type = "new" /\ m.conn = c <=> m = NewConn(c)
    BY DEF Msg, NewConn
  <1> QED
    BY <1>1 DEF Holds

LEMMA OnceAppend ==
    ASSUME NEW q \in Seq(Msg), NEW m \in Msg, NEW c \in Conns, Once(q, c),
           m = NewConn(c) => ~Holds(q, "new", c)
    PROVE  Once(Append(q, m), c)
  <1>1. CASE m # NewConn(c)
    BY <1>1 DEF Once
  <1>2. CASE ~Holds(q, "new", c)
    <2>1. \A i \in 1..Len(q) : q[i] # NewConn(c)
      BY <1>2, NewIs
    <2> QED
      BY <2>1 DEF Once
  <1> QED
    BY <1>1, <1>2

LEMMA OnceTail ==
    ASSUME NEW q \in Seq(Msg), q # <<>>, NEW c \in Conns, Once(q, c)
    PROVE  /\ Once(Tail(q), c)
           /\ Head(q) = NewConn(c) => ~Holds(Tail(q), "new", c)
  <1>1. \A i \in 1..Len(Tail(q)) : Tail(q)[i] = q[i + 1] /\ i + 1 \in 1..Len(q)
    OBVIOUS
  <1>2. Once(Tail(q), c)
    <2> SUFFICES ASSUME NEW i \in 1..Len(Tail(q)), NEW j \in 1..Len(Tail(q)),
                        Tail(q)[i] = NewConn(c), Tail(q)[j] = NewConn(c)
                 PROVE  i = j
      BY DEF Once
    <2>1. i + 1 = j + 1
      BY <1>1 DEF Once
    <2> QED
      BY <2>1
  <1>3. ASSUME Head(q) = NewConn(c) PROVE ~Holds(Tail(q), "new", c)
    <2>1. 1 \in 1..Len(q) /\ q[1] = NewConn(c)
      BY <1>3
    <2>2. \A i \in 1..Len(Tail(q)) : Tail(q)[i] # NewConn(c)
      <3> SUFFICES ASSUME NEW i \in 1..Len(Tail(q)), Tail(q)[i] = NewConn(c) PROVE FALSE
        OBVIOUS
      <3>1. i + 1 = 1
        BY <1>1, <2>1 DEF Once
      <3> QED
        BY <3>1
    <2>3. Tail(q) \in Seq(Msg)
      OBVIOUS
    <2> QED
      BY <2>2, <2>3, NewIs
  <1> QED
    BY <1>2, <1>3

\* The control channel announces nothing that it did not announce before.
NothingNew ==
    \A c \in Conns :
        /\ Once(Announced, c) => Once(Announced', c)
        /\ Holds(Announced', "new", c) => Holds(Announced, "new", c)

LEMMA SendOther ==
    ASSUME TypeOK, NEW ch \in Channel \cup {"none"}, NEW m \in Msg, FrpsSend(ch, m),
           \A c \in Conns : m # NewConn(c)
    PROVE  NothingNew
  <1>1. Announced \in Seq(Msg)
    BY DEF Announced, TypeOK, Channel
  <1>2. Announced' = Announced \/ Announced' = Append(Announced, m)
    BY DEF FrpsSend, Announced, TypeOK, Channel
  <1>3. \A c \in Conns : Once(Announced, c) => Once(Append(Announced, m), c)
    BY <1>1, OnceAppend
  <1>4. \A c \in Conns : Holds(Append(Announced, m), "new", c) => Holds(Announced, "new", c)
    <2> SUFFICES ASSUME NEW c \in Conns, Holds(Append(Announced, m), "new", c)
                 PROVE  Holds(Announced, "new", c)
      OBVIOUS
    <2>1. m.type = "new" /\ m.conn = c => m = NewConn(c)
      BY DEF Msg, NewConn
    <2> QED
      BY <1>1, <2>1, HoldsAppend
  <1> QED
    BY <1>2, <1>3, <1>4 DEF NothingNew

LEMMA ReadNothingNew ==
    ASSUME TypeOK, NEW ch \in Channel, NEW m, FrpcReads(ch, m)
    PROVE  /\ NothingNew
           /\ \A c \in Conns : ch = "ctrl" /\ m = NewConn(c) /\ Once(Announced, c)
                  => ~Holds(Announced', "new", c)
  <1>1. /\ Announced \in Seq(Msg)
        /\ Announced' = IF ch = "ctrl" THEN Tail(Announced) ELSE Announced
        /\ ch = "ctrl" => Announced # <<>> /\ m = Head(Announced)
    BY DEF FrpcReads, Announced, TypeOK, Channel
  <1>2. CASE ch = "ctrl"
    BY <1>1, <1>2, OnceTail, HoldsTail DEF NothingNew
  <1>3. CASE ch # "ctrl"
    BY <1>1, <1>3 DEF NothingNew
  <1> QED
    BY <1>2, <1>3

\* A step that announces nothing and takes no note of a connection.
LEMMA OnceKept ==
    ASSUME TypeOK, OnceInv, NothingNew,
           \A c \in Conns : Taken(c)' => Taken(c),
           \A c \in Conns : task'[c] \in {"none", "accepted"} => task[c] \in {"none", "accepted"},
           \A c \in Conns : user'[c] = "absent" =>
               user[c] = "absent" /\ (task[c] = "none" => task'[c] = "none")
    PROVE  OnceInv'
  <1> SUFFICES ASSUME NEW c \in Conns
               PROVE  /\ Once(Announced', c)
                      /\ Taken(c)' => ~Holds(Announced', "new", c)
                      /\ task'[c] \in {"none", "accepted"} =>
                            ~Taken(c)' /\ ~Holds(Announced', "new", c)
                      /\ user'[c] = "absent" => task'[c] = "none"
    BY DEF OnceInv
  <1> QED
    BY DEF OnceInv, NothingNew

\* A coroutine of frps that serves a connection sends nothing but DATA.
LEMMA OnceFrpsConn ==
    ASSUME TypeOK, OnceInv, NEW c \in Conns, task[c] # "none",
           NothingNew, UNCHANGED <<user, local, dialing>>,
           NEW t \in {"draining", "failed", "waiting", "forwarding", "done"},
           UNCHANGED task \/ task' = [task EXCEPT ![c] = t]
    PROVE  OnceInv'
  <1>1. \A d \in Conns : task'[d] = task[d] \/ (d = c /\ task'[d] = t)
    BY DEF TypeOK
  <1>2. \A d \in Conns : Taken(d)' => Taken(d)
    BY DEF Taken
  <1> QED
    BY <1>1, <1>2, OnceKept

LEMMA OnceAnnounce ==
    ASSUME TypeOK, OnceInv, NEW c \in Conns, task[c] = "accepted", Announce(c),
           UNCHANGED <<user, local, dialing>>
    PROVE  OnceInv'
  <1>1. Announced \in Seq(Msg) /\ NewConn(c) \in Msg
    BY MsgType DEF Announced, TypeOK, Channel
  <1>2. Announced' = Announced \/ Announced' = Append(Announced, NewConn(c))
    BY DEF Announce, FrpsSend, Announced, TypeOK, Channel
  <1>3. ~Holds(Announced, "new", c) /\ ~Taken(c)
    BY DEF OnceInv
  <1>4. \A d \in Conns : NewConn(d) = NewConn(c) => d = c
    BY DEF NewConn
  <1>5. \A d \in Conns : Once(Announced', d)
    BY <1>1, <1>2, <1>3, <1>4, OnceAppend DEF OnceInv
  <1>6. \A d \in Conns : Holds(Announced', "new", d) => Holds(Announced, "new", d) \/ d = c
    <2>1. NewConn(c).conn = c
      BY DEF NewConn
    <2>2. ASSUME NEW d \in Conns, Holds(Append(Announced, NewConn(c)), "new", d)
          PROVE  Holds(Announced, "new", d) \/ d = c
      BY <1>1, <2>1, <2>2, HoldsAppend
    <2> QED
      BY <1>2, <2>2
  <1>7. \A d \in Conns : task'[d] = task[d] \/ (d = c /\ task'[d] \in {"waiting", "draining", "failed"})
    BY DEF Announce, AnnounceFails, TypeOK
  <1>8. \A d \in Conns : Taken(d)' <=> Taken(d)
    BY DEF Taken
  <1> SUFFICES ASSUME NEW d \in Conns
               PROVE  /\ Once(Announced', d)
                      /\ Taken(d)' => ~Holds(Announced', "new", d)
                      /\ task'[d] \in {"none", "accepted"} =>
                            ~Taken(d)' /\ ~Holds(Announced', "new", d)
                      /\ user'[d] = "absent" => task'[d] = "none"
    BY DEF OnceInv
  <1> QED
    <2>1. CASE d = c
      <3>1. task'[d] \notin {"none", "accepted"} /\ user[d] # "absent"
        BY <2>1 DEF OnceInv, Announce, AnnounceFails, TypeOK
      <3> QED
        BY <1>3, <1>5, <1>8, <2>1, <3>1
    <2>2. CASE d # c
      BY <1>5, <1>6, <1>7, <1>8, <2>2 DEF OnceInv
    <2> QED
      BY <2>1, <2>2

LEMMA OnceForward ==
    ASSUME TypeOK, OnceInv, NEW c \in Conns, NEW k \in Nat, Forward(c, k), task[c] # "none",
           UNCHANGED <<user, local, dialing>>
    PROVE  OnceInv'
  <1>1. /\ clientWriter[c] \in Channel \cup {"none"} /\ Data(c, k) \in Msg
        /\ \A d \in Conns : Data(c, k) # NewConn(d)
    BY MsgType DEF TypeOK, Data, NewConn
  <1>2. UNCHANGED toClient => NothingNew
    BY DEF NothingNew, Announced
  <1>3. NothingNew
    BY <1>1, <1>2, SendOther DEF Forward
  <1>4. task' = [task EXCEPT ![c] = "forwarding"] \/ task' = [task EXCEPT ![c] = "done"]
    BY DEF Forward
  <1> QED
    BY <1>3, <1>4, OnceFrpsConn

LEMMA OnceStep == TypeOK /\ OnceInv /\ [Next]_vars => OnceInv'
  <1> SUFFICES ASSUME TypeOK, OnceInv, [Next]_vars PROVE OnceInv'
    OBVIOUS
  <1> USE DEF usersVars, sessVars, frpcVars, localVars, netVars
  <1>1. UNCHANGED toClient => NothingNew
    BY DEF NothingNew, Announced
  <1>2. ASSUME NothingNew, UNCHANGED <<user, task>>, \A d \in Conns : Taken(d)' => Taken(d)
        PROVE  OnceInv'
    BY <1>2, OnceKept
  <1>3. UNCHANGED <<local, dialing>> => \A d \in Conns : Taken(d)' => Taken(d)
    BY DEF Taken
  <1>4. ASSUME NEW c \in Conns, HandleTcpProxyConn(c) \/ HandleHttpVhostConn(c) PROVE OnceInv'
    <2>1. task[c] = "accepted" /\ UNCHANGED <<user, local, dialing>>
          /\ (Announce(c) \/ RefuseConn(c))
      BY <1>4 DEF HandleTcpProxyConn, HandleHttpVhostConn
    <2>2. CASE Announce(c)
      BY <2>1, <2>2, OnceAnnounce
    <2>3. CASE RefuseConn(c)
      <3>1. task' = [task EXCEPT ![c] = "done"] /\ UNCHANGED toClient
        BY <2>3 DEF RefuseConn
      <3> QED
        BY <1>1, <2>1, <3>1, OnceFrpsConn
    <2> QED
      BY <2>1, <2>2, <2>3
  <1>5. ASSUME NEW c \in Conns, FinishDrain(c) \/ ReadyTimeout(c) \/ ForwardProxyEnd(c) PROVE OnceInv'
    <2>1. /\ task[c] # "none" /\ UNCHANGED <<user, local, dialing, toClient>>
          /\ \E t \in {"waiting", "failed", "done"} : task' = [task EXCEPT ![c] = t]
      BY <1>5 DEF FinishDrain, AnnounceFails, ReadyTimeout, ForwardProxyEnd
    <2> QED
      BY <1>1, <2>1, OnceFrpsConn
  <1>6. ASSUME NEW c \in Conns, StartForwarding(c) PROVE OnceInv'
    <2>1. task[c] # "none" /\ UNCHANGED <<user, local, dialing>>
      BY <1>6 DEF StartForwarding
    <2>2. CASE c \in HttpConns
      <3>1. Forward(c, 1) /\ 1 \in Nat
        BY <1>6, <2>2 DEF StartForwarding
      <3> QED
        BY <2>1, <3>1, OnceForward
    <2>3. CASE c \notin HttpConns
      <3>1. task' = [task EXCEPT ![c] = "forwarding"] /\ UNCHANGED toClient
        BY <1>6, <2>3 DEF StartForwarding
      <3> QED
        BY <1>1, <2>1, <3>1, OnceFrpsConn
    <2> QED
      BY <2>2, <2>3
  <1>7. ASSUME NEW c \in Conns, ForwardProxyData(c) PROVE OnceInv'
    <2>1. task[c] # "none" /\ UNCHANGED <<user, local, dialing>> /\ Forward(c, taken[c] + 1)
          /\ taken[c] + 1 \in Nat
      BY <1>7 DEF ForwardProxyData, TypeOK
    <2> QED
      BY <2>1, OnceForward
  <1>8. ASSUME NEW c \in Conns, UserConnect(c) PROVE OnceInv'
    <2>1. /\ user[c] = "absent" /\ user' = [user EXCEPT ![c] = "open"]
          /\ task' = [task EXCEPT ![c] = "accepted"] /\ UNCHANGED <<toClient, local, dialing>>
      BY <1>8 DEF UserConnect
    <2>2. task[c] = "none"
      BY <2>1 DEF OnceInv
    <2>3. /\ \A d \in Conns : user'[d] = "absent" => user[d] = "absent" /\ d # c
          /\ \A d \in Conns : task'[d] = task[d] \/ d = c
      BY <2>1 DEF TypeOK
    <2> QED
      BY <1>1, <1>3, <2>1, <2>2, <2>3, OnceKept
  <1>9. ASSUME NEW c \in Conns, UserLeave(c) PROVE OnceInv'
    <2>1. user' = [user EXCEPT ![c] = "left"] /\ UNCHANGED <<task, toClient, local, dialing>>
      BY <1>9 DEF UserLeave, frpsVars
    <2>2. \A d \in Conns : user'[d] = "absent" => user[d] = "absent"
      BY <2>1 DEF TypeOK
    <2> QED
      BY <1>1, <1>3, <2>1, <2>2, OnceKept
  <1>10. ASSUME NEW c \in Conns, LocalLeave(c) PROVE OnceInv'
    <2>1. /\ local[c] = "open" /\ local' = [local EXCEPT ![c] = "left"]
          /\ UNCHANGED <<user, task, toClient, dialing>>
      BY <1>10 DEF LocalLeave, frpsVars
    <2>2. \A d \in Conns : Taken(d)' => Taken(d)
      BY <2>1 DEF Taken, TypeOK
    <2> QED
      BY <1>1, <1>2, <2>1, <2>2
  <1>11. ASSUME NEW c \in Conns, UserWrite(c) \/ LocalWrite(c) \/ IdleSweep(c) \/ FrpcConn(c)
         PROVE  OnceInv'
    <2>1. UNCHANGED <<user, task, toClient, local, dialing>>
      BY <1>11 DEF UserWrite, LocalWrite, IdleSweep, FrpcConn, ForwardLocalData,
         ForwardLocalEnd, frpsVars
    <2> QED
      BY <1>1, <1>2, <1>3, <2>1
  <1>12. CASE FrpsCtrl \/ FrpsData
    <2>1. UNCHANGED <<user, task, local, dialing>>
      BY <1>12 DEF FrpsCtrl, FrpsData, HandleInitConn, HandleClose, HandleData, HandleDataAuth,
         frpsVars
    <2>2. UNCHANGED toClient \/ HandleDataAuth
      BY <1>12 DEF FrpsCtrl, FrpsData, HandleInitConn, HandleClose, HandleData
    <2>3. ASSUME HandleDataAuth PROVE NothingNew
      <3>1. [type |-> "authResp"] \in Msg /\ \A d \in Conns : [type |-> "authResp"] # NewConn(d)
        BY MsgType DEF NewConn
      <3> QED
        BY <1>1, <2>3, <3>1, SendOther DEF HandleDataAuth, Channel
    <2> QED
      BY <1>1, <1>2, <1>3, <2>1, <2>2, <2>3
  <1>13. ASSUME NEW c \in Conns, HandleNewConn(c) PROVE OnceInv'
    <2>1. /\ FrpcReads("ctrl", NewConn(c)) /\ dialing' = c /\ "ctrl" \in Channel
          /\ UNCHANGED <<user, task, local>>
      BY <1>13 DEF HandleNewConn, frpsVars, Channel
    <2>2. NothingNew /\ ~Holds(Announced', "new", c)
      BY <2>1, ReadNothingNew DEF OnceInv
    <2>3. Holds(Announced, "new", c)
      <3>1. NewConn(c).type = "new" /\ NewConn(c).conn = c
        BY DEF NewConn
      <3> QED
        BY <2>1, <3>1, FrpcReadsHolds DEF Announced
    <2>4. task[c] \notin {"none", "accepted"}
      BY <2>3 DEF OnceInv
    <2>5. \A d \in Conns : Taken(d)' => Taken(d) \/ d = c
      BY <2>1 DEF Taken
    <2> SUFFICES ASSUME NEW d \in Conns
                 PROVE  /\ Once(Announced', d)
                        /\ Taken(d)' => ~Holds(Announced', "new", d)
                        /\ task'[d] \in {"none", "accepted"} =>
                              ~Taken(d)' /\ ~Holds(Announced', "new", d)
                        /\ user'[d] = "absent" => task'[d] = "none"
      BY DEF OnceInv
    <2> QED
      BY <2>1, <2>2, <2>4, <2>5 DEF OnceInv, NothingNew
  <1>14. ASSUME NEW c \in Conns, DialSucceeds(c) \/ DialFails(c) PROVE OnceInv'
    <2>1. /\ dialing = c /\ dialing' = None /\ UNCHANGED <<user, task, toClient>>
          /\ \A d \in Conns : d # c => local'[d] = local[d]
      BY <1>14 DEF DialSucceeds, DialFails, TypeOK, frpsVars
    <2>2. None \notin Conns
      BY ConstantsAssumption
    <2>3. \A d \in Conns : Taken(d)' => Taken(d)
      BY <2>1, <2>2 DEF Taken
    <2> QED
      BY <1>1, <1>2, <2>1, <2>3
  <1>15. ASSUME NEW ch \in Channel, NEW c \in Conns, NEW k \in Chunk, FrpcHandleData(ch, c, k)
         PROVE  OnceInv'
    <2>1. UNCHANGED <<user, task, local, dialing>> /\ FrpcReads(ch, Data(c, k))
      BY <1>15 DEF FrpcHandleData, frpsVars
    <2> QED
      BY <1>2, <1>3, <2>1, ReadNothingNew
  <1>16. CASE DataChannelUp \/ DataChannelSetupFails \/ DataChannelEof
    <2>1. UNCHANGED <<user, task, local, dialing>> /\ Announced' = Announced
      BY <1>16 DEF DataChannelUp, DataChannelSetupFails, DataChannelEof, frpsVars, Announced,
         TypeOK, Channel
    <2>2. NothingNew
      BY <2>1 DEF NothingNew
    <2> QED
      BY <1>2, <1>3, <2>1, <2>2
  <1>17. CASE DataConnEnds \/ ControlBreaks \/ ControlConnEnds
    <2>1. UNCHANGED <<user, task, local, dialing, toClient>>
      BY <1>17 DEF DataConnEnds, ControlBreaks, ControlConnEnds, frpsVars
    <2> QED
      BY <1>1, <1>2, <1>3, <2>1
  <1>18. CASE ServerMessagesEnd
    <2>1. UNCHANGED <<user, task, local, dialing>> /\ Announced' = <<>>
      BY <1>18 DEF ServerMessagesEnd, frpsVars, Announced, Channel
    <2>2. NothingNew
      BY <2>1 DEF NothingNew, Once, Holds
    <2> QED
      BY <1>2, <1>3, <2>1, <2>2
  <1>19. CASE UNCHANGED vars
    <2>1. UNCHANGED <<user, task, local, dialing, toClient>>
      BY <1>19 DEF vars, frpsVars
    <2> QED
      BY <1>1, <1>2, <1>3, <2>1
  <1> QED
    BY <1>4, <1>5, <1>6, <1>7, <1>8, <1>9, <1>10, <1>11, <1>12, <1>13, <1>14, <1>15, <1>16,
       <1>17, <1>18, <1>19 DEF Next, Users, FrpsConn, FrpcCtrl, FrpcData, Channel

LEMMA OnceInit == Init => OnceInv
  <1> SUFFICES ASSUME Init, NEW c \in Conns
               PROVE  /\ Once(Announced, c) /\ ~Holds(Announced, "new", c) /\ ~Taken(c)
                      /\ task[c] = "none"
    BY DEF OnceInv
  <1>1. Announced = <<>> /\ dialing = None /\ local[c] = "absent" /\ task[c] = "none"
    BY DEF Init, Announced, Channel
  <1>2. c # None
    BY ConstantsAssumption
  <1> QED
    BY <1>1, <1>2 DEF Once, Holds, Taken

\* However drains are suspended and connections break, no user's connection is
\* announced to frpc twice, nor after frpc has begun to dial it
\* (handle_tcp_proxy_conn, handle_http_vhost_conn, handle_new_conn).
THEOREM AnnouncedCorrect == Spec => []AnnouncedOnce
  <1>1. OnceInv => AnnouncedOnce
    BY DEF OnceInv, AnnouncedOnce, Announced, Once, Taken
  <1> QED
    BY <1>1, OnceInit, OnceStep, TypeCorrect, PTL DEF Spec

-----------------------------------------------------------------------------
(* Streams: the chunks of a connection that a channel holds are the next ones  *)
(* its reader needs, in order and without a gap.                             *)

IsData(m, c) == m.type = "data" /\ m.conn = c

\* q holds chunks of c between n (handed on) and m (written), in order, none
\* left out before the last of them.
Numbered(q, c, n, m) ==
    /\ n <= m
    /\ \A i \in 1..Len(q) : IsData(q[i], c) =>
          /\ n < q[i].chunk /\ q[i].chunk <= m
          /\ q[i].chunk > n + 1 => \E j \in 1..(i - 1) : q[j] = Data(c, q[i].chunk - 1)
          /\ \A j \in 1..(i - 1) : IsData(q[j], c) => q[j].chunk < q[i].chunk

\* The last chunk written is still in q, unless it has been handed on.
Reaches(q, c, n, m) == m > n => \E i \in 1..Len(q) : q[i] = Data(c, m)

LEMMA DataFields ==
    ASSUME NEW c, NEW k
    PROVE  IsData(Data(c, k), c) /\ Data(c, k).chunk = k /\ Data(c, k).conn = c
  BY DEF IsData, Data

LEMMA DataIs ==
    ASSUME NEW m \in Msg, NEW c, IsData(m, c)
    PROVE  m = Data(c, m.chunk) /\ m.chunk \in Nat
  BY DEF IsData, Data, Msg

LEMMA HoldsData ==
    ASSUME NEW q, NEW c, NEW i \in 1..Len(q), IsData(q[i], c)
    PROVE  Holds(q, "data", c)
  BY DEF IsData, Holds

LEMMA NumberedNone ==
    ASSUME NEW q \in Seq(Msg), NEW c \in Conns, NEW n \in Nat, NEW m \in Nat,
           ~Holds(q, "data", c), n <= m
    PROVE  Numbered(q, c, n, m)
  BY HoldsData DEF Numbered

LEMMA NumberedMore ==
    ASSUME NEW q \in Seq(Msg), NEW c \in Conns, NEW n \in Nat, NEW m \in Nat,
           NEW p \in Nat, Numbered(q, c, n, m), m <= p
    PROVE  Numbered(q, c, n, p)
  <1>1. \A i \in 1..Len(q) : IsData(q[i], c) => q[i].chunk \in Nat
    BY DataIs
  <1> QED
    BY <1>1 DEF Numbered

LEMMA NumberedOther ==
    ASSUME NEW q \in Seq(Msg), NEW c \in Conns, NEW n \in Nat, NEW m \in Nat,
           NEW x \in Msg, ~IsData(x, c)
    PROVE  /\ Numbered(q, c, n, m) => Numbered(Append(q, x), c, n, m)
           /\ Reaches(q, c, n, m) => Reaches(Append(q, x), c, n, m)
  <1> DEFINE r == Append(q, x)
  <1>1. /\ Len(r) = Len(q) + 1 /\ Len(q) \in Nat
        /\ \A i \in 1..Len(q) : r[i] = q[i] /\ i \in 1..Len(r)
        /\ r[Len(q) + 1] = x
    OBVIOUS
  <1> HIDE DEF r
  <1>2. ASSUME Numbered(q, c, n, m) PROVE Numbered(r, c, n, m)
    <2> SUFFICES ASSUME NEW i \in 1..Len(r), IsData(r[i], c)
                 PROVE  /\ n < r[i].chunk /\ r[i].chunk <= m
                        /\ r[i].chunk > n + 1 => \E j \in 1..(i - 1) : r[j] = Data(c, r[i].chunk - 1)
                        /\ \A j \in 1..(i - 1) : IsData(r[j], c) => r[j].chunk < r[i].chunk
      BY <1>2 DEF Numbered
    <2>1. i \in 1..Len(q) /\ r[i] = q[i]
      BY <1>1
    <2>2. \A j \in 1..(i - 1) : r[j] = q[j]
      BY <1>1, <2>1
    <2> QED
      BY <1>2, <2>1, <2>2 DEF Numbered
  <1>3. Reaches(q, c, n, m) => Reaches(r, c, n, m)
    BY <1>1 DEF Reaches
  <1> QED
    BY <1>2, <1>3 DEF r

LEMMA NumberedAppend ==
    ASSUME NEW q \in Seq(Msg), NEW c \in Conns, NEW n \in Nat, NEW m \in Nat,
           Numbered(q, c, n, m), Reaches(q, c, n, m)
    PROVE  /\ Numbered(Append(q, Data(c, m + 1)), c, n, m + 1)
           /\ Reaches(Append(q, Data(c, m + 1)), c, n, m + 1)
  <1> DEFINE r == Append(q, Data(c, m + 1))
  <1>1. /\ Len(r) = Len(q) + 1 /\ Len(q) \in Nat
        /\ \A i \in 1..Len(q) : r[i] = q[i] /\ i \in 1..Len(r)
        /\ r[Len(q) + 1] = Data(c, m + 1)
    BY MsgType
  <1> HIDE DEF r
  <1>2. n <= m /\ \A i \in 1..Len(q) : IsData(q[i], c) => q[i].chunk \in Nat
    BY DataIs DEF Numbered
  <1>3. ASSUME NEW i \in 1..Len(r), IsData(r[i], c)
        PROVE  /\ n < r[i].chunk /\ r[i].chunk <= m + 1
               /\ r[i].chunk > n + 1 => \E j \in 1..(i - 1) : r[j] = Data(c, r[i].chunk - 1)
               /\ \A j \in 1..(i - 1) : IsData(r[j], c) => r[j].chunk < r[i].chunk
    <2>1. CASE i \in 1..Len(q)
      <3>1. r[i] = q[i] /\ \A j \in 1..(i - 1) : r[j] = q[j]
        BY <1>1, <2>1
      <3> QED
        BY <1>2, <1>3, <2>1, <3>1 DEF Numbered
    <2>2. CASE i = Len(q) + 1
      <3>1. r[i].chunk = m + 1 /\ i - 1 = Len(q)
        BY <1>1, <2>2, DataFields
      <3>2. m + 1 > n + 1 => \E j \in 1..(i - 1) : r[j] = Data(c, m)
        BY <1>1, <3>1 DEF Reaches
      <3>3. \A j \in 1..(i - 1) : IsData(r[j], c) => r[j].chunk < m + 1
        <4> SUFFICES ASSUME NEW j \in 1..Len(q), IsData(q[j], c) PROVE q[j].chunk < m + 1
          BY <1>1, <3>1
        <4> QED
          BY <1>2 DEF Numbered
      <3>4. m + 1 - 1 = m /\ n < m + 1
        BY <1>2
      <3> QED
        BY <3>1, <3>2, <3>3, <3>4
    <2> QED
      BY <1>1, <2>1, <2>2
  <1>4. Numbered(r, c, n, m + 1)
    BY <1>2, <1>3 DEF Numbered
  <1>5. Reaches(r, c, n, m + 1)
    <2>1. Len(q) + 1 \in 1..Len(r)
      BY <1>1
    <2> QED
      BY <1>1, <2>1 DEF Reaches
  <1> QED
    BY <1>4, <1>5 DEF r

\* Taking a message that is no chunk of c.
LEMMA NumberedTail ==
    ASSUME NEW q \in Seq(Msg), q # <<>>, NEW c \in Conns, NEW n \in Nat, NEW m \in Nat,
           ~IsData(Head(q), c)
    PROVE  /\ Numbered(q, c, n, m) => Numbered(Tail(q), c, n, m)
           /\ Reaches(q, c, n, m) => Reaches(Tail(q), c, n, m)
  <1> DEFINE r == Tail(q)
  <1>1. /\ Len(q) = Len(r) + 1 /\ Len(r) \in Nat
        /\ \A i \in 1..Len(r) : r[i] = q[i + 1] /\ i + 1 \in 1..Len(q)
        /\ Head(q) = q[1]
    OBVIOUS
  <1> HIDE DEF r
  <1>2. ASSUME NEW i \in 1..Len(q), IsData(q[i], c)
        PROVE  i - 1 \in 1..Len(r) /\ q[i] = r[i - 1]
    <2>1. i # 1
      BY <1>1, <1>2
    <2> QED
      BY <1>1, <2>1
  <1>3. ASSUME Numbered(q, c, n, m), NEW i \in 1..Len(r), IsData(r[i], c)
        PROVE  /\ n < r[i].chunk /\ r[i].chunk <= m
               /\ r[i].chunk > n + 1 => \E j \in 1..(i - 1) : r[j] = Data(c, r[i].chunk - 1)
               /\ \A j \in 1..(i - 1) : IsData(r[j], c) => r[j].chunk < r[i].chunk
    <2>1. r[i] = q[i + 1] /\ i + 1 \in 1..Len(q) /\ i + 1 - 1 = i
      BY <1>1
    <2>2. n < r[i].chunk /\ r[i].chunk <= m
      BY <1>3, <2>1 DEF Numbered
    <2>3. ASSUME r[i].chunk > n + 1
          PROVE  \E j \in 1..(i - 1) : r[j] = Data(c, r[i].chunk - 1)
      <3>1. PICK j \in 1..i : q[j] = Data(c, r[i].chunk - 1)
        BY <1>3, <2>1, <2>3 DEF Numbered
      <3>2. j \in 1..Len(q) /\ IsData(q[j], c)
        BY <1>1, <3>1, DataFields
      <3>3. j - 1 \in 1..Len(r) /\ q[j] = r[j - 1]
        BY <1>2, <3>2
      <3>4. j - 1 \in 1..(i - 1)
        BY <3>1, <3>3
      <3> QED
        BY <3>1, <3>3, <3>4
    <2>4. ASSUME NEW j \in 1..(i - 1), IsData(r[j], c) PROVE r[j].chunk < r[i].chunk
      <3>1. r[j] = q[j + 1] /\ j + 1 \in 1..i
        BY <1>1
      <3> QED
        BY <1>3, <2>1, <2>4, <3>1 DEF Numbered
    <2> QED
      BY <2>2, <2>3, <2>4
  <1>4. Numbered(q, c, n, m) => Numbered(r, c, n, m)
    BY <1>3 DEF Numbered
  <1>5. ASSUME Reaches(q, c, n, m), m > n PROVE \E i \in 1..Len(r) : r[i] = Data(c, m)
    <2>1. PICK i \in 1..Len(q) : q[i] = Data(c, m)
      BY <1>5 DEF Reaches
    <2> QED
      BY <1>2, <2>1, DataFields
  <1> QED
    BY <1>4, <1>5 DEF r, Reaches

\* The first chunk of c to come is the next one.
LEMMA NumberedHead ==
    ASSUME NEW q \in Seq(Msg), q # <<>>, NEW c \in Conns, NEW n \in Nat, NEW m \in Nat,
           NEW k, Head(q) = Data(c, k), Numbered(q, c, n, m)
    PROVE  /\ k = n + 1 /\ k <= m
           /\ Numbered(Tail(q), c, k, m)
           /\ Reaches(q, c, n, m) => Reaches(Tail(q), c, k, m)
  <1> DEFINE r == Tail(q)
  <1>1. /\ Len(q) = Len(r) + 1 /\ Len(r) \in Nat
        /\ \A i \in 1..Len(r) : r[i] = q[i + 1] /\ i + 1 \in 1..Len(q)
        /\ Head(q) = q[1] /\ 1 \in 1..Len(q)
    OBVIOUS
  <1> HIDE DEF r
  <1>2. q[1] = Data(c, k) /\ IsData(q[1], c) /\ q[1].chunk = k /\ k \in Nat
    BY <1>1, DataFields, DataIs
  <1>3. k = n + 1 /\ k <= m
    <2>1. n < k /\ k <= m /\ (k > n + 1 => \E j \in 1..0 : q[j] = Data(c, k - 1))
      BY <1>1, <1>2 DEF Numbered
    <2> QED
      BY <1>2, <2>1
  <1>4. ASSUME NEW i \in 2..Len(q) PROVE i - 1 \in 1..Len(r) /\ q[i] = r[i - 1]
    BY <1>1
  <1>5. ASSUME NEW i \in 1..Len(r), IsData(r[i], c)
        PROVE  /\ k < r[i].chunk /\ r[i].chunk <= m
               /\ r[i].chunk > k + 1 => \E j \in 1..(i - 1) : r[j] = Data(c, r[i].chunk - 1)
               /\ \A j \in 1..(i - 1) : IsData(r[j], c) => r[j].chunk < r[i].chunk
    <2>1. r[i] = q[i + 1] /\ i + 1 \in 1..Len(q) /\ i + 1 - 1 = i /\ 1 \in 1..i
      BY <1>1
    <2>0. r[i].chunk \in Nat
      BY <1>1, <1>5, DataIs
    <2>2. k < r[i].chunk /\ r[i].chunk <= m
      BY <1>2, <1>5, <2>1 DEF Numbered
    <2>3. ASSUME r[i].chunk > k + 1
          PROVE  \E j \in 1..(i - 1) : r[j] = Data(c, r[i].chunk - 1)
      <3>1. PICK j \in 1..i : q[j] = Data(c, r[i].chunk - 1)
        BY <1>3, <1>5, <2>0, <2>1, <2>3 DEF Numbered
      <3>2. q[j].chunk = r[i].chunk - 1
        BY <3>1, DataFields
      <3>3. j # 1
        BY <1>2, <2>0, <2>3, <3>2
      <3>4. j - 1 \in 1..(i - 1) /\ q[j] = r[j - 1]
        BY <1>1, <1>4, <3>1, <3>3
      <3> QED
        BY <3>1, <3>4
    <2>4. ASSUME NEW j \in 1..(i - 1), IsData(r[j], c) PROVE r[j].chunk < r[i].chunk
      <3>1. r[j] = q[j + 1] /\ j + 1 \in 1..i
        BY <1>1
      <3> QED
        BY <1>5, <2>1, <2>4, <3>1 DEF Numbered
    <2> QED
      BY <2>2, <2>3, <2>4
  <1>6. Numbered(r, c, k, m)
    BY <1>3, <1>5 DEF Numbered
  <1>7. ASSUME Reaches(q, c, n, m), m > k PROVE \E i \in 1..Len(r) : r[i] = Data(c, m)
    <2>1. PICK i \in 1..Len(q) : q[i] = Data(c, m)
      BY <1>2, <1>3, <1>7 DEF Reaches
    <2>2. i # 1
      BY <1>2, <1>7, <2>1, DataFields
    <2> QED
      BY <1>4, <2>1, <2>2
  <1> QED
    BY <1>3, <1>6, <1>7 DEF r, Reaches

-----------------------------------------------------------------------------
(* The two connections of a session, as long as the data channel does not fail: *)
(* both programs agree on whether it is there, before the first dial.         *)

SessInv ==
    /\ ctrlUp => cliCtrl /\ srvCtrl
    /\ dataReader => dataUp /\ dataOpen
    /\ dataUp => cliCtrl /\ setup = "done"
    /\ setup = "auth" => cliCtrl
    /\ dataWriter => dataOpen
    /\ setup = "done" /\ dataOpen => dataWriter /\ (cliCtrl => dataUp)
    \* frps answered the authentication by closing: its session was over.
    /\ dataUp /\ ~dataOpen => ~srvCtrl /\ \A c \in Conns : ~ready[c]

Auth == [type |-> "auth"]
AuthResp == [type |-> "authResp"]

\* While frpc waits for the answer, the data connection carries nothing else, and
\* no connection has been dialled.
AuthInv ==
    /\ setup = "auth" =>
          /\ \/ /\ toServer["data"] = <<Auth>> /\ toClient["data"] = <<>>
                /\ dataOpen /\ ~dataWriter
             \/ /\ toServer["data"] = <<>> /\ toClient["data"] = <<AuthResp>>
                /\ dataOpen /\ dataWriter
             \/ /\ toServer["data"] = <<>> /\ toClient["data"] = <<>>
                /\ ~dataOpen /\ ~srvCtrl
          /\ dialing = None /\ \A c \in Conns : local[c] = "absent"
    /\ setup = "done" =>
          \A i \in 1..Len(toServer["data"]) : toServer["data"][i].type # "auth"

\* frps sends DATA for connections that INIT_CONN has made ready.
SentInv ==
    \A c \in Conns :
        (\E ch \in Channel : Holds(toClient[ch], "data", c)) \/ task[c] = "forwarding"
            => ready[c]

\* frpc does so for connections it has dialled.
LocalInv ==
    \A c \in Conns : local[c] = "absent" =>
        /\ c \notin cpool /\ ctask[c] = "none" /\ localTaken[c] = 0 /\ localGot[c] = <<>>
        /\ \A ch \in Channel : ~Holds(toServer[ch], "data", c)

\* A write of frpc leaves its view of the data channel alone, unless frps has
\* closed that.
LEMMA FrpcSendSess ==
    ASSUME NEW m, FrpcSend(m)
    PROVE  UNCHANGED <<dataUp, dataReader>>
             \/ (dataUp /\ ~dataOpen /\ ~dataUp' /\ ~dataReader')
  BY DEF FrpcSend

LEMMA BaseInit ==
    ASSUME Init
    PROVE  SessInv /\ AuthInv /\ SentInv /\ LocalInv
  <1>1. SessInv
    BY DEF Init, SessInv
  <1>2. AuthInv
    <2>1. toClient["data"] = <<>>
      BY DEF Init, Channel
    <2>2. setup = "done" => toServer["data"] = <<>>
      BY DEF Init, Channel
    <2>3. setup = "auth" => toServer["data"] = <<Auth>>
      BY DEF Init, Channel, Auth
    <2> QED
      BY <2>1, <2>2, <2>3 DEF Init, AuthInv
  <1>3. SentInv
    BY HoldsEmpty DEF Init, SentInv
  <1>4. LocalInv
    <2>1. ASSUME NEW c \in Conns, NEW ch \in Channel PROVE ~Holds(toServer[ch], "data", c)
      <3>1. toServer[ch] = <<>> \/ toServer[ch] = <<Auth>>
        BY DEF Init, Auth
      <3>2. ~Holds(<<Auth>>, "data", c)
        BY DEF Holds, Auth
      <3> QED
        BY <3>1, <3>2, HoldsEmpty
    <2> QED
      BY <2>1 DEF Init, LocalInv
  <1> QED
    BY <1>1, <1>2, <1>3, <1>4

LEMMA SessStep ==
    ASSUME ~DataFails, TypeOK, SessInv, AuthInv, DialledInv, [Next]_vars
    PROVE  SessInv'
  <1> USE DEF usersVars, frpsVars, sessVars, frpcVars, localVars, netVars
  <1>1. ASSUME UNCHANGED <<srvCtrl, cliCtrl, ctrlUp, setup, dataWriter, dataOpen, dataUp,
                           dataReader, ready>>
        PROVE  SessInv'
    BY <1>1 DEF SessInv
  <1>2. ASSUME UNCHANGED <<srvCtrl, cliCtrl, ctrlUp, setup, dataWriter, dataOpen, ready>>,
               dataUp /\ ~dataOpen /\ ~dataUp' /\ ~dataReader'
        PROVE  SessInv'
    BY <1>2 DEF SessInv
  <1>3. CASE Users \/ \E c \in Conns : FrpsConn(c) \/ IdleSweep(c)
    <2>1. UNCHANGED <<srvCtrl, cliCtrl, ctrlUp, setup, dataWriter, dataOpen, dataUp,
                      dataReader, ready>>
      BY <1>3 DEF Users, UserConnect, UserWrite, UserLeave, LocalWrite, LocalLeave, FrpsConn,
         HandleTcpProxyConn, HandleHttpVhostConn, FinishDrain, StartForwarding, ReadyTimeout,
         ForwardProxyData, ForwardProxyEnd, IdleSweep
    <2> QED
      BY <1>1, <2>1
  <1>4. ASSUME NEW c \in Conns, HandleInitConn(c) PROVE SessInv'
    <2>1. UNCHANGED <<srvCtrl, cliCtrl, ctrlUp, setup, dataWriter, dataOpen, dataUp,
                      dataReader>> /\ srvCtrl
      BY <1>4 DEF HandleInitConn, FrpsReads
    <2> QED
      BY <2>1 DEF SessInv
  <1>5. ASSUME NEW c \in Conns, NEW ch \in Channel, NEW k,
               HandleData(ch, c, k) \/ HandleClose(ch, c)
        PROVE  SessInv'
    BY <1>1, <1>5 DEF HandleData, HandleClose
  <1>6. CASE HandleDataAuth
    <2>1. /\ FrpsReads("data", Auth)
          /\ dataWriter' = srvCtrl /\ dataOpen' = srvCtrl
          /\ UNCHANGED <<srvCtrl, cliCtrl, ctrlUp, setup, dataUp, dataReader, ready>>
      BY <1>6 DEF HandleDataAuth, Auth
    <2>2. setup # "done"
      <3>1. toServer["data"] \in Seq(Msg) /\ toServer["data"] # <<>>
            /\ toServer["data"][1] = Auth
        BY <2>1 DEF FrpsReads, TypeOK, Channel
      <3>2. 1 \in 1..Len(toServer["data"]) /\ toServer["data"][1].type = "auth"
        BY <3>1 DEF Auth
      <3> QED
        BY <3>2 DEF AuthInv
    <2> QED
      BY <2>1, <2>2 DEF SessInv
  <1>7. ASSUME NEW c \in Conns, HandleNewConn(c) PROVE SessInv'
    BY <1>1, <1>7 DEF HandleNewConn
  <1>8. ASSUME NEW c \in Conns, DialSucceeds(c) \/ DialFails(c) \/ ForwardLocalData(c)
        PROVE  SessInv'
    <2>1. UNCHANGED <<srvCtrl, cliCtrl, ctrlUp, setup, dataWriter, dataOpen, ready>>
      BY <1>8 DEF DialSucceeds, DialFails, ForwardLocalData
    <2>2. UNCHANGED <<dataUp, dataReader>>
            \/ (dataUp /\ ~dataOpen /\ ~dataUp' /\ ~dataReader')
      BY <1>8, FrpcSendSess DEF DialSucceeds, DialFails, ForwardLocalData
    <2> QED
      BY <1>1, <1>2, <2>1, <2>2
  <1>9. ASSUME NEW c \in Conns, NEW ch \in Channel, NEW k, FrpcHandleData(ch, c, k)
        PROVE  SessInv'
    BY <1>1, <1>9 DEF FrpcHandleData
  <1>10. ASSUME NEW c \in Conns, ForwardLocalEnd(c) PROVE SessInv'
    BY <1>1, <1>10 DEF ForwardLocalEnd
  <1>11. CASE DataChannelUp
    <2>1. /\ setup = "auth" /\ toClient["data"] # <<>>
          /\ setup' = "done" /\ dataUp' = TRUE /\ dataReader' = TRUE
          /\ UNCHANGED <<srvCtrl, cliCtrl, ctrlUp, dataWriter, dataOpen, ready>>
      BY <1>11 DEF DataChannelUp
    <2>2. dataOpen /\ dataWriter
      BY <2>1 DEF AuthInv
    <2> QED
      BY <2>1, <2>2 DEF SessInv
  <1>12. CASE DataChannelSetupFails
    <2>1. /\ setup = "auth" /\ ~dataOpen
          /\ setup' = "done" /\ dataUp' = TRUE
          /\ UNCHANGED <<srvCtrl, cliCtrl, ctrlUp, dataWriter, dataOpen, dataReader, ready>>
      BY <1>12 DEF DataChannelSetupFails
    <2>2. ~srvCtrl /\ \A c \in Conns : ~ready[c]
      BY <2>1 DEF AuthInv, DialledInv, Follows
    <2> QED
      BY <2>1, <2>2 DEF SessInv
  <1>13. CASE DataChannelEof
    BY <1>13 DEF DataChannelEof, SessInv
  <1>14. CASE DataConnEnds
    <2>1. /\ setup = "done" /\ ~dataUp /\ dataOpen' = FALSE /\ dataWriter' = FALSE
          /\ UNCHANGED <<srvCtrl, cliCtrl, ctrlUp, setup, dataUp, dataReader, ready>>
      BY <1>14 DEF DataConnEnds
    <2> QED
      BY <2>1 DEF SessInv
  <1>15. CASE ControlBreaks
    BY <1>15 DEF ControlBreaks, SessInv
  <1>16. CASE ControlConnEnds
    <2>1. /\ ~ctrlUp /\ srvCtrl' = FALSE
          /\ UNCHANGED <<cliCtrl, ctrlUp, setup, dataWriter, dataOpen, dataUp, dataReader,
                         ready>>
      BY <1>16 DEF ControlConnEnds
    <2> QED
      BY <2>1 DEF SessInv
  <1>17. CASE ServerMessagesEnd
    <2>1. /\ ~ctrlUp /\ setup = "done" /\ cliCtrl' = FALSE
          /\ dataUp' = FALSE /\ dataReader' = FALSE
          /\ UNCHANGED <<srvCtrl, ctrlUp, setup, dataWriter, dataOpen, ready>>
      BY <1>17 DEF ServerMessagesEnd
    <2> QED
      BY <2>1 DEF SessInv
  <1>18. CASE UNCHANGED vars
    BY <1>1, <1>18 DEF vars
  <1> QED
    BY <1>3, <1>4, <1>5, <1>6, <1>7, <1>8, <1>9, <1>10, <1>11, <1>12, <1>13, <1>14, <1>15,
       <1>16, <1>17, <1>18 DEF Next, FrpsCtrl, FrpsData, FrpcCtrl, FrpcData, FrpcConn, Channel

LEMMA SentStep ==
    ASSUME TypeOK, SentInv, [Next]_vars
    PROVE  SentInv'
  <1> USE DEF usersVars, frpsVars, sessVars, frpcVars, localVars, netVars
  \* A step that sends DATA for a ready connection at most.
  <1>1. ASSUME \A x \in Channel, d \in Conns : Holds(toClient'[x], "data", d) =>
                   Holds(toClient[x], "data", d) \/ ready[d],
               \A d \in Conns : task'[d] = "forwarding" => task[d] = "forwarding" \/ ready[d],
               \A d \in Conns : ready[d] => ready'[d]
        PROVE  SentInv'
    BY <1>1 DEF SentInv
  <1>2. ASSUME NEW m \in Msg, m.type # "data", NEW ch \in Channel, FrpsSend(ch, m)
        PROVE  \A x \in Channel, d \in Conns :
                   Holds(toClient'[x], "data", d) => Holds(toClient[x], "data", d)
    BY <1>2, FrpsSendHolds
  <1>3. ASSUME NEW c \in Conns, Announce(c) \/ RefuseConn(c), UNCHANGED ready PROVE SentInv'
    <2>1. \A d \in Conns : task'[d] = "forwarding" => task[d] = "forwarding"
      BY <1>3 DEF Announce, AnnounceFails, RefuseConn, TypeOK
    <2>2. NewConn(c) \in Msg /\ NewConn(c).type # "data"
      BY MsgType DEF NewConn
    <2>3. UNCHANGED toClient \/ FrpsSend("ctrl", NewConn(c))
      BY <1>3 DEF Announce, RefuseConn
    <2> QED
      BY <1>1, <1>2, <1>3, <2>1, <2>2, <2>3 DEF Channel
  <1>4. ASSUME NEW c \in Conns, NEW k \in Nat, ready[c], Forward(c, k), UNCHANGED ready
        PROVE  SentInv'
    <2>1. \A d \in Conns : task'[d] = "forwarding" => task[d] = "forwarding" \/ ready[d]
      BY <1>4 DEF Forward, TypeOK
    <2>2. Data(c, k) \in Msg /\ Data(c, k).conn = c /\ clientWriter[c] \in Channel \cup {"none"}
      BY MsgType, DataFields DEF TypeOK
    <2>3. ASSUME FrpsSend(clientWriter[c], Data(c, k)), NEW x \in Channel, NEW d \in Conns,
                 Holds(toClient'[x], "data", d)
          PROVE  Holds(toClient[x], "data", d) \/ ready[d]
      BY <1>4, <2>2, <2>3, FrpsSendHolds
    <2> QED
      BY <1>1, <1>4, <2>1, <2>3 DEF Forward
  <1>5. ASSUME NEW c \in Conns, HandleTcpProxyConn(c) \/ HandleHttpVhostConn(c) PROVE SentInv'
    <2>1. (Announce(c) \/ RefuseConn(c)) /\ UNCHANGED ready
      BY <1>5 DEF HandleTcpProxyConn, HandleHttpVhostConn
    <2> QED
      BY <1>3, <2>1
  <1>6. ASSUME NEW c \in Conns,
               FinishDrain(c) \/ ReadyTimeout(c) \/ ForwardProxyEnd(c) \/ IdleSweep(c)
        PROVE  SentInv'
    <2>1. UNCHANGED <<toClient, ready>>
          /\ \A d \in Conns : task'[d] = "forwarding" => task[d] = "forwarding"
      BY <1>6 DEF FinishDrain, AnnounceFails, ReadyTimeout, ForwardProxyEnd, IdleSweep, TypeOK
    <2> QED
      BY <1>1, <2>1
  <1>7. ASSUME NEW c \in Conns, StartForwarding(c) PROVE SentInv'
    <2>1. CASE c \in HttpConns
      <3>1. Forward(c, 1) /\ 1 \in Nat /\ ready[c] /\ UNCHANGED ready
        BY <1>7, <2>1 DEF StartForwarding
      <3> QED
        BY <1>4, <3>1
    <2>2. CASE c \notin HttpConns
      <3>1. UNCHANGED <<toClient, ready>> /\ ready[c]
            /\ \A d \in Conns : task'[d] = "forwarding" => task[d] = "forwarding" \/ ready[d]
        BY <1>7, <2>2 DEF StartForwarding, TypeOK
      <3> QED
        BY <1>1, <3>1
    <2> QED
      BY <2>1, <2>2
  <1>8. ASSUME NEW c \in Conns, ForwardProxyData(c) PROVE SentInv'
    <2>1. Forward(c, taken[c] + 1) /\ taken[c] + 1 \in Nat /\ ready[c] /\ UNCHANGED ready
      BY <1>8 DEF ForwardProxyData, SentInv, TypeOK
    <2> QED
      BY <1>4, <2>1
  <1>9. CASE FrpsCtrl \/ FrpsData
    <2>1. UNCHANGED task /\ \A d \in Conns : ready[d] => ready'[d]
      BY <1>9 DEF FrpsCtrl, FrpsData, HandleInitConn, HandleClose, HandleData, HandleDataAuth,
         TypeOK
    <2>2. UNCHANGED toClient \/ FrpsSend("data", AuthResp)
      BY <1>9 DEF FrpsCtrl, FrpsData, HandleInitConn, HandleClose, HandleData, HandleDataAuth,
         AuthResp
    <2>3. AuthResp \in Msg /\ AuthResp.type # "data"
      BY MsgType DEF AuthResp
    <2> QED
      BY <1>1, <1>2, <2>1, <2>2, <2>3 DEF Channel
  <1>10. ASSUME NEW c \in Conns, NEW ch \in Channel, NEW m, FrpcReads(ch, m),
                UNCHANGED <<task, ready>>
         PROVE  SentInv'
    BY <1>1, <1>10, FrpcReadsHolds
  <1>11. ASSUME NEW c \in Conns, HandleNewConn(c) PROVE SentInv'
    BY <1>10, <1>11 DEF HandleNewConn, Channel
  <1>12. ASSUME NEW c \in Conns, NEW ch \in Channel, NEW k, FrpcHandleData(ch, c, k)
         PROVE  SentInv'
    BY <1>10, <1>12 DEF FrpcHandleData
  <1>13. CASE DataChannelUp
    <2>1. UNCHANGED <<task, ready>> /\ \A x \in Channel : \A d :
              Holds(toClient'[x], "data", d) => Holds(toClient[x], "data", d)
      BY <1>13, HoldsTail DEF DataChannelUp, TypeOK, Channel
    <2> QED
      BY <1>1, <2>1
  <1>14. ASSUME UNCHANGED <<task, toClient, ready>> PROVE SentInv'
    BY <1>1, <1>14
  <1>15. CASE Users
    <2>1. UNCHANGED <<toClient, ready>>
          /\ \A d \in Conns : task'[d] = "forwarding" => task[d] = "forwarding"
      BY <1>15 DEF Users, UserConnect, UserWrite, UserLeave, LocalWrite, LocalLeave, TypeOK
    <2> QED
      BY <1>1, <2>1
  <1>16. ASSUME NEW c \in Conns, DialSucceeds(c) \/ DialFails(c) \/ FrpcConn(c) PROVE SentInv'
    BY <1>14, <1>16 DEF DialSucceeds, DialFails, FrpcConn, ForwardLocalData, ForwardLocalEnd
  <1>17. CASE DataChannelSetupFails \/ DataChannelEof \/ DataConnEnds \/ ControlBreaks
              \/ ControlConnEnds \/ UNCHANGED vars
    BY <1>14, <1>17 DEF DataChannelSetupFails, DataChannelEof, DataConnEnds, ControlBreaks,
       ControlConnEnds, vars
  <1>18. CASE ServerMessagesEnd
    <2>1. UNCHANGED <<task, ready>> /\ \A x \in Channel : toClient'[x] = <<>>
      BY <1>18 DEF ServerMessagesEnd
    <2> QED
      BY <1>1, <2>1, HoldsEmpty
  <1> QED
    BY <1>5, <1>6, <1>7, <1>8, <1>9, <1>11, <1>12, <1>13, <1>15, <1>16, <1>17, <1>18
       DEF Next, FrpsConn, FrpcCtrl, FrpcData, Channel

LEMMA LocalStep ==
    ASSUME TypeOK, LocalInv, [Next]_vars
    PROVE  LocalInv'
  <1> USE DEF usersVars, frpsVars, sessVars, frpcVars, localVars, netVars
  \* What belongs to a connection that is not dialled stays as it is.
  <1>1. ASSUME \A d \in Conns : local'[d] = "absent" =>
                   /\ local[d] = "absent"
                   /\ d \in cpool' => d \in cpool
                   /\ ctask'[d] = ctask[d] /\ localTaken'[d] = localTaken[d]
                   /\ localGot'[d] = localGot[d]
                   /\ \A x \in Channel : Holds(toServer'[x], "data", d) =>
                          Holds(toServer[x], "data", d)
        PROVE  LocalInv'
    BY <1>1 DEF LocalInv
  <1>2. ASSUME UNCHANGED <<local, cpool, ctask, localTaken, localGot>>,
               \A x \in Channel : \A d : Holds(toServer'[x], "data", d) =>
                   Holds(toServer[x], "data", d)
        PROVE  LocalInv'
    BY <1>1, <1>2
  <1>3. ASSUME UNCHANGED <<local, cpool, ctask, localTaken, localGot, toServer>>
        PROVE  LocalInv'
    BY <1>2, <1>3
  <1>4. ASSUME NEW m \in Msg, FrpcSend(m), m.type # "data"
        PROVE  \A x \in Channel : \A d : Holds(toServer'[x], "data", d) =>
                   Holds(toServer[x], "data", d)
    BY <1>4, FrpcSendHolds
  <1>5. \A c \in Conns : Close(c) \in Msg /\ Close(c).type # "data"
                         /\ InitConn(c) \in Msg /\ InitConn(c).type # "data"
    BY MsgType DEF Close, InitConn
  <1>6. CASE Users
    <2>1. UNCHANGED <<cpool, ctask, localTaken, localGot, toServer>>
      BY <1>6 DEF Users, UserConnect, UserWrite, UserLeave, LocalWrite, LocalLeave
    <2>2. \A d \in Conns : local'[d] = "absent" => local[d] = "absent"
      BY <1>6 DEF Users, UserConnect, UserWrite, UserLeave, LocalWrite, LocalLeave, TypeOK
    <2> QED
      BY <1>1, <2>1, <2>2
  <1>7. ASSUME NEW c \in Conns, FrpsConn(c) \/ IdleSweep(c) PROVE LocalInv'
    BY <1>3, <1>7 DEF FrpsConn, HandleTcpProxyConn, HandleHttpVhostConn, FinishDrain,
       StartForwarding, ReadyTimeout, ForwardProxyData, ForwardProxyEnd, IdleSweep
  <1>8. ASSUME NEW ch \in Channel, NEW m, FrpsReads(ch, m),
               UNCHANGED <<local, cpool, ctask, localTaken, localGot>>
        PROVE  LocalInv'
    BY <1>2, <1>8, FrpsReadsHolds
  <1>9. CASE FrpsCtrl \/ FrpsData
    <2>1. UNCHANGED <<local, cpool, ctask, localTaken, localGot>>
      BY <1>9 DEF FrpsCtrl, FrpsData, HandleInitConn, HandleClose, HandleData, HandleDataAuth
    <2>2. \E ch \in Channel : \E m : FrpsReads(ch, m)
      BY <1>9 DEF FrpsCtrl, FrpsData, HandleInitConn, HandleClose, HandleData, HandleDataAuth,
         Channel
    <2> QED
      BY <1>8, <2>1, <2>2
  <1>10. ASSUME NEW c \in Conns, HandleNewConn(c) PROVE LocalInv'
    BY <1>3, <1>10 DEF HandleNewConn
  <1>11. ASSUME NEW c \in Conns, DialSucceeds(c) PROVE LocalInv'
    <2>1. /\ cpool' = cpool \cup {c} /\ local' = [local EXCEPT ![c] = "open"]
          /\ UNCHANGED ctask \/ ctask' = [ctask EXCEPT ![c] = "reading"]
          /\ UNCHANGED <<localTaken, localGot>>
      BY <1>11 DEF DialSucceeds
    <2>2. \A x \in Channel : \A d : Holds(toServer'[x], "data", d) =>
              Holds(toServer[x], "data", d)
      <3>1. CASE FrpcSend(Close(c))
        BY <1>4, <1>5, <3>1
      <3>2. CASE UNCHANGED toServer
        BY <3>2
      <3>3. CASE toServer' = [toServer EXCEPT !["ctrl"] = Append(@, InitConn(c))]
        <4>1. \A x \in Channel : toServer[x] \in Seq(Msg)
                  /\ (toServer'[x] = toServer[x] \/ toServer'[x] = Append(toServer[x], InitConn(c)))
          BY <3>3 DEF TypeOK, Channel
        <4>2. ASSUME NEW x \in Channel, NEW d, Holds(Append(toServer[x], InitConn(c)), "data", d)
              PROVE  Holds(toServer[x], "data", d)
          BY <1>5, <4>1, <4>2, HoldsAppend
        <4> QED
          BY <4>1, <4>2
      <3> QED
        BY <1>11, <3>1, <3>2, <3>3 DEF DialSucceeds
    <2>3. \A d \in Conns : local'[d] = "absent" => local[d] = "absent" /\ d # c
      BY <2>1 DEF TypeOK
    <2>4. \A d \in Conns : d # c => ctask'[d] = ctask[d] /\ (d \in cpool' => d \in cpool)
      BY <2>1 DEF TypeOK
    <2> QED
      BY <1>1, <2>1, <2>2, <2>3, <2>4
  <1>12. ASSUME NEW c \in Conns, DialFails(c) PROVE LocalInv'
    BY <1>2, <1>4, <1>5, <1>12 DEF DialFails
  <1>13. ASSUME NEW ch \in Channel, NEW c \in Conns, NEW k, FrpcHandleData(ch, c, k)
         PROVE  LocalInv'
    <2>1. UNCHANGED <<local, ctask, localTaken, toServer>> /\ cpool' \subseteq cpool
      BY <1>13 DEF FrpcHandleData
    <2>2. \/ UNCHANGED localGot
          \/ local[c] = "open" /\ \A d \in Conns : d # c => localGot'[d] = localGot[d]
      BY <1>13 DEF FrpcHandleData, TypeOK
    <2> QED
      BY <1>1, <2>1, <2>2
  <1>14. ASSUME NEW c \in Conns, ForwardLocalData(c) PROVE LocalInv'
    <2>1. local[c] # "absent"
      BY <1>14 DEF ForwardLocalData, LocalInv
    <2>2. /\ UNCHANGED <<local, localGot>> /\ cpool' \subseteq cpool
          /\ \A d \in Conns : d # c => ctask'[d] = ctask[d] /\ localTaken'[d] = localTaken[d]
      BY <1>14 DEF ForwardLocalData, TypeOK
    <2>3. ASSUME NEW x \in Channel, NEW d \in Conns, d # c, Holds(toServer'[x], "data", d)
          PROVE  Holds(toServer[x], "data", d)
      <3>0. localTaken \in [Conns -> Nat]
        BY DEF TypeOK
      <3>1. localTaken[c] + 1 \in Nat
        BY <3>0
      <3>2. Data(c, localTaken[c] + 1) \in Msg /\ Data(c, localTaken[c] + 1).conn = c
        BY <3>1, MsgType, DataFields
      <3>3. UNCHANGED toServer \/ FrpcSend(Data(c, localTaken[c] + 1))
        BY <1>14 DEF ForwardLocalData
      <3> QED
        BY <2>3, <3>2, <3>3, FrpcSendHolds
    <2> QED
      BY <1>1, <2>1, <2>2, <2>3
  <1>15. ASSUME NEW c \in Conns, ForwardLocalEnd(c) PROVE LocalInv'
    <2>1. ctask[c] = "reading" /\ UNCHANGED <<local, localTaken, localGot, toServer>>
          /\ cpool' \subseteq cpool /\ \A d \in Conns : d # c => ctask'[d] = ctask[d]
      BY <1>15 DEF ForwardLocalEnd, TypeOK
    <2>2. local[c] # "absent"
      BY <2>1 DEF LocalInv
    <2> QED
      BY <1>1, <2>1, <2>2
  <1>16. CASE DataChannelUp \/ DataChannelSetupFails \/ DataChannelEof \/ ControlBreaks
              \/ ServerMessagesEnd \/ UNCHANGED vars
    BY <1>3, <1>16 DEF DataChannelUp, DataChannelSetupFails, DataChannelEof, ControlBreaks,
       ServerMessagesEnd, vars
  <1>17. CASE DataConnEnds \/ ControlConnEnds
    <2>1. UNCHANGED <<local, cpool, ctask, localTaken, localGot>>
          /\ \A x \in Channel : toServer'[x] = toServer[x] \/ toServer'[x] = <<>>
      BY <1>17 DEF DataConnEnds, ControlConnEnds, TypeOK
    <2> QED
      BY <1>2, <2>1, HoldsEmpty
  <1> QED
    BY <1>6, <1>7, <1>9, <1>10, <1>11, <1>12, <1>13, <1>14, <1>15, <1>16, <1>17
       DEF Next, FrpcCtrl, FrpcData, FrpcConn, Channel

LEMMA AuthStep ==
    ASSUME ~DataFails, TypeOK, SessInv, AuthInv, DialledInv, LocalInv, [Next]_vars
    PROVE  AuthInv'
  <1> USE DEF usersVars, frpsVars, sessVars, frpcVars, localVars, netVars
  <1> DEFINE q == toServer["data"]
  <1>0. q \in Seq(Msg) /\ setup \in {"auth", "done"} /\ None \notin Conns
    BY ConstantsAssumption DEF TypeOK, Channel
  <1>1. ASSUME UNCHANGED <<setup, dataOpen, dataWriter, dialing, local>>, q' = q,
               toClient'["data"] = toClient["data"], srvCtrl' => srvCtrl
        PROVE  AuthInv'
    BY <1>1 DEF AuthInv
  <1>2. ASSUME NEW m \in Msg, m.type # "auth", setup = "done", setup' = "done",
               q' = q \/ q' = <<>> \/ (q # <<>> /\ q' = Tail(q)) \/ q' = Append(q, m)
        PROVE  AuthInv'
    <2> SUFFICES ASSUME NEW i \in 1..Len(q') PROVE q'[i].type # "auth"
      BY <1>2 DEF AuthInv
    <2>1. \A j \in 1..Len(q) : q[j].type # "auth"
      BY <1>2 DEF AuthInv
    <2> HIDE DEF q
    <2>2. CASE q' = q \/ q' = <<>>
      BY <2>1, <2>2
    <2>3. CASE q # <<>> /\ q' = Tail(q)
      <3>1. q'[i] = q[i + 1] /\ i + 1 \in 1..Len(q)
        BY <1>0, <2>3
      <3> QED
        BY <2>1, <3>1
    <2>4. CASE q' = Append(q, m)
      <3>1. (i \in 1..Len(q) /\ q'[i] = q[i]) \/ q'[i] = m
        BY <1>0, <2>4
      <3> QED
        BY <1>2, <2>1, <3>1
    <2> QED
      BY <1>2, <2>2, <2>3, <2>4
  <1>3. ASSUME NEW m \in Msg, m.type # "auth", FrpcSend(m) PROVE q' = q \/ q' = Append(q, m)
    BY <1>3 DEF FrpcSend, TypeOK, Channel
  <1>4. ASSUME setup = "auth", NEW c \in Conns
        PROVE  ~ready[c] /\ task[c] # "forwarding" /\ ctask[c] # "reading" /\ dialing # c
    <2>1. local[c] = "absent" /\ dialing = None
      BY <1>4 DEF AuthInv
    <2> QED
      BY <1>0, <2>1 DEF DialledInv, Follows, LocalInv
  <1>5. \A c, k : Close(c).type # "auth" /\ Data(c, k).type # "auth"
            /\ InitConn(c).type # "auth"
    BY DEF Close, Data, InitConn
  <1>6. \A c \in Conns : Close(c) \in Msg
    BY MsgType
  <1> HIDE DEF q
  <1>7. CASE Users
    <2>1. UNCHANGED <<setup, dataOpen, dataWriter, dialing, srvCtrl, toClient>> /\ q' = q
      BY <1>7 DEF Users, UserConnect, UserWrite, UserLeave, LocalWrite, LocalLeave, q
    <2>2. UNCHANGED local \/ \E c \in Conns : local[c] = "open"
      BY <1>7 DEF Users, UserConnect, UserWrite, UserLeave, LocalWrite, LocalLeave
    <2>3. CASE UNCHANGED local
      BY <1>1, <2>1, <2>3
    <2>4. CASE \E c \in Conns : local[c] = "open"
      <3>1. PICK c \in Conns : local[c] = "open"
        BY <2>4
      <3>2. setup = "done"
        BY <1>0, <3>1 DEF AuthInv
      <3> QED
        BY <1>2, <1>5, <1>6, <2>1, <3>2
    <2> QED
      BY <2>2, <2>3, <2>4
  <1>8. ASSUME NEW c \in Conns, FrpsConn(c) \/ IdleSweep(c) PROVE AuthInv'
    <2>1. UNCHANGED <<setup, dataOpen, dataWriter, dialing, local, srvCtrl>> /\ q' = q
      BY <1>8 DEF FrpsConn, HandleTcpProxyConn, HandleHttpVhostConn, FinishDrain,
         StartForwarding, ReadyTimeout, ForwardProxyData, ForwardProxyEnd, IdleSweep, q
    <2>2. CASE setup = "done"
      BY <1>2, <1>5, <1>6, <2>1, <2>2
    <2>3. CASE setup = "auth"
      <3>1. ~StartForwarding(c) /\ ~ForwardProxyData(c)
        BY <1>4, <2>3 DEF StartForwarding, ForwardProxyData
      <3>2. toClient'["data"] = toClient["data"]
        BY <1>8, <3>1 DEF FrpsConn, HandleTcpProxyConn, HandleHttpVhostConn, FinishDrain,
           ReadyTimeout, ForwardProxyEnd, IdleSweep, Announce, RefuseConn, FrpsSend, TypeOK,
           Channel
      <3> QED
        BY <1>1, <2>1, <3>2
    <2> QED
      BY <1>0, <2>2, <2>3
  <1>9. ASSUME NEW m, FrpsReads("ctrl", m),
               UNCHANGED <<setup, dataOpen, dataWriter, dialing, local, srvCtrl, toClient>>
        PROVE  AuthInv'
    BY <1>1, <1>9 DEF FrpsReads, TypeOK, Channel, q
  <1>10. ASSUME NEW m, m.type # "auth", FrpsReads("data", m),
               UNCHANGED <<setup, dataOpen, dataWriter, dialing, local, srvCtrl, toClient>>
        PROVE  AuthInv'
    <2>1. q # <<>> /\ m = Head(q) /\ q' = Tail(q)
      BY <1>10 DEF FrpsReads, TypeOK, Channel, q
    <2>2. setup # "auth"
      <3>1. q # <<Auth>>
        BY <1>10, <2>1 DEF Auth
      <3> QED
        BY <2>1, <3>1 DEF AuthInv, q
    <2> QED
      BY <1>0, <1>2, <1>5, <1>6, <1>10, <2>1, <2>2
  <1>11. ASSUME NEW ch \in Channel, NEW c \in Conns, NEW k,
                HandleInitConn(c) \/ HandleClose(ch, c) \/ HandleData(ch, c, k)
         PROVE  AuthInv'
    BY <1>5, <1>9, <1>10, <1>11 DEF HandleInitConn, HandleClose, HandleData, Channel
  <1>12. CASE HandleDataAuth
    <2>1. /\ FrpsReads("data", Auth) /\ dataWriter' = srvCtrl /\ dataOpen' = srvCtrl
          /\ IF srvCtrl THEN FrpsSend("data", AuthResp) ELSE UNCHANGED toClient
          /\ UNCHANGED <<setup, dialing, local, srvCtrl>>
      BY <1>12 DEF HandleDataAuth, Auth, AuthResp
    <2>2. q # <<>> /\ Auth = Head(q) /\ q' = Tail(q)
      BY <2>1 DEF FrpsReads, TypeOK, Channel, q
    <2>3. setup = "auth"
      <3>1. 1 \in 1..Len(q) /\ q[1].type = "auth"
        BY <1>0, <2>2 DEF Auth, q
      <3> QED
        BY <1>0, <3>1 DEF AuthInv, q
    <2>4. q = <<Auth>> /\ toClient["data"] = <<>>
      BY <2>2, <2>3 DEF AuthInv, q
    <2>5. q' = <<>>
      BY <2>2, <2>4
    <2>6. toClient'["data"] = IF srvCtrl THEN <<AuthResp>> ELSE <<>>
      BY <2>1, <2>4 DEF FrpsSend, TypeOK, Channel
    <2> QED
      BY <2>1, <2>3, <2>5, <2>6 DEF AuthInv, q
  <1>13. ASSUME NEW ch \in Channel, NEW c \in Conns, NEW k,
                HandleNewConn(c) \/ FrpcHandleData(ch, c, k)
         PROVE  AuthInv'
    <2>1. setup = "done" /\ setup' = "done" /\ q' = q
      BY <1>13 DEF HandleNewConn, FrpcHandleData, FrpcReads, SessInv, Channel, q
    <2> QED
      BY <1>2, <1>5, <1>6, <1>13, <2>1
  <1>14. ASSUME NEW c \in Conns, DialSucceeds(c) \/ DialFails(c) PROVE AuthInv'
    <2>1. setup = "done" /\ setup' = "done"
      BY <1>0, <1>4, <1>14 DEF DialSucceeds, DialFails
    <2>2. FrpcSend(Close(c)) \/ q' = q
      BY <1>14 DEF DialSucceeds, DialFails, TypeOK, Channel, q
    <2> QED
      BY <1>2, <1>3, <1>5, <1>6, <2>1, <2>2
  <1>15. CASE DataChannelUp \/ DataChannelSetupFails
    <2>1. setup = "auth" /\ setup' = "done" /\ q' = q
      BY <1>15 DEF DataChannelUp, DataChannelSetupFails, q
    <2>2. toClient["data"] # <<>> \/ ~dataOpen
      BY <1>15 DEF DataChannelUp, DataChannelSetupFails
    <2>3. q = <<>>
      BY <2>1, <2>2 DEF AuthInv, q
    <2> QED
      BY <2>1, <2>3 DEF AuthInv, q
  <1>16. ASSUME NEW c \in Conns, ForwardLocalData(c) PROVE AuthInv'
    <2>1. setup = "done" /\ setup' = "done" /\ localTaken \in [Conns -> Nat]
      BY <1>0, <1>4, <1>16 DEF ForwardLocalData, TypeOK
    <2>2. localTaken[c] + 1 \in Nat
      BY <2>1
    <2>3. Data(c, localTaken[c] + 1) \in Msg
      BY <2>2, MsgType
    <2>4. FrpcSend(Data(c, localTaken[c] + 1)) \/ q' = q
      BY <1>16 DEF ForwardLocalData, q
    <2> QED
      BY <1>2, <1>3, <1>5, <2>1, <2>3, <2>4
  <1>17. CASE DataConnEnds \/ ServerMessagesEnd
    <2>1. setup = "done" /\ setup' = "done" /\ (q' = q \/ q' = <<>>)
      BY <1>17 DEF DataConnEnds, ServerMessagesEnd, TypeOK, Channel, q
    <2>2. PICK m \in Msg : m.type # "auth"
      <3>1. AuthResp \in Msg /\ AuthResp.type # "auth"
        BY MsgType DEF AuthResp
      <3> QED
        BY <3>1
    <2> QED
      BY <1>2, <2>1, <2>2
  <1>18. CASE ControlConnEnds
    BY <1>1, <1>18 DEF ControlConnEnds, TypeOK, Channel, q
  <1>19. CASE DataChannelEof \/ ControlBreaks \/ UNCHANGED vars \/ \E c \in Conns : ForwardLocalEnd(c)
    BY <1>1, <1>19 DEF DataChannelEof, ControlBreaks, vars, ForwardLocalEnd, q
  <1> QED
    BY <1>7, <1>8, <1>11, <1>12, <1>13, <1>14, <1>15, <1>16, <1>17, <1>18, <1>19
       DEF Next, FrpsCtrl, FrpsData, FrpcCtrl, FrpcData, FrpcConn, Channel

-----------------------------------------------------------------------------
(* What a step leaves of the stream of one connection.                       *)

\* r holds of c's stream what q does.
SameFor(q, r, c) ==
    \A n, m \in Nat : /\ Numbered(q, c, n, m) => Numbered(r, c, n, m)
                      /\ Reaches(q, c, n, m) => Reaches(r, c, n, m)

LEMMA SameForSame == \A q, c : SameFor(q, q, c)
  BY DEF SameFor

LEMMA SameForAppend ==
    ASSUME NEW q \in Seq(Msg), NEW m \in Msg, NEW c \in Conns, ~IsData(m, c)
    PROVE  SameFor(q, Append(q, m), c)
  BY NumberedOther DEF SameFor

LEMMA SameForTail ==
    ASSUME NEW q \in Seq(Msg), q # <<>>, NEW c \in Conns, ~IsData(Head(q), c)
    PROVE  SameFor(q, Tail(q), c)
  BY NumberedTail DEF SameFor

LEMMA NotData ==
    \A c, d, k : /\ ~IsData(NewConn(c), d) /\ ~IsData(InitConn(c), d) /\ ~IsData(Close(c), d)
                 /\ ~IsData(Auth, d) /\ ~IsData(AuthResp, d)
                 /\ IsData(Data(c, k), d) => c = d
  BY DEF IsData, NewConn, InitConn, Close, Auth, AuthResp, Data

\* Writes and reads of frps and frpc leave the streams of other connections alone.
LEMMA FrpsSendSame ==
    ASSUME TypeOK, NEW ch \in Channel \cup {"none"}, NEW m \in Msg, FrpsSend(ch, m),
           NEW c \in Conns, ~IsData(m, c)
    PROVE  \A x \in Channel : SameFor(toClient[x], toClient'[x], c)
  <1> SUFFICES ASSUME NEW x \in Channel PROVE SameFor(toClient[x], toClient'[x], c)
    OBVIOUS
  <1>1. toClient'[x] = toClient[x] \/ toClient'[x] = Append(toClient[x], m)
    BY DEF FrpsSend, TypeOK
  <1>2. toClient[x] \in Seq(Msg)
    BY DEF TypeOK
  <1> QED
    BY <1>1, <1>2, SameForSame, SameForAppend

LEMMA FrpcSendSame ==
    ASSUME TypeOK, NEW m \in Msg, FrpcSend(m), NEW c \in Conns, ~IsData(m, c)
    PROVE  \A x \in Channel : SameFor(toServer[x], toServer'[x], c)
  <1> SUFFICES ASSUME NEW x \in Channel PROVE SameFor(toServer[x], toServer'[x], c)
    OBVIOUS
  <1>1. toServer'[x] = toServer[x] \/ toServer'[x] = Append(toServer[x], m)
    BY DEF FrpcSend, TypeOK
  <1>2. toServer[x] \in Seq(Msg)
    BY DEF TypeOK
  <1> QED
    BY <1>1, <1>2, SameForSame, SameForAppend

LEMMA FrpcReadsSame ==
    ASSUME TypeOK, NEW ch \in Channel, NEW m, FrpcReads(ch, m), NEW c \in Conns,
           NEW x \in Channel, ~IsData(m, c) \/ x # ch
    PROVE  SameFor(toClient[x], toClient'[x], c)
  <1>1. CASE x # ch
    <2>1. toClient'[x] = toClient[x]
      BY <1>1 DEF FrpcReads, TypeOK
    <2> QED
      BY <2>1, SameForSame
  <1>2. CASE x = ch /\ ~IsData(m, c)
    <2>1. /\ toClient[x] \in Seq(Msg) /\ toClient[x] # <<>>
          /\ Head(toClient[x]) = m /\ toClient'[x] = Tail(toClient[x])
      BY <1>2 DEF FrpcReads, TypeOK
    <2> QED
      BY <1>2, <2>1, SameForTail
  <1> QED
    BY <1>1, <1>2

LEMMA FrpsReadsSame ==
    ASSUME TypeOK, NEW ch \in Channel, NEW m, FrpsReads(ch, m), NEW c \in Conns,
           NEW x \in Channel, ~IsData(m, c) \/ x # ch
    PROVE  SameFor(toServer[x], toServer'[x], c)
  <1>1. CASE x # ch
    <2>1. toServer'[x] = toServer[x]
      BY <1>1 DEF FrpsReads, TypeOK
    <2> QED
      BY <2>1, SameForSame
  <1>2. CASE x = ch /\ ~IsData(m, c)
    <2>1. /\ toServer[x] \in Seq(Msg) /\ toServer[x] # <<>>
          /\ Head(toServer[x]) = m /\ toServer'[x] = Tail(toServer[x])
      BY <1>2 DEF FrpsReads, TypeOK
    <2> QED
      BY <1>2, <2>1, SameForTail
  <1> QED
    BY <1>1, <1>2

-----------------------------------------------------------------------------
(* Upstream: from the user to the local service.                            *)

\* The connection on which frpc takes DATA.
Live == IF dataUp THEN "data" ELSE "ctrl"

\* frps writes to the connection on which frpc takes DATA.
WriterInv == \A c \in Conns : cliCtrl /\ ready[c] => clientWriter[c] = Live

\* What the HTTP handler has read before it announces the connection.
HeadInv ==
    \A c \in Conns :
        /\ task[c] \in {"none", "accepted"} => taken[c] = 0
        /\ task[c] \in {"draining", "waiting"} =>
               taken[c] = IF c \in HttpConns THEN 1 ELSE 0

\* A connection is dialled once.
FreshInv == \A c \in Conns : dialing = c => local[c] = "absent"

\* The chunks the forwarding task has disposed of.
Passed(c) == IF task[c] \in {"forwarding", "done"} THEN taken[c] ELSE 0

Upto(s) == \A i \in 1..Len(s) : s[i] = i

\* The local service got the first chunks; the next ones are in the channel that
\* frpc reads, and all of them as long as more can come.
UpOne(c) ==
    /\ Upto(localGot[c])
    /\ Len(localGot[c]) <= Passed(c) /\ taken[c] <= userSent[c]
    /\ cliCtrl /\ c \in cpool /\ local[c] = "open" =>
          /\ Numbered(toClient[Live], c, Len(localGot[c]), Passed(c))
          /\ task[c] = "forwarding" /\ (Live = "ctrl" => ctrlUp) =>
                 Reaches(toClient[Live], c, Len(localGot[c]), Passed(c))

UpInv == \A c \in Conns : UpOne(c)

LEMMA HeadStep ==
    ASSUME TypeOK, SocksInv, HeadInv, [Next]_vars
    PROVE  HeadInv'
  <1> USE DEF usersVars, frpsVars, sessVars, frpcVars, localVars, netVars
  <1>1. task \in [Conns -> {"none", "accepted", "draining", "failed", "waiting",
                           "forwarding", "done"}]
        /\ taken \in [Conns -> Nat]
    BY DEF TypeOK
  <1>2. UNCHANGED <<task, taken>> => HeadInv'
    BY DEF HeadInv
  <1>3. ASSUME NEW c \in Conns, UserConnect(c) PROVE HeadInv'
    <2>1. task[c] = "none"
      BY <1>3 DEF UserConnect, SocksInv
    <2> QED
      BY <1>1, <1>3, <2>1 DEF UserConnect, HeadInv
  <1>4. ASSUME NEW c \in Conns, HandleTcpProxyConn(c) PROVE HeadInv'
    BY <1>1, <1>4 DEF HandleTcpProxyConn, Announce, AnnounceFails, RefuseConn, HeadInv
  <1>5. ASSUME NEW c \in Conns, HandleHttpVhostConn(c) PROVE HeadInv'
    BY <1>1, <1>5 DEF HandleHttpVhostConn, Announce, AnnounceFails, RefuseConn, HeadInv
  <1>6. ASSUME NEW c \in Conns, FinishDrain(c) PROVE HeadInv'
    BY <1>1, <1>6 DEF FinishDrain, AnnounceFails, HeadInv
  <1>7. ASSUME NEW c \in Conns, StartForwarding(c) \/ ReadyTimeout(c) \/ ForwardProxyEnd(c)
        PROVE  HeadInv'
    <2>1. UNCHANGED taken
          /\ (task' = [task EXCEPT ![c] = "forwarding"] \/ task' = [task EXCEPT ![c] = "done"])
      BY <1>7 DEF StartForwarding, Forward, ReadyTimeout, ForwardProxyEnd
    <2> QED
      BY <1>1, <2>1 DEF HeadInv
  <1>8. ASSUME NEW c \in Conns, ForwardProxyData(c) PROVE HeadInv'
    <2>1. taken' = [taken EXCEPT ![c] = @ + 1]
          /\ (task' = [task EXCEPT ![c] = "forwarding"] \/ task' = [task EXCEPT ![c] = "done"])
      BY <1>8 DEF ForwardProxyData, Forward
    <2> QED
      BY <1>1, <2>1 DEF HeadInv
  <1>9. CASE UNCHANGED <<task, taken>>
    BY <1>2, <1>9
  <1>10. Next => \/ UNCHANGED <<task, taken>>
                 \/ \E c \in Conns : UserConnect(c) \/ FrpsConn(c)
    BY DEF Next, Users, UserWrite, UserLeave, LocalWrite, LocalLeave, IdleSweep, FrpsCtrl,
       FrpsData, HandleInitConn, HandleClose, HandleData, HandleDataAuth, FrpcCtrl, FrpcData,
       FrpcConn, HandleNewConn, DialSucceeds, DialFails, FrpcHandleData, DataChannelUp,
       DataChannelSetupFails, DataChannelEof, ForwardLocalData, ForwardLocalEnd, DataConnEnds,
       ControlBreaks, ControlConnEnds, ServerMessagesEnd
  <1>11. UNCHANGED vars => UNCHANGED <<task, taken>>
    BY DEF vars
  <1> QED
    BY <1>3, <1>4, <1>5, <1>6, <1>7, <1>8, <1>9, <1>10, <1>11 DEF FrpsConn

LEMMA FreshStep ==
    ASSUME TypeOK, OnceInv, FreshInv, [Next]_vars
    PROVE  FreshInv'
  <1> USE DEF usersVars, frpsVars, sessVars, frpcVars, localVars, netVars
  <1>1. None \notin Conns /\ local \in [Conns -> {"absent", "open", "left"}]
    BY ConstantsAssumption DEF TypeOK
  <1>2. ASSUME NEW c \in Conns, HandleNewConn(c) PROVE FreshInv'
    <2>1. Holds(Announced, "new", c)
      <3>1. NewConn(c).type = "new" /\ NewConn(c).conn = c
        BY DEF NewConn
      <3> QED
        BY <1>2, <3>1, FrpcReadsHolds DEF HandleNewConn, Announced, Channel
    <2>2. local[c] = "absent"
      BY <2>1 DEF OnceInv, Taken
    <2> QED
      BY <1>2, <2>2 DEF HandleNewConn, FreshInv
  <1>3. ASSUME NEW c \in Conns, DialSucceeds(c) \/ DialFails(c) PROVE FreshInv'
    BY <1>1, <1>3 DEF DialSucceeds, DialFails, FreshInv
  <1>4. ASSUME NEW c \in Conns, LocalLeave(c) PROVE FreshInv'
    BY <1>1, <1>4 DEF LocalLeave, FreshInv
  <1>5. Next => \/ UNCHANGED <<dialing, local>>
                \/ \E c \in Conns : LocalLeave(c) \/ HandleNewConn(c) \/ DialSucceeds(c) \/ DialFails(c)
    BY DEF Next, Users, UserConnect, UserWrite, UserLeave, LocalWrite, IdleSweep, FrpsConn,
       HandleTcpProxyConn, HandleHttpVhostConn, FinishDrain, StartForwarding, ReadyTimeout,
       ForwardProxyData, ForwardProxyEnd, FrpsCtrl, FrpsData, HandleInitConn, HandleClose,
       HandleData, HandleDataAuth, FrpcCtrl, FrpcData, FrpcConn, FrpcHandleData, DataChannelUp,
       DataChannelSetupFails, DataChannelEof, ForwardLocalData, ForwardLocalEnd, DataConnEnds,
       ControlBreaks, ControlConnEnds, ServerMessagesEnd
  <1>6. UNCHANGED vars => UNCHANGED <<dialing, local>>
    BY DEF vars
  <1>7. UNCHANGED <<dialing, local>> => FreshInv'
    BY DEF FreshInv
  <1> QED
    BY <1>2, <1>3, <1>4, <1>5, <1>6, <1>7

LEMMA WriterStep ==
    ASSUME ~DataFails, TypeOK, SessInv, AuthInv, DialledInv, WriterInv, [Next]_vars
    PROVE  WriterInv'
  <1> USE DEF usersVars, frpsVars, sessVars, frpcVars, localVars, netVars
  <1>1. UNCHANGED <<cliCtrl, dataUp, ready, clientWriter>> => WriterInv'
    BY DEF WriterInv, Live
  <1>2. (\A c \in Conns : ~ready'[c]) => WriterInv'
    BY DEF WriterInv
  <1>3. setup = "auth" => \A c \in Conns : ~ready[c]
    BY DEF AuthInv, DialledInv, Follows
  <1>4. ASSUME NEW c \in Conns, HandleInitConn(c) PROVE WriterInv'
    <2>1. /\ srvCtrl /\ Holds(toServer["ctrl"], "init", c)
          /\ UNCHANGED <<cliCtrl, dataUp>>
          /\ \A d \in Conns : d # c => ready'[d] = ready[d] /\ clientWriter'[d] = clientWriter[d]
          /\ ready'[c] => \/ ready[c] /\ clientWriter'[c] = clientWriter[c]
                          \/ clientWriter'[c] = IF dataWriter THEN "data" ELSE "ctrl"
      <3>1. InitConn(c).type = "init" /\ InitConn(c).conn = c /\ "ctrl" \in Channel
        BY DEF InitConn, Channel
      <3>2. Holds(toServer["ctrl"], "init", c)
        BY <1>4, <3>1, FrpsReadsHolds DEF HandleInitConn
      <3> QED
        BY <1>4, <3>2 DEF HandleInitConn, FrpsReads, TypeOK
    <2>2. setup = "done"
      BY <2>1 DEF AuthInv, DialledInv, Follows, TypeOK
    <2>3. cliCtrl => (dataWriter <=> dataUp)
      BY <2>1, <2>2 DEF SessInv
    <2> QED
      BY <2>1, <2>3 DEF WriterInv, Live
  <1>5. ASSUME NEW ch \in Channel, NEW c \in Conns, NEW k, HandleData(ch, c, k) PROVE WriterInv'
    <2>1. UNCHANGED <<cliCtrl, dataUp, ready>>
          /\ \A d \in Conns : clientWriter[d] # "none" => clientWriter'[d] = clientWriter[d]
      BY <1>5 DEF HandleData, TypeOK
    <2> QED
      BY <2>1 DEF WriterInv, Live
  <1>6. ASSUME NEW c \in Conns, DialSucceeds(c) \/ DialFails(c) \/ ForwardLocalData(c)
        PROVE  WriterInv'
    <2>1. UNCHANGED <<cliCtrl, ready, clientWriter>>
      BY <1>6 DEF DialSucceeds, DialFails, ForwardLocalData
    <2>2. UNCHANGED dataUp \/ (dataUp /\ ~dataOpen)
      BY <1>6, FrpcSendSess DEF DialSucceeds, DialFails, ForwardLocalData
    <2> QED
      BY <1>1, <1>2, <2>1, <2>2 DEF SessInv
  <1>7. CASE DataChannelUp \/ DataChannelSetupFails
    BY <1>2, <1>3, <1>7 DEF DataChannelUp, DataChannelSetupFails
  <1>8. CASE DataChannelEof
    BY <1>8 DEF DataChannelEof, SessInv
  <1>9. CASE ServerMessagesEnd
    BY <1>9 DEF ServerMessagesEnd, WriterInv
  <1>10. Next => \/ UNCHANGED <<cliCtrl, dataUp, ready, clientWriter>>
                 \/ \E c \in Conns : HandleInitConn(c) \/ DialSucceeds(c) \/ DialFails(c)
                                     \/ ForwardLocalData(c)
                 \/ \E ch \in Channel, c \in Conns, k \in Chunk : HandleData(ch, c, k)
                 \/ DataChannelUp \/ DataChannelSetupFails \/ DataChannelEof \/ ServerMessagesEnd
    BY DEF Next, Users, UserConnect, UserWrite, UserLeave, LocalWrite, LocalLeave, IdleSweep,
       FrpsConn, HandleTcpProxyConn, HandleHttpVhostConn, FinishDrain, StartForwarding,
       ReadyTimeout, ForwardProxyData, ForwardProxyEnd, FrpsCtrl, FrpsData, HandleClose,
       HandleDataAuth, FrpcCtrl, FrpcData, FrpcConn, FrpcHandleData, HandleNewConn,
       ForwardLocalEnd, DataConnEnds, ControlBreaks, ControlConnEnds, Channel
  <1>11. UNCHANGED vars => UNCHANGED <<cliCtrl, dataUp, ready, clientWriter>>
    BY DEF vars
  <1> QED
    BY <1>1, <1>4, <1>5, <1>6, <1>7, <1>8, <1>9, <1>10, <1>11

LEMMA PassedType == ASSUME TypeOK, NEW c \in Conns PROVE Passed(c) \in Nat
  <1>1. taken \in [Conns -> Nat]
    BY DEF TypeOK
  <1> QED
    BY <1>1 DEF Passed

LEMMA LiveType == Live \in Channel
  BY DEF Live, Channel

LEMMA UpTypes ==
    ASSUME TypeOK, NEW c \in Conns
    PROVE  /\ Passed(c) \in Nat /\ Passed(c) + 1 \in Nat
           /\ localGot[c] \in Seq(Nat) /\ Len(localGot[c]) \in Nat
           /\ Live \in Channel /\ toClient[Live] \in Seq(Msg)
           /\ taken[c] \in Nat /\ userSent[c] \in Nat
  <1>1. /\ localGot \in [Conns -> Seq(Nat)] /\ toClient \in [Channel -> Seq(Msg)]
        /\ taken \in [Conns -> Nat] /\ userSent \in [Conns -> Nat]
    BY DEF TypeOK
  <1>2. Passed(c) \in Nat /\ Live \in Channel
    BY PassedType, LiveType
  <1>3. localGot[c] \in Seq(Nat) /\ toClient[Live] \in Seq(Msg)
    BY <1>1, <1>2
  <1>4. Len(localGot[c]) \in Nat
    BY <1>3
  <1> QED
    BY <1>1, <1>2, <1>3, <1>4

\* A step in which c's stream goes on as it was: what frpc takes may be added to
\* or shortened elsewhere, and the forwarding task may end.
LEMMA UpKept ==
    ASSUME TypeOK, TypeOK', NEW c \in Conns, UpOne(c),
           UNCHANGED <<dataUp, cliCtrl>>, ctrlUp' => ctrlUp,
           SameFor(toClient[Live], toClient'[Live], c),
           localGot'[c] = localGot[c], c \in cpool' => c \in cpool,
           local'[c] = "open" => local[c] = "open",
           taken'[c] <= userSent'[c], Passed(c) <= Passed(c)',
           task'[c] = "forwarding" =>
               Passed(c)' = 0 \/ (task[c] = "forwarding" /\ Passed(c)' = Passed(c))
    PROVE  UpOne(c)'
  <1> DEFINE n == Len(localGot[c])
             m == Passed(c)
             p == Passed(c)'
             q == toClient[Live]
             r == toClient'[Live]
  <1>1. m \in Nat /\ p \in Nat
    <2>1. taken' \in [Conns -> Nat]
      BY DEF TypeOK
    <2>2. p \in Nat
      BY <2>1 DEF Passed
    <2> QED
      BY <2>2, PassedType
  <1>2. n \in Nat /\ r \in Seq(Msg)
    BY LiveType DEF TypeOK
  <1>3. Live' = Live /\ toClient'[Live'] = r
    BY DEF Live
  <1>4. n <= p
    BY <1>1, <1>2 DEF UpOne
  <1>5. ASSUME cliCtrl', c \in cpool', local'[c] = "open"
        PROVE  /\ Numbered(r, c, n, p)
               /\ task'[c] = "forwarding" /\ (Live = "ctrl" => ctrlUp') => Reaches(r, c, n, p)
    <2>1. Numbered(q, c, n, m)
      BY <1>5 DEF UpOne
    <2>2. Numbered(r, c, n, m)
      BY <1>1, <1>2, <2>1 DEF SameFor
    <2>3. Numbered(r, c, n, p)
      BY <1>1, <1>2, <2>2, NumberedMore
    <2>4. ASSUME task'[c] = "forwarding", Live = "ctrl" => ctrlUp' PROVE Reaches(r, c, n, p)
      <3>1. CASE p = 0
        BY <1>1, <1>2, <3>1 DEF Reaches
      <3>2. CASE task[c] = "forwarding" /\ p = m
        <4>1. Reaches(q, c, n, m)
          BY <1>5, <2>4, <3>2 DEF UpOne
        <4> QED
          BY <1>1, <1>2, <3>2, <4>1 DEF SameFor
      <3> QED
        BY <2>4, <3>1, <3>2
    <2> QED
      BY <2>3, <2>4
  <1>6. localGot'[c] = localGot[c]
    OBVIOUS
  <1> HIDE DEF n, m, p, q, r
  <1>7. Upto(localGot[c]) /\ Len(localGot'[c]) = n /\ taken'[c] <= userSent'[c]
    BY <1>6 DEF UpOne, n
  <1> QED
    BY <1>3, <1>4, <1>5, <1>6, <1>7 DEF UpOne, p

\* A connection that is not ready has no stream yet, wherever frpc would take it.
LEMMA UpQuiet ==
    ASSUME TypeOK, TypeOK', SentInv, NEW c \in Conns, UpOne(c), ~ready[c],
           UNCHANGED <<taken, userSent, localGot, task>>,
           \A x \in Channel : Holds(toClient'[x], "data", c) => Holds(toClient[x], "data", c)
    PROVE  UpOne(c)'
  <1>1. task[c] # "forwarding" /\ \A x \in Channel : ~Holds(toClient'[x], "data", c)
    BY DEF SentInv
  <1>2. Passed(c)' = Passed(c) /\ Passed(c) \in Nat
    BY PassedType DEF Passed
  <1>3. Live' \in Channel /\ toClient'[Live'] \in Seq(Msg) /\ Len(localGot[c]) \in Nat
    BY DEF Live, Channel, TypeOK
  <1>4. Numbered(toClient'[Live'], c, Len(localGot[c]), Passed(c))
    BY <1>1, <1>2, <1>3, NumberedNone DEF UpOne
  <1> QED
    BY <1>1, <1>2, <1>4 DEF UpOne

\* The forwarding task takes the next chunk of the user and writes it, or fails.
LEMMA UpForward ==
    ASSUME TypeOK, TypeOK', WriterInv, UpInv, NEW c \in Conns, ready[c], Forward(c, Passed(c) + 1),
           task[c] \in {"waiting", "forwarding"},
           taken'[c] = Passed(c) + 1, taken'[c] <= userSent[c],
           \A d \in Conns : d # c => taken'[d] = taken[d],
           UNCHANGED <<userSent, localGot, cpool, local, dataUp, cliCtrl, ctrlUp>>
    PROVE  UpInv'
  <1> DEFINE m == Passed(c)
             n == Len(localGot[c])
             q == toClient[Live]
             r == toClient'[Live]
  <1>1. /\ m \in Nat /\ m + 1 \in Nat /\ n \in Nat /\ q \in Seq(Msg) /\ Live \in Channel
    BY UpTypes
  <1>0. /\ Data(c, m + 1) \in Msg /\ clientWriter[c] \in Channel \cup {"none"}
        /\ task \in [Conns -> {"none", "accepted", "draining", "failed", "waiting",
                           "forwarding", "done"}]
    <2>1. Data(c, m + 1) \in Msg
      BY <1>1, MsgType
    <2> QED
      BY <2>1 DEF TypeOK
  <1>2. Live' = Live
    BY DEF Live
  <1>3. task'[c] \in {"forwarding", "done"} /\ \A d \in Conns : d # c => task'[d] = task[d]
    BY <1>0 DEF Forward
  <1>4. Passed(c)' = m + 1 /\ \A d \in Conns : d # c => Passed(d)' = Passed(d)
    BY <1>3 DEF Passed
  <1>5. ASSUME NEW d \in Conns, d # c PROVE UpOne(d)'
    <2>1. SameFor(toClient[Live], toClient'[Live], d)
      <3>1. ~IsData(Data(c, m + 1), d)
        BY <1>5, NotData
      <3>2. UNCHANGED toClient \/ FrpsSend(clientWriter[c], Data(c, m + 1))
        BY DEF Forward
      <3> QED
        BY <1>0, <1>1, <3>1, <3>2, FrpsSendSame, SameForSame
    <2>2. UpOne(d)
      BY DEF UpInv
    <2>3. taken'[d] <= userSent'[d] /\ Passed(d) <= Passed(d)' /\ task'[d] = task[d]
      BY <1>3, <1>4, <1>5, <2>2, PassedType DEF UpOne
    <2> QED
      BY <1>4, <1>5, <2>1, <2>2, <2>3, UpKept
  <1>6. UpOne(c)'
    <2>1. UpOne(c)
      BY DEF UpInv
    <2>2. n <= m + 1
      BY <1>1, <2>1 DEF UpOne
    <2>3. ASSUME cliCtrl, c \in cpool, local[c] = "open"
          PROVE  /\ Numbered(r, c, n, m + 1)
                 /\ task'[c] = "forwarding" /\ (Live = "ctrl" => ctrlUp) => Reaches(r, c, n, m + 1)
      <3>1. Numbered(q, c, n, m)
        BY <2>1, <2>3 DEF UpOne
      <3>2. clientWriter[c] = Live
        BY <2>3 DEF WriterInv
      <3>3. CASE r = q /\ (task'[c] = "done" \/ (Live = "ctrl" /\ ~ctrlUp))
        BY <1>1, <3>1, <3>3, NumberedMore
      <3>4. CASE r = Append(q, Data(c, m + 1)) /\ (Live = "ctrl" => ctrlUp)
        <4>1. Reaches(q, c, n, m)
          <5>1. CASE task[c] = "forwarding"
            BY <2>1, <2>3, <3>4, <5>1 DEF UpOne
          <5>2. CASE task[c] = "waiting"
            <6>1. m = 0
              BY <5>2 DEF Passed
            <6> QED
              BY <1>1, <6>1 DEF Reaches
          <5> QED
            BY <5>1, <5>2
        <4> QED
          BY <1>1, <3>1, <3>4, <4>1, NumberedAppend
      <3>5. \/ r = q /\ (task'[c] = "done" \/ (Live = "ctrl" /\ ~ctrlUp))
            \/ r = Append(q, Data(c, m + 1)) /\ (Live = "ctrl" => ctrlUp)
        <4>1. CASE FrpsSend(clientWriter[c], Data(c, m + 1))
          <5>1. toClient \in [Channel -> Seq(Msg)]
            BY DEF TypeOK
          <5>2. CASE Live = "ctrl" /\ ~ctrlUp
            BY <3>2, <4>1, <5>2 DEF FrpsSend
          <5>3. CASE Live = "ctrl" => ctrlUp
            <6>1. toClient' = [toClient EXCEPT ![Live] = Append(@, Data(c, m + 1))]
              BY <3>2, <4>1, <5>3 DEF FrpsSend
            <6> QED
              BY <1>1, <5>1, <5>3, <6>1
          <5> QED
            BY <5>2, <5>3
        <4>2. CASE task' = [task EXCEPT ![c] = "done"] /\ UNCHANGED toClient
          BY <1>0, <4>2
        <4> QED
          BY <4>1, <4>2 DEF Forward
      <3> QED
        BY <3>3, <3>4, <3>5
    <2>4. Upto(localGot[c]) /\ localGot' = localGot
      BY <2>1 DEF UpOne
    <2>5. toClient'[Live'] = r
      BY <1>2
    <2> HIDE DEF n, m, q, r
    <2> QED
      BY <1>2, <1>4, <2>2, <2>3, <2>4, <2>5 DEF UpOne, n, m
  <1> QED
    BY <1>5, <1>6 DEF UpInv

\* frpc takes the next chunk for a service that is there.
LEMMA UpDeliver ==
    ASSUME TypeOK, TypeOK', NEW c \in Conns, UpOne(c), NEW k,
           cliCtrl, c \in cpool, local[c] = "open", FrpcReads(Live, Data(c, k)),
           localGot' = [localGot EXCEPT ![c] = Append(@, k)],
           UNCHANGED <<taken, userSent, task, dataUp, cliCtrl, ctrlUp>>
    PROVE  /\ UpOne(c)'
           /\ k = Len(localGot[c]) + 1 /\ k <= userSent[c]
  <1> DEFINE m == Passed(c)
             n == Len(localGot[c])
             q == toClient[Live]
  <1>1. /\ m \in Nat /\ n \in Nat /\ q \in Seq(Msg) /\ Live \in Channel
        /\ localGot[c] \in Seq(Nat) /\ taken[c] \in Nat /\ userSent[c] \in Nat
    BY UpTypes
  <1>2. q # <<>> /\ Head(q) = Data(c, k) /\ toClient'[Live] = Tail(q)
    BY <1>1 DEF FrpcReads, TypeOK
  <1>3. Numbered(q, c, n, m)
    BY DEF UpOne
  <1>4. /\ k = n + 1 /\ k <= m
        /\ Numbered(Tail(q), c, k, m)
        /\ Reaches(q, c, n, m) => Reaches(Tail(q), c, k, m)
    BY <1>1, <1>2, <1>3, NumberedHead
  <1>5. Live' = Live /\ Passed(c)' = m
    BY DEF Live, Passed
  <1>6. localGot'[c] = Append(localGot[c], k)
    BY DEF TypeOK
  <1>7. Len(localGot'[c]) = k /\ Upto(localGot'[c])
    BY <1>1, <1>4, <1>6 DEF Upto, UpOne
  <1>8. k <= userSent[c]
    <2>1. m <= taken[c] /\ taken[c] <= userSent[c]
      BY <1>1 DEF Passed, UpOne
    <2> QED
      BY <1>1, <1>4, <2>1
  <1>9. task[c] = "forwarding" /\ (Live = "ctrl" => ctrlUp) => Reaches(Tail(q), c, k, m)
    BY <1>4 DEF UpOne
  <1>10. toClient'[Live'] = Tail(q) /\ taken'[c] <= userSent'[c]
    BY <1>2, <1>5 DEF UpOne
  <1>11. UpOne(c)'
    <2> HIDE DEF m, n, q
    <2> QED
      BY <1>4, <1>5, <1>7, <1>9, <1>10 DEF UpOne
  <1> QED
    BY <1>4, <1>8, <1>11

\* The invariants that both directions rest on.
Base ==
    /\ TypeOK /\ SocksInv /\ DialledInv /\ OnceInv
    /\ SessInv /\ AuthInv /\ SentInv /\ LocalInv /\ HeadInv /\ FreshInv /\ WriterInv

\* A step that concerns no stream.
LEMMA UpIdle ==
    ASSUME TypeOK, TypeOK', UpInv,
           UNCHANGED <<toClient, dataUp, cliCtrl, localGot, task, taken, userSent>>,
           ctrlUp' => ctrlUp, cpool' \subseteq cpool,
           \A d \in Conns : local'[d] = "open" => local[d] = "open"
    PROVE  UpInv'
  <1> SUFFICES ASSUME NEW d \in Conns PROVE UpOne(d)'
    BY DEF UpInv
  <1>1. UpOne(d)
    BY DEF UpInv
  <1>2. Passed(d)' = Passed(d) /\ Passed(d) \in Nat /\ taken'[d] <= userSent'[d]
    BY <1>1, UpTypes DEF Passed, UpOne
  <1>3. SameFor(toClient[Live], toClient'[Live], d)
    BY SameForSame
  <1> QED
    BY <1>1, <1>2, <1>3, UpKept

\* A coroutine of frps goes on with one connection, and writes it no DATA.
LEMMA UpTask ==
    ASSUME TypeOK, TypeOK', UpInv, NEW c \in Conns,
           UNCHANGED <<dataUp, cliCtrl, ctrlUp, localGot, cpool, local, userSent>>,
           \A d \in Conns : SameFor(toClient[Live], toClient'[Live], d),
           \A d \in Conns : d # c => task'[d] = task[d] /\ taken'[d] = taken[d],
           taken'[c] <= userSent[c], Passed(c) <= Passed(c)',
           task'[c] = "forwarding" => Passed(c)' = 0
    PROVE  UpInv'
  <1> SUFFICES ASSUME NEW d \in Conns PROVE UpOne(d)'
    BY DEF UpInv
  <1>1. UpOne(d)
    BY DEF UpInv
  <1>2. CASE d = c
    BY <1>1, <1>2, UpKept
  <1>3. CASE d # c
    <2>1. Passed(d)' = Passed(d) /\ Passed(d) \in Nat /\ taken'[d] <= userSent'[d]
      BY <1>1, <1>3, UpTypes DEF Passed, UpOne
    <2> QED
      BY <1>1, <1>3, <2>1, UpKept
  <1> QED
    BY <1>2, <1>3

LEMMA UpFrpsConn ==
    ASSUME Base, TypeOK', UpInv, NEW c \in Conns, FrpsConn(c)
    PROVE  UpInv' /\ UNCHANGED <<userSent, localGot>>
  <1> USE DEF usersVars, frpsVars, sessVars, frpcVars, localVars, netVars
  <1>0. /\ TypeOK /\ SocksInv /\ SentInv /\ HeadInv /\ WriterInv
        /\ task \in [Conns -> {"none", "accepted", "draining", "failed", "waiting",
                           "forwarding", "done"}]
        /\ taken \in [Conns -> Nat] /\ userSent \in [Conns -> Nat] /\ UpOne(c)
    BY DEF Base, TypeOK, UpInv
  <1>1. UNCHANGED <<userSent, localGot, dataUp, cliCtrl, ctrlUp, cpool, local, ready>>
    BY DEF FrpsConn, HandleTcpProxyConn, HandleHttpVhostConn, FinishDrain, StartForwarding,
       ReadyTimeout, ForwardProxyData, ForwardProxyEnd
  <1>2. UNCHANGED toClient => \A d \in Conns : SameFor(toClient[Live], toClient'[Live], d)
    BY SameForSame
  <1>3. taken[c] <= userSent[c] /\ taken[c] \in Nat /\ userSent[c] \in Nat
    BY <1>0 DEF UpOne
  <1>4. ASSUME Announce(c) \/ RefuseConn(c), task[c] = "accepted",
               \A d \in Conns : d # c => taken'[d] = taken[d],
               taken'[c] <= userSent[c], taken'[c] \in Nat
        PROVE  UpInv'
    <2>1. \A d \in Conns : SameFor(toClient[Live], toClient'[Live], d)
      <3>1. NewConn(c) \in Msg /\ "ctrl" \in Channel \cup {"none"} /\ Live \in Channel
        BY MsgType, LiveType DEF Channel
      <3>2. UNCHANGED toClient \/ FrpsSend("ctrl", NewConn(c))
        BY <1>4 DEF Announce, RefuseConn
      <3>3. \A d \in Conns : ~IsData(NewConn(c), d)
        BY NotData
      <3> QED
        BY <1>0, <1>2, <3>1, <3>2, <3>3, FrpsSendSame
    <2>2. /\ task'[c] \in {"waiting", "draining", "failed", "done"}
          /\ \A d \in Conns : d # c => task'[d] = task[d]
      BY <1>0, <1>4 DEF Announce, AnnounceFails, RefuseConn
    <2>3. Passed(c) = 0 /\ Passed(c) <= Passed(c)'
      BY <1>4, <2>2 DEF Passed
    <2> QED
      BY <1>0, <1>1, <1>4, <2>1, <2>2, <2>3, UpTask
  <1>5. CASE HandleTcpProxyConn(c)
    <2>1. (Announce(c) \/ RefuseConn(c)) /\ task[c] = "accepted" /\ UNCHANGED taken
      BY <1>5 DEF HandleTcpProxyConn
    <2> QED
      BY <1>1, <1>3, <1>4, <2>1
  <1>6. CASE HandleHttpVhostConn(c)
    <2>1. /\ Announce(c) \/ RefuseConn(c)
          /\ task[c] = "accepted"
          /\ \/ userSent[c] > 0 /\ taken' = [taken EXCEPT ![c] = 1]
             \/ UNCHANGED taken
      BY <1>6 DEF HandleHttpVhostConn
    <2>2. /\ \A d \in Conns : d # c => taken'[d] = taken[d]
          /\ taken'[c] <= userSent[c] /\ taken'[c] \in Nat
      BY <1>0, <1>3, <2>1
    <2> QED
      BY <1>1, <1>4, <2>1, <2>2
  \* The task ends, or waits for INIT_CONN.
  <1>7. ASSUME UNCHANGED <<toClient, taken>>, NEW t \in {"waiting", "failed", "done"},
               task' = [task EXCEPT ![c] = t], t # "done" => task[c] = "draining"
        PROVE  UpInv'
    <2>1. task'[c] = t /\ \A d \in Conns : d # c => task'[d] = task[d] /\ taken'[d] = taken[d]
      BY <1>0, <1>7
    <2>2. Passed(c) <= Passed(c)'
      BY <1>3, <1>7, <2>1 DEF Passed
    <2> QED
      BY <1>0, <1>1, <1>2, <1>3, <1>7, <2>1, <2>2, UpTask
  <1>8. CASE FinishDrain(c) \/ ReadyTimeout(c) \/ ForwardProxyEnd(c)
    <2>1. /\ UNCHANGED <<toClient, taken>>
          /\ \/ /\ task[c] = "draining"
                /\ \E t \in {"waiting", "failed"} : task' = [task EXCEPT ![c] = t]
             \/ task' = [task EXCEPT ![c] = "done"]
      BY <1>8 DEF FinishDrain, AnnounceFails, ReadyTimeout, ForwardProxyEnd
    <2> QED
      BY <1>1, <1>7, <2>1
  <1>9. CASE StartForwarding(c)
    <2>1. task[c] = "waiting" /\ ready[c] /\ UNCHANGED taken
      BY <1>9 DEF StartForwarding
    <2>2. Passed(c) = 0
      BY <2>1 DEF Passed
    <2>3. CASE c \in HttpConns
      <3>1. Forward(c, 1) /\ taken[c] = 1
        BY <1>0, <1>9, <2>1, <2>3 DEF StartForwarding, HeadInv
      <3>2. Forward(c, Passed(c) + 1) /\ taken'[c] = Passed(c) + 1
        BY <2>1, <2>2, <3>1
      <3> QED
        BY <1>0, <1>1, <1>3, <2>1, <3>2, UpForward
    <2>4. CASE c \notin HttpConns
      <3>1. task' = [task EXCEPT ![c] = "forwarding"] /\ UNCHANGED toClient /\ taken[c] = 0
        BY <1>0, <1>9, <2>1, <2>4 DEF StartForwarding, HeadInv
      <3>2. task'[c] = "forwarding" /\ \A d \in Conns : d # c => task'[d] = task[d]
        BY <1>0, <3>1
      <3>3. Passed(c)' = 0
        BY <2>1, <3>1, <3>2 DEF Passed
      <3> QED
        BY <1>0, <1>1, <1>2, <1>3, <2>1, <2>2, <3>1, <3>2, <3>3, UpTask
    <2> QED
      BY <1>1, <2>3, <2>4
  <1>10. CASE ForwardProxyData(c)
    <2>1. /\ task[c] = "forwarding" /\ taken[c] < userSent[c] /\ Forward(c, taken[c] + 1)
          /\ taken' = [taken EXCEPT ![c] = @ + 1]
      BY <1>10 DEF ForwardProxyData
    <2>2. Passed(c) = taken[c] /\ ready[c]
      BY <1>0, <2>1 DEF Passed, SentInv
    <2>3. taken'[c] = Passed(c) + 1 /\ \A d \in Conns : d # c => taken'[d] = taken[d]
      BY <1>0, <2>1, <2>2
    <2>4. taken'[c] <= userSent[c]
      BY <1>3, <2>1, <2>2, <2>3
    <2> QED
      BY <1>0, <1>1, <2>1, <2>2, <2>3, <2>4, UpForward
  <1> QED
    BY <1>1, <1>5, <1>6, <1>8, <1>9, <1>10 DEF FrpsConn

LEMMA UpFrpc ==
    ASSUME Base, TypeOK', UpInv, FrpcCtrl \/ FrpcData \/ \E c \in Conns : FrpcConn(c)
    PROVE  /\ UpInv' /\ UNCHANGED userSent
           /\ \/ UNCHANGED localGot
              \/ \E c \in Conns : /\ Len(localGot[c]) + 1 <= userSent[c]
                                  /\ localGot' = [localGot EXCEPT ![c] = Append(@, Len(@) + 1)]
  <1> USE DEF usersVars, frpsVars, sessVars, frpcVars, localVars, netVars
  <1>0. /\ TypeOK /\ SentInv /\ SessInv /\ AuthInv /\ DialledInv /\ LocalInv /\ FreshInv
        /\ Live \in Channel
    BY LiveType DEF Base
  <1>1. UNCHANGED userSent
    BY DEF FrpcCtrl, FrpcData, FrpcConn, HandleNewConn, DialSucceeds, DialFails, FrpcHandleData,
       DataChannelUp, DataChannelSetupFails, DataChannelEof, ForwardLocalData, ForwardLocalEnd
  \* No connection is ready: it does not matter which channel frpc takes DATA from.
  <1>2. ASSUME \A d \in Conns : ~ready[d], UNCHANGED <<taken, userSent, localGot, task>>,
               \A x \in Channel, d \in Conns :
                   Holds(toClient'[x], "data", d) => Holds(toClient[x], "data", d)
        PROVE  UpInv'
    BY <1>0, <1>2, UpQuiet DEF UpInv
  <1>3. ASSUME NEW c \in Conns, HandleNewConn(c) PROVE UpInv' /\ UNCHANGED localGot
    <2>1. /\ FrpcReads("ctrl", NewConn(c)) /\ "ctrl" \in Channel
          /\ UNCHANGED <<dataUp, cliCtrl, ctrlUp, cpool, local, localGot, task, taken, userSent>>
      BY <1>3 DEF HandleNewConn, Channel
    <2>2. \A d \in Conns : SameFor(toClient[Live], toClient'[Live], d)
      BY <1>0, <2>1, FrpcReadsSame, NotData
    <2> SUFFICES ASSUME NEW d \in Conns PROVE UpOne(d)'
      BY <2>1 DEF UpInv
    <2>3. UpOne(d)
      BY DEF UpInv
    <2>4. Passed(d)' = Passed(d) /\ Passed(d) \in Nat /\ taken'[d] <= userSent'[d]
      BY <1>0, <2>1, <2>3, UpTypes DEF Passed, UpOne
    <2> QED
      BY <1>0, <2>1, <2>2, <2>3, <2>4, UpKept
  <1>4. ASSUME NEW c \in Conns, DialSucceeds(c) PROVE UpInv' /\ UNCHANGED localGot
    <2>1. /\ dialing = c /\ cpool' = cpool \cup {c} /\ local' = [local EXCEPT ![c] = "open"]
          /\ UNCHANGED <<toClient, cliCtrl, ctrlUp, localGot, task, taken, userSent>>
          /\ UNCHANGED dataUp \/ (dataUp /\ ~dataOpen)
      BY <1>4, FrpcSendSess DEF DialSucceeds
    <2>2. CASE dataUp /\ ~dataOpen
      BY <1>0, <1>2, <2>1, <2>2 DEF SessInv
    <2>3. CASE UNCHANGED dataUp
      <3> SUFFICES ASSUME NEW d \in Conns PROVE UpOne(d)'
        BY <2>1 DEF UpInv
      <3>1. UpOne(d)
        BY DEF UpInv
      <3>2. CASE d = c
        <4>1. ~ready[c]
          BY <1>0, <2>1 DEF FreshInv, DialledInv, Follows
        <4> QED
          BY <1>0, <2>1, <3>1, <3>2, <4>1, UpQuiet
      <3>3. CASE d # c
        <4>1. Passed(d)' = Passed(d) /\ Passed(d) \in Nat /\ taken'[d] <= userSent'[d]
          BY <1>0, <2>1, <3>1, UpTypes DEF Passed, UpOne
        <4>2. SameFor(toClient[Live], toClient'[Live], d)
          BY <2>1, SameForSame
        <4>3. local'[d] = local[d] /\ (d \in cpool' => d \in cpool)
          BY <1>0, <2>1, <3>3 DEF TypeOK
        <4> QED
          BY <1>0, <2>1, <2>3, <3>1, <4>1, <4>2, <4>3, UpKept
      <3> QED
        BY <3>2, <3>3
    <2> QED
      BY <2>1, <2>2, <2>3
  <1>5. ASSUME NEW c \in Conns, DialFails(c) \/ ForwardLocalData(c) \/ ForwardLocalEnd(c)
        PROVE  UpInv' /\ UNCHANGED localGot
    <2>1. /\ UNCHANGED <<toClient, cliCtrl, ctrlUp, local, localGot, task, taken, userSent>>
          /\ cpool' \subseteq cpool
          /\ UNCHANGED dataUp \/ (dataUp /\ ~dataOpen)
      BY <1>5, FrpcSendSess DEF DialFails, ForwardLocalData, ForwardLocalEnd
    <2>2. CASE dataUp /\ ~dataOpen
      BY <1>0, <1>2, <2>1, <2>2 DEF SessInv
    <2>3. CASE UNCHANGED dataUp
      BY <1>0, <2>1, <2>3, UpIdle
    <2> QED
      BY <2>1, <2>2, <2>3
  <1>6. ASSUME DataChannelUp \/ DataChannelSetupFails PROVE UpInv' /\ UNCHANGED localGot
    <2>1. setup = "auth" /\ UNCHANGED <<taken, userSent, localGot, task>>
      BY <1>6 DEF DataChannelUp, DataChannelSetupFails
    <2>2. \A d \in Conns : ~ready[d]
      BY <1>0, <2>1 DEF AuthInv, DialledInv, Follows
    <2>3. \A x \in Channel : \A d :
              Holds(toClient'[x], "data", d) => Holds(toClient[x], "data", d)
      <3>1. CASE DataChannelUp
        BY <1>0, <3>1, HoldsTail DEF DataChannelUp, TypeOK, Channel
      <3>2. CASE DataChannelSetupFails
        BY <3>2 DEF DataChannelSetupFails
      <3> QED
        BY <1>6, <3>1, <3>2
    <2> QED
      BY <1>2, <2>1, <2>2, <2>3
  <1>7. ~DataChannelEof
    BY <1>0 DEF DataChannelEof, SessInv
  <1>8. ASSUME NEW ch \in Channel, NEW c \in Conns, NEW k, FrpcHandleData(ch, c, k)
        PROVE  /\ UpInv'
               /\ \/ UNCHANGED localGot
                  \/ /\ Len(localGot[c]) + 1 <= userSent[c]
                     /\ localGot' = [localGot EXCEPT ![c] = Append(@, Len(@) + 1)]
    <2>1. /\ FrpcReads(ch, Data(c, k)) /\ cpool' \subseteq cpool
          /\ UNCHANGED <<dataUp, cliCtrl, ctrlUp, local, task, taken, userSent>>
      BY <1>8 DEF FrpcHandleData
    <2>2. ASSUME NEW d \in Conns, localGot'[d] = localGot[d],
                 SameFor(toClient[Live], toClient'[Live], d)
          PROVE  UpOne(d)'
      <3>1. UpOne(d)
        BY DEF UpInv
      <3>2. Passed(d)' = Passed(d) /\ Passed(d) \in Nat /\ taken'[d] <= userSent'[d]
        BY <1>0, <2>1, <3>1, UpTypes DEF Passed, UpOne
      <3> QED
        BY <1>0, <2>1, <2>2, <3>1, <3>2, UpKept
    <2>3. ASSUME NEW d \in Conns, d # c PROVE UpOne(d)'
      <3>1. localGot'[d] = localGot[d]
        BY <1>0, <1>8, <2>3 DEF FrpcHandleData, TypeOK
      <3>2. SameFor(toClient[Live], toClient'[Live], d)
        BY <1>0, <2>1, <2>3, FrpcReadsSame, NotData
      <3> QED
        BY <2>2, <2>3, <3>1, <3>2
    <2>4. cliCtrl /\ (ch = Live \/ (ch = "ctrl" /\ dataUp))
      BY <1>0, <2>1 DEF FrpcReads, SessInv, Live, Channel
    <2>5. UpOne(c)
      BY DEF UpInv
    <2>6. CASE ch # Live
      <3>1. UNCHANGED localGot
        BY <1>8, <2>4, <2>6 DEF FrpcHandleData, Live
      <3>2. SameFor(toClient[Live], toClient'[Live], c)
        BY <1>0, <2>1, <2>6, FrpcReadsSame
      <3>3. UpOne(c)'
        BY <2>2, <3>1, <3>2
      <3> QED
        BY <2>3, <3>1, <3>3 DEF UpInv
    <2>7. CASE ch = Live /\ c \in cpool /\ local[c] = "open" /\ localGot' # localGot
      <3>1. localGot' = [localGot EXCEPT ![c] = Append(@, k)]
        BY <1>8, <2>7 DEF FrpcHandleData
      <3>2. UpOne(c)' /\ k = Len(localGot[c]) + 1 /\ k <= userSent[c]
        BY <1>0, <2>1, <2>4, <2>5, <2>7, <3>1, UpDeliver
      <3> QED
        BY <2>3, <3>1, <3>2 DEF UpInv
    <2>8. CASE UNCHANGED localGot /\ ~(c \in cpool' /\ local'[c] = "open")
      <3>1. UpOne(c)'
        <4>1. Passed(c)' = Passed(c)
          BY <2>1 DEF Passed
        <4> QED
          BY <2>1, <2>5, <2>8, <4>1 DEF UpOne
      <3> QED
        BY <2>3, <2>8, <3>1 DEF UpInv
    <2>9. \/ ch # Live
          \/ ch = Live /\ c \in cpool /\ local[c] = "open" /\ localGot' # localGot
          \/ UNCHANGED localGot /\ ~(c \in cpool' /\ local'[c] = "open")
      <3>1. ASSUME ch = Live
            PROVE  \/ c \in cpool /\ local[c] = "open" /\ localGot' # localGot
                   \/ UNCHANGED localGot /\ ~(c \in cpool' /\ local'[c] = "open")
        <4>1. ~(ch = "ctrl" /\ dataUp)
          BY <3>1 DEF Live
        <4>2. localGot' = [localGot EXCEPT ![c] = Append(@, k)] => localGot' # localGot
          <5>1. localGot[c] \in Seq(Nat) /\ localGot \in [Conns -> Seq(Nat)]
            BY <1>0 DEF TypeOK
          <5>2. Append(localGot[c], k) # localGot[c]
            BY <5>1
          <5> QED
            BY <5>1, <5>2
        <4> QED
          BY <1>8, <2>1, <4>1, <4>2 DEF FrpcHandleData
      <3> QED
        BY <3>1
    <2> QED
      BY <2>6, <2>7, <2>8, <2>9
  <1> QED
    BY <1>1, <1>3, <1>4, <1>5, <1>6, <1>7, <1>8 DEF FrpcCtrl, FrpcData, FrpcConn, Channel

\* The messages frps takes, the idle sweep, users and services, and the ends of the
\* connections: no DATA is written to frpc, and none is handed on.
LEMMA UpFrps ==
    ASSUME Base, TypeOK', UpInv, FrpsCtrl \/ FrpsData \/ \E c \in Conns : IdleSweep(c)
    PROVE  UpInv' /\ UNCHANGED <<userSent, localGot>>
  <1> USE DEF usersVars, frpsVars, sessVars, frpcVars, localVars, netVars
  <1>0. TypeOK
    BY DEF Base
  <1>1. CASE HandleDataAuth
    <2>1. /\ UNCHANGED <<userSent, localGot, dataUp, cliCtrl, ctrlUp, cpool, local, task, taken>>
          /\ UNCHANGED toClient \/ FrpsSend("data", AuthResp)
      BY <1>1 DEF HandleDataAuth, AuthResp
    <2>2. \A d \in Conns : SameFor(toClient[Live], toClient'[Live], d)
      <3>1. AuthResp \in Msg /\ "data" \in Channel \cup {"none"} /\ Live \in Channel
        BY LiveType DEF AuthResp, Msg, Channel
      <3> QED
        BY <1>0, <2>1, <3>1, NotData, FrpsSendSame, SameForSame
    <2>3. UpInv'
      <3> SUFFICES ASSUME NEW d \in Conns PROVE UpOne(d)'
        BY DEF UpInv
      <3>1. UpOne(d)
        BY DEF UpInv
      <3>2. Passed(d)' = Passed(d) /\ Passed(d) \in Nat /\ taken'[d] <= userSent'[d]
        BY <1>0, <2>1, <3>1, UpTypes DEF Passed, UpOne
      <3> QED
        BY <1>0, <2>1, <2>2, <3>1, <3>2, UpKept
    <2> QED
      BY <2>1, <2>3
  <1>2. CASE ~HandleDataAuth
    <2>1. UNCHANGED <<toClient, dataUp, cliCtrl, ctrlUp, localGot, task, taken, userSent, cpool,
                      local>>
      BY <1>2 DEF FrpsCtrl, FrpsData, IdleSweep, HandleInitConn, HandleData, HandleClose
    <2> QED
      BY <1>0, <2>1, UpIdle
  <1> QED
    BY <1>1, <1>2

LEMMA UpEnds ==
    ASSUME Base, TypeOK', UpInv,
           DataConnEnds \/ ControlBreaks \/ ControlConnEnds \/ ServerMessagesEnd
           \/ UNCHANGED vars
    PROVE  UpInv' /\ UNCHANGED <<userSent, localGot>>
  <1> USE DEF usersVars, frpsVars, sessVars, frpcVars, localVars, netVars
  <1>0. TypeOK
    BY DEF Base
  <1>1. CASE DataConnEnds \/ ControlBreaks \/ ControlConnEnds \/ UNCHANGED vars
    <2>1. /\ UNCHANGED <<toClient, dataUp, cliCtrl, localGot, task, taken, userSent, cpool,
                         local>>
          /\ ctrlUp' => ctrlUp
      BY <1>1 DEF DataConnEnds, ControlBreaks, ControlConnEnds, vars
    <2> QED
      BY <1>0, <2>1, UpIdle
  <1>2. CASE ServerMessagesEnd
    <2>1. ~cliCtrl' /\ UNCHANGED <<localGot, task, taken, userSent>>
      BY <1>2 DEF ServerMessagesEnd
    <2>2. \A c \in Conns : Passed(c)' = Passed(c)
      BY <2>1 DEF Passed
    <2> QED
      BY <2>1, <2>2 DEF UpInv, UpOne
  <1> QED
    BY <1>1, <1>2

LEMMA UpUsers ==
    ASSUME Base, TypeOK', UpInv, Users
    PROVE  /\ UpInv' /\ UNCHANGED localGot
           /\ \/ UNCHANGED userSent
              \/ \E c \in Conns : userSent' = [userSent EXCEPT ![c] = @ + 1]
  <1> USE DEF usersVars, frpsVars, sessVars, frpcVars, localVars, netVars
  <1>0. /\ TypeOK /\ SocksInv /\ Live \in Channel
        /\ task \in [Conns -> {"none", "accepted", "draining", "failed", "waiting",
                           "forwarding", "done"}]
        /\ userSent \in [Conns -> Nat] /\ local \in [Conns -> {"absent", "open", "left"}]
    BY LiveType DEF Base, TypeOK
  <1>1. UNCHANGED <<toClient, dataUp, cliCtrl, ctrlUp, localGot, taken, cpool>>
    BY DEF Users, UserConnect, UserWrite, UserLeave, LocalWrite, LocalLeave
  <1>2. \A d \in Conns : SameFor(toClient[Live], toClient'[Live], d)
    BY <1>1, SameForSame
  <1>3. ASSUME NEW c \in Conns, UserConnect(c) PROVE UpInv' /\ UNCHANGED userSent
    <2>1. task[c] = "none" /\ task' = [task EXCEPT ![c] = "accepted"]
          /\ UNCHANGED <<userSent, local>>
      BY <1>3 DEF UserConnect, SocksInv, Base
    <2>2. /\ task'[c] = "accepted" /\ \A d \in Conns : d # c => task'[d] = task[d]
          /\ Passed(c) = 0 /\ Passed(c)' = 0
      BY <1>0, <2>1 DEF Passed
    <2>3. taken'[c] <= userSent[c]
      BY <1>1 DEF UpInv, UpOne
    <2> QED
      BY <1>0, <1>1, <1>2, <2>1, <2>2, <2>3, UpTask
  <1>4. ASSUME NEW c \in Conns, UserWrite(c)
        PROVE  UpInv' /\ userSent' = [userSent EXCEPT ![c] = @ + 1]
    <2>1. userSent' = [userSent EXCEPT ![c] = @ + 1] /\ UNCHANGED <<task, local>>
      BY <1>4 DEF UserWrite
    <2> SUFFICES ASSUME NEW d \in Conns PROVE UpOne(d)'
      BY <2>1 DEF UpInv
    <2>2. UpOne(d)
      BY DEF UpInv
    <2>3. Passed(d)' = Passed(d) /\ Passed(d) \in Nat
      BY <1>0, <1>1, <2>1, UpTypes DEF Passed
    <2>4. taken'[d] <= userSent'[d]
      <3>1. taken[d] <= userSent[d] /\ taken[d] \in Nat /\ userSent[d] \in Nat
        BY <1>0, <2>2, UpTypes DEF UpOne
      <3>2. userSent'[d] = userSent[d] \/ userSent'[d] = userSent[d] + 1
        BY <1>0, <2>1
      <3> QED
        BY <1>1, <3>1, <3>2
    <2> QED
      BY <1>0, <1>1, <1>2, <2>1, <2>2, <2>3, <2>4, UpKept
  <1>5. ASSUME NEW c \in Conns, UserLeave(c) \/ LocalWrite(c) \/ LocalLeave(c)
        PROVE  UpInv' /\ UNCHANGED userSent
    <2>1. UNCHANGED <<userSent, task>>
      BY <1>5 DEF UserLeave, LocalWrite, LocalLeave
    <2>2. UNCHANGED local \/ local' = [local EXCEPT ![c] = "left"]
      BY <1>5 DEF UserLeave, LocalWrite, LocalLeave
    <2>3. \A d \in Conns : local'[d] = "open" => local[d] = "open"
      BY <1>0, <2>2
    <2> QED
      BY <1>0, <1>1, <2>1, <2>3, UpIdle
  <1> QED
    BY <1>1, <1>3, <1>4, <1>5 DEF Users

-----------------------------------------------------------------------------

LEMMA BaseHolds ==
    ASSUME ~DataFails
    PROVE  Spec => []Base
  <1>1. Init => Base
    <2> SUFFICES ASSUME Init PROVE Base
      OBVIOUS
    <2>1. TypeOK /\ SocksInv /\ DialledInv
      BY InitType, SocksInit, DialledInit
    <2>2. OnceInv
      BY OnceInit
    <2>3. SessInv /\ AuthInv /\ SentInv /\ LocalInv
      BY BaseInit
    <2>4. HeadInv /\ FreshInv /\ WriterInv
      BY ConstantsAssumption DEF Init, HeadInv, FreshInv, WriterInv
    <2> QED
      BY <2>1, <2>2, <2>3, <2>4 DEF Base
  <1>2. Base /\ TypeOK' /\ [Next]_vars => Base'
    <2> SUFFICES ASSUME Base, TypeOK', [Next]_vars PROVE Base'
      OBVIOUS
    <2>1. /\ TypeOK /\ SocksInv /\ DialledInv /\ OnceInv /\ SessInv /\ AuthInv /\ SentInv
          /\ LocalInv /\ HeadInv /\ FreshInv /\ WriterInv
      BY DEF Base
    <2>2. SocksInv'
      BY <2>1, SocksStep
    <2>3. DialledInv'
      BY <2>1, DialledStep
    <2>4. OnceInv'
      BY <2>1, OnceStep
    <2>5. SessInv' /\ AuthInv'
      BY <2>1, SessStep, AuthStep
    <2>6. SentInv' /\ LocalInv'
      BY <2>1, SentStep, LocalStep
    <2>7. HeadInv' /\ FreshInv' /\ WriterInv'
      BY <2>1, HeadStep, FreshStep, WriterStep
    <2> QED
      BY <2>2, <2>3, <2>4, <2>5, <2>6, <2>7 DEF Base
  <1> QED
    BY <1>1, <1>2, TypeCorrect, PTL DEF Spec

LEMMA UpStep ==
    ASSUME Base, TypeOK', UpInv, [Next]_vars
    PROVE  /\ UpInv'
           /\ \/ UNCHANGED <<userSent, localGot>>
              \/ \E c \in Conns : /\ userSent' = [userSent EXCEPT ![c] = @ + 1]
                                  /\ UNCHANGED localGot
              \/ \E c \in Conns : /\ Len(localGot[c]) + 1 <= userSent[c]
                                  /\ localGot' = [localGot EXCEPT ![c] = Append(@, Len(@) + 1)]
                                  /\ UNCHANGED userSent
  BY UpUsers, UpFrpsConn, UpFrps, UpFrpc, UpEnds DEF Next

\* A reader that takes one more chunk reads as the byte stream does.
LEMMA ReadsOne ==
    ASSUME NEW s \in Seq(Nat), NEW k \in Nat, Len(s) + 1 <= k
    PROVE  /\ 1 \in 1..(k - Len(s))
           /\ Append(s, Len(s) + 1) = s \o [i \in 1..1 |-> Len(s) + i]
  <1>1. Len(s) \in Nat
    OBVIOUS
  <1>2. [i \in 1..1 |-> Len(s) + i] = <<Len(s) + 1>>
    BY <1>1
  <1>3. Append(s, Len(s) + 1) = s \o <<Len(s) + 1>>
    BY <1>1, AppendIsConcat
  <1> QED
    BY <1>1, <1>2, <1>3

\* From the user to the local service the tunnel is a byte stream: chunks arrive
\* in order, once, without a gap, on whichever connection they travel and however
\* the session and the connection end (forward_proxy_data, handle_data_messages),
\* as long as the data channel does not time out.
THEOREM UpstreamCorrect ==
    ASSUME ~DataFails
    PROVE  Spec => UpstreamIsPipe
  <1>1. Init => UpInv /\ Upstream!Init
    <2> SUFFICES ASSUME Init PROVE UpInv /\ Upstream!Init
      OBVIOUS
    <2>1. Upstream!Init
      BY DEF Init, Upstream!Init
    <2>2. ASSUME NEW c \in Conns PROVE UpOne(c)
      <3>1. localGot[c] = <<>> /\ taken[c] = 0 /\ userSent[c] = 0 /\ c \notin cpool
        BY DEF Init
      <3>2. Passed(c) = 0
        BY <3>1 DEF Passed
      <3> QED
        BY <3>1, <3>2 DEF UpOne, Upto
    <2> QED
      BY <2>1, <2>2 DEF UpInv
  <1>2. ASSUME Base, TypeOK', UpInv, [Next]_vars
        PROVE  UpInv' /\ [Upstream!Next]_(Upstream!vars)
    <2>1. ASSUME NEW c \in Conns, Len(localGot[c]) + 1 <= userSent[c],
                 localGot' = [localGot EXCEPT ![c] = Append(@, Len(@) + 1)],
                 UNCHANGED userSent
          PROVE  Upstream!Read(c)
      <3>1. localGot[c] \in Seq(Nat) /\ userSent[c] \in Nat
        BY <1>2, UpTypes DEF Base
      <3>2. /\ 1 \in 1..(userSent[c] - Len(localGot[c]))
            /\ localGot' = [localGot EXCEPT ![c] = @ \o [i \in 1..1 |-> Len(@) + i]]
        BY <2>1, <3>1, ReadsOne
      <3> QED
        BY <2>1, <3>2 DEF Upstream!Read
    <2>2. ASSUME NEW c \in Conns, userSent' = [userSent EXCEPT ![c] = @ + 1], UNCHANGED localGot
          PROVE  Upstream!Write(c)
      BY <2>2 DEF Upstream!Write
    <2>3. /\ UpInv'
          /\ \/ UNCHANGED <<userSent, localGot>>
             \/ \E c \in Conns : /\ userSent' = [userSent EXCEPT ![c] = @ + 1]
                                 /\ UNCHANGED localGot
             \/ \E c \in Conns : /\ Len(localGot[c]) + 1 <= userSent[c]
                                 /\ localGot' = [localGot EXCEPT ![c] = Append(@, Len(@) + 1)]
                                 /\ UNCHANGED userSent
      BY <1>2, UpStep
    <2> QED
      BY <2>1, <2>2, <2>3 DEF Upstream!Next, Upstream!vars
  <1> QED
    BY <1>1, <1>2, BaseHolds, TypeCorrect, PTL DEF Spec, UpstreamIsPipe, Upstream!Spec

-----------------------------------------------------------------------------
(* Downstream: from the local service to the user.                           *)

\* The connection on which frps takes DATA.
SrvLive == IF dataOpen THEN "data" ELSE "ctrl"

\* What frpc writes now is something frps will take.
Arrives == IF dataOpen THEN dataUp ELSE ~dataUp /\ ctrlUp

\* As long as there is a data channel, the control connection carries no DATA.
CtrlIdle == dataOpen => \A c \in Conns : ~Holds(toServer["ctrl"], "data", c)

\* NEW_CONN is drained at once: conn_pool has the connection before frpc answers.
AtOnce == \A c \in Conns : task[c] # "draining"

\* The user got the first chunks; the next ones are in the channel that frps reads,
\* and all of them as long as more can come.
DownOne(c) ==
    /\ Upto(userGot[c])
    /\ Len(userGot[c]) <= localTaken[c] /\ localTaken[c] <= localSent[c]
    /\ c \in pool /\ user[c] = "open" =>
          /\ Numbered(toServer[SrvLive], c, Len(userGot[c]), localTaken[c])
          /\ ctask[c] = "reading" /\ Arrives =>
                 Reaches(toServer[SrvLive], c, Len(userGot[c]), localTaken[c])

DownInv == CtrlIdle /\ AtOnce /\ \A c \in Conns : DownOne(c)

LEMMA SrvLiveType == SrvLive \in Channel
  BY DEF SrvLive, Channel

LEMMA DownTypes ==
    ASSUME TypeOK, NEW c \in Conns
    PROVE  /\ localTaken[c] \in Nat /\ localTaken[c] + 1 \in Nat /\ localSent[c] \in Nat
           /\ userGot[c] \in Seq(Nat) /\ Len(userGot[c]) \in Nat
           /\ SrvLive \in Channel /\ toServer[SrvLive] \in Seq(Msg)
  <1>1. /\ userGot \in [Conns -> Seq(Nat)] /\ toServer \in [Channel -> Seq(Msg)]
        /\ localTaken \in [Conns -> Nat] /\ localSent \in [Conns -> Nat]
    BY DEF TypeOK
  <1>2. SrvLive \in Channel
    BY SrvLiveType
  <1>3. userGot[c] \in Seq(Nat) /\ toServer[SrvLive] \in Seq(Msg)
    BY <1>1, <1>2
  <1>4. Len(userGot[c]) \in Nat
    BY <1>3
  <1> QED
    BY <1>1, <1>2, <1>3, <1>4

\* A step in which c's stream goes on as it was.
LEMMA DownKept ==
    ASSUME TypeOK, NEW c \in Conns, DownOne(c),
           SameFor(toServer[SrvLive], toServer'[SrvLive'], c),
           userGot'[c] = userGot[c], localTaken'[c] = localTaken[c],
           localTaken[c] <= localSent'[c],
           c \in pool' /\ user'[c] = "open" => c \in pool /\ user[c] = "open",
           ctask'[c] = "reading" /\ Arrives' =>
               (ctask[c] = "reading" /\ Arrives) \/ localTaken[c] = 0
    PROVE  DownOne(c)'
  <1> DEFINE n == Len(userGot[c])
             m == localTaken[c]
             q == toServer[SrvLive]
             r == toServer'[SrvLive']
  <1>1. n \in Nat /\ m \in Nat
    BY DownTypes
  <1>2. ASSUME c \in pool', user'[c] = "open"
        PROVE  /\ Numbered(r, c, n, m)
               /\ ctask'[c] = "reading" /\ Arrives' => Reaches(r, c, n, m)
    <2>1. Numbered(q, c, n, m) /\ (ctask[c] = "reading" /\ Arrives => Reaches(q, c, n, m))
      BY <1>2 DEF DownOne
    <2>2. Numbered(r, c, n, m) /\ (ctask[c] = "reading" /\ Arrives => Reaches(r, c, n, m))
      BY <1>1, <2>1 DEF SameFor
    <2>3. m = 0 => Reaches(r, c, n, m)
      BY <1>1 DEF Reaches
    <2> QED
      BY <2>2, <2>3
  <1>3. Upto(userGot[c]) /\ n <= m
    BY DEF DownOne
  <1> HIDE DEF q, r
  <1> QED
    BY <1>2, <1>3 DEF DownOne, r

\* A connection whose stream has nothing in flight, and gets nothing now.
LEMMA DownQuiet ==
    ASSUME TypeOK, TypeOK', NEW c \in Conns, DownOne(c),
           ~Holds(toServer'[SrvLive'], "data", c),
           userGot'[c] = userGot[c], localTaken'[c] = localTaken[c],
           localTaken[c] <= localSent'[c],
           ctask'[c] = "reading" /\ Arrives' => localTaken[c] = 0
    PROVE  DownOne(c)'
  <1> DEFINE n == Len(userGot[c])
             m == localTaken[c]
             r == toServer'[SrvLive']
  <1>1. n \in Nat /\ m \in Nat /\ n <= m /\ Upto(userGot[c])
    BY DownTypes DEF DownOne
  <1>2. SrvLive' \in Channel
    BY DEF SrvLive, Channel
  <1>3. r \in Seq(Msg)
    BY <1>2 DEF TypeOK
  <1>4. Numbered(r, c, n, m)
    BY <1>1, <1>3, NumberedNone
  <1>5. m = 0 => Reaches(r, c, n, m)
    BY <1>1 DEF Reaches
  <1> HIDE DEF r
  <1> QED
    BY <1>1, <1>4, <1>5 DEF DownOne, r

\* Before the dial there is nothing to carry.
LEMMA DownBefore ==
    ASSUME TypeOK, TypeOK', LocalInv, NEW c \in Conns, DownOne(c), local[c] = "absent",
           userGot'[c] = userGot[c], localTaken'[c] = localTaken[c],
           localTaken[c] <= localSent'[c],
           \A x \in Channel : Holds(toServer'[x], "data", c) => Holds(toServer[x], "data", c)
    PROVE  DownOne(c)'
  <1>1. localTaken[c] = 0 /\ \A x \in Channel : ~Holds(toServer[x], "data", c)
    BY DEF LocalInv
  <1>2. SrvLive' \in Channel
    BY DEF SrvLive, Channel
  <1> QED
    BY <1>1, <1>2, DownQuiet

\* frpc takes the next chunk of the local service and writes it, or fails.
LEMMA DownForward ==
    ASSUME Base, TypeOK', DownInv, NEW c \in Conns, ForwardLocalData(c)
    PROVE  DownInv' /\ UNCHANGED <<localSent, userGot>>
  <1> USE DEF usersVars, frpsVars, sessVars, frpcVars, localVars, netVars
  <1> DEFINE m == localTaken[c]
             n == Len(userGot[c])
             q == toServer[SrvLive]
             r == toServer'[SrvLive]
  <1>0. TypeOK /\ SessInv /\ AuthInv /\ LocalInv /\ CtrlIdle
    BY DEF Base, DownInv
  <1>1. /\ m \in Nat /\ m + 1 \in Nat /\ n \in Nat /\ q \in Seq(Msg) /\ SrvLive \in Channel
        /\ localSent[c] \in Nat
    BY <1>0, DownTypes
  <1>2. /\ ctask[c] = "reading" /\ m < localSent[c]
        /\ localTaken' = [localTaken EXCEPT ![c] = @ + 1]
        /\ UNCHANGED <<user, userGot, pool, task, dataOpen, localSent, ctrlUp>>
    BY DEF ForwardLocalData
  <1>3. SrvLive' = SrvLive
    BY <1>2 DEF SrvLive
  <1>4. localTaken'[c] = m + 1 /\ \A d \in Conns : d # c => localTaken'[d] = localTaken[d]
    BY <1>0, <1>2 DEF TypeOK
  <1>5. setup = "done"
    BY <1>0, <1>2 DEF AuthInv, LocalInv, TypeOK
  \* The data channel is used as long as frps serves it.
  <1>6. \/ /\ Arrives /\ toServer' = [toServer EXCEPT ![SrvLive] = Append(@, Data(c, m + 1))]
           /\ UNCHANGED <<ctask, dataUp>>
        \/ UNCHANGED toServer /\ (ctask'[c] # "reading" \/ ~Arrives')
           /\ \A d \in Conns : ctask'[d] = "reading" => ctask[d] = "reading"
    <2>1. CASE FrpcSend(Data(c, m + 1)) /\ UNCHANGED ctask
      <3>1. CASE dataUp /\ dataOpen
        BY <2>1, <3>1 DEF FrpcSend, SrvLive, Arrives
      <3>2. CASE dataUp /\ ~dataOpen
        <4>1. ~ctrlUp
          BY <1>0, <3>2 DEF SessInv
        <4>2. UNCHANGED toServer
          BY <2>1, <3>2 DEF FrpcSend
        <4>3. ~Arrives'
          BY <1>2, <3>2, <4>1 DEF Arrives
        <4> QED
          BY <2>1, <4>2, <4>3
      <3>3. CASE ~dataUp /\ ctrlUp
        <4>1. srvCtrl /\ ~dataOpen
          BY <1>0, <1>5, <3>3 DEF SessInv
        <4>2. toServer' = [toServer EXCEPT !["ctrl"] = Append(@, Data(c, m + 1))] /\ UNCHANGED dataUp
          BY <2>1, <3>3, <4>1 DEF FrpcSend
        <4> QED
          BY <2>1, <3>3, <4>1, <4>2 DEF SrvLive, Arrives
      <3>4. CASE ~dataUp /\ ~ctrlUp
        <4>1. UNCHANGED <<toServer, dataUp>>
          BY <2>1, <3>4 DEF FrpcSend
        <4>2. ~Arrives'
          BY <1>2, <3>4, <4>1 DEF Arrives
        <4> QED
          BY <2>1, <4>1, <4>2
      <3> QED
        BY <3>1, <3>2, <3>3, <3>4
    <2>2. CASE ctask' = [ctask EXCEPT ![c] = "done"] /\ UNCHANGED toServer
      <3>1. ctask \in [Conns -> {"none", "reading", "done"}]
        BY <1>0 DEF TypeOK
      <3> QED
        BY <2>2, <3>1
    <2> QED
      BY <2>1, <2>2 DEF ForwardLocalData
  <1>7. toServer \in [Channel -> Seq(Msg)] /\ Data(c, m + 1) \in Msg
    BY <1>0, <1>1, MsgType DEF TypeOK
  <1>8. CtrlIdle'
    <2>1. ASSUME dataOpen, NEW d \in Conns, Holds(toServer'["ctrl"], "data", d) PROVE FALSE
      <3>1. toServer'["ctrl"] = toServer["ctrl"]
        BY <1>6, <1>7, <2>1 DEF SrvLive, Channel
      <3> QED
        BY <1>0, <2>1, <3>1 DEF CtrlIdle
    <2> QED
      BY <1>2, <2>1 DEF CtrlIdle
  <1>9. \A d \in Conns : DownOne(d)
    BY DEF DownInv
  <1>10. ASSUME NEW d \in Conns, d # c PROVE DownOne(d)'
    <2>1. SameFor(toServer[SrvLive], toServer'[SrvLive'], d)
      <3>1. ~IsData(Data(c, m + 1), d)
        BY <1>10, NotData
      <3>2. r = q \/ r = Append(q, Data(c, m + 1))
        BY <1>1, <1>6, <1>7
      <3> HIDE DEF q, r
      <3>3. SameFor(q, r, d)
        BY <1>1, <1>7, <3>1, <3>2, SameForSame, SameForAppend
      <3> QED
        BY <1>3, <3>3 DEF q, r
    <2>2. localTaken[d] <= localSent'[d]
      BY <1>2, <1>9 DEF DownOne
    <2>3. ctask'[d] = "reading" /\ Arrives' => ctask[d] = "reading" /\ Arrives
      <3>1. ctask'[d] = "reading" => ctask[d] = "reading"
        BY <1>6
      <3>2. Arrives' => Arrives
        <4>1. UNCHANGED dataUp \/ (dataUp /\ ~dataOpen)
          BY <1>2, FrpcSendSess DEF ForwardLocalData
        <4>2. dataUp /\ ~dataOpen => ~ctrlUp
          BY <1>0 DEF SessInv
        <4> QED
          BY <1>2, <4>1, <4>2 DEF Arrives
      <3> QED
        BY <3>1, <3>2
    <2> QED
      BY <1>0, <1>2, <1>4, <1>9, <1>10, <2>1, <2>2, <2>3, DownKept
  <1>11. DownOne(c)'
    <2>1. DownOne(c)
      BY <1>9
    <2>2. ASSUME c \in pool, user[c] = "open"
          PROVE  /\ Numbered(r, c, n, m + 1)
                 /\ ctask'[c] = "reading" /\ Arrives' => Reaches(r, c, n, m + 1)
      <3>1. Numbered(q, c, n, m) /\ (Arrives => Reaches(q, c, n, m))
        BY <1>2, <2>1, <2>2 DEF DownOne
      <3>2. CASE Arrives /\ r = Append(q, Data(c, m + 1))
        BY <1>1, <3>1, <3>2, NumberedAppend
      <3>3. CASE r = q /\ ~(ctask'[c] = "reading" /\ Arrives')
        <4>1. m <= m + 1
          BY <1>1
        <4> HIDE DEF m, n, q, r
        <4> QED
          BY <1>1, <3>1, <3>3, <4>1, NumberedMore
      <3> QED
        BY <1>1, <1>6, <1>7, <3>2, <3>3
    <2>3. Upto(userGot[c]) /\ n <= m + 1 /\ m + 1 <= localSent[c]
      BY <1>1, <1>2, <2>1 DEF DownOne
    <2> HIDE DEF m, q, r
    <2> QED
      BY <1>2, <1>3, <1>4, <2>2, <2>3 DEF DownOne, r
  <1> QED
    BY <1>2, <1>8, <1>10, <1>11 DEF DownInv, AtOnce

\* frps takes the next chunk for a user that is there.
LEMMA DownDeliver ==
    ASSUME TypeOK, TypeOK', NEW c \in Conns, DownOne(c), NEW k,
           c \in pool, user[c] = "open", FrpsReads(SrvLive, Data(c, k)),
           userGot' = [userGot EXCEPT ![c] = Append(@, k)],
           UNCHANGED <<localTaken, localSent, ctask, dataOpen, dataUp, ctrlUp>>
    PROVE  DownOne(c)' /\ k = Len(userGot[c]) + 1 /\ k <= localSent[c]
  <1> DEFINE m == localTaken[c]
             n == Len(userGot[c])
             q == toServer[SrvLive]
  <1>1. /\ m \in Nat /\ n \in Nat /\ q \in Seq(Msg) /\ SrvLive \in Channel
        /\ userGot[c] \in Seq(Nat) /\ localSent[c] \in Nat
    BY DownTypes
  <1>2. q # <<>> /\ Head(q) = Data(c, k) /\ toServer'[SrvLive] = Tail(q)
    BY <1>1 DEF FrpsReads, TypeOK
  <1>3. Numbered(q, c, n, m) /\ m <= localSent[c]
    BY DEF DownOne
  <1>4. /\ k = n + 1 /\ k <= m
        /\ Numbered(Tail(q), c, k, m)
        /\ Reaches(q, c, n, m) => Reaches(Tail(q), c, k, m)
    BY <1>1, <1>2, <1>3, NumberedHead
  <1>5. SrvLive' = SrvLive /\ Arrives' = Arrives
    BY DEF SrvLive, Arrives
  <1>6. userGot'[c] = Append(userGot[c], k)
    BY DEF TypeOK
  <1>7. Len(userGot'[c]) = k /\ Upto(userGot'[c])
    BY <1>1, <1>4, <1>6 DEF Upto, DownOne
  <1>8. k <= localSent[c]
    BY <1>1, <1>3, <1>4
  <1>9. ctask[c] = "reading" /\ Arrives => Reaches(Tail(q), c, k, m)
    BY <1>4 DEF DownOne
  <1>10. DownOne(c)'
    <2>1. toServer'[SrvLive'] = Tail(q) /\ localTaken'[c] = m /\ localSent'[c] = localSent[c]
          /\ ctask'[c] = ctask[c]
      BY <1>2, <1>5
    <2> HIDE DEF m, n, q
    <2> QED
      BY <1>3, <1>4, <1>5, <1>7, <1>9, <2>1 DEF DownOne
  <1> QED
    BY <1>4, <1>8, <1>10

\* What the stream of one connection rests on.
Quietly(c) ==
    /\ userGot'[c] = userGot[c] /\ localTaken'[c] = localTaken[c]
    /\ localSent'[c] = localSent[c]
    /\ c \in pool' /\ user'[c] = "open" => c \in pool /\ user[c] = "open"
    /\ ctask'[c] = ctask[c]

LEMMA DownSame ==
    ASSUME TypeOK, NEW c \in Conns, DownOne(c), Quietly(c),
           UNCHANGED dataOpen, Arrives' => Arrives,
           SameFor(toServer[SrvLive], toServer'[SrvLive], c)
    PROVE  DownOne(c)'
  <1>1. SrvLive' = SrvLive
    BY DEF SrvLive
  <1>2. localTaken[c] <= localSent'[c]
    BY DEF DownOne, Quietly
  <1>3. SameFor(toServer[SrvLive], toServer'[SrvLive'], c)
    BY <1>1
  <1> QED
    BY <1>2, <1>3, DownKept DEF Quietly

LEMMA DownFrpsConn ==
    ASSUME Base, TypeOK', ~DrainPauses, DownInv, NEW c \in Conns, FrpsConn(c) \/ IdleSweep(c)
    PROVE  DownInv' /\ UNCHANGED <<localSent, userGot>>
  <1> USE DEF usersVars, frpsVars, sessVars, frpcVars, localVars, netVars
  <1>0. /\ TypeOK /\ LocalInv /\ OnceInv /\ CtrlIdle /\ AtOnce
        /\ task \in [Conns -> {"none", "accepted", "draining", "failed", "waiting",
                           "forwarding", "done"}]
    BY DEF Base, DownInv, TypeOK
  <1>1. UNCHANGED <<localSent, localTaken, userGot, user, toServer, dataOpen, dataUp, ctrlUp,
                    ctask, local>>
    BY DEF FrpsConn, HandleTcpProxyConn, HandleHttpVhostConn, FinishDrain, StartForwarding,
       ReadyTimeout, ForwardProxyData, ForwardProxyEnd, IdleSweep
  <1>2. CtrlIdle' /\ (Arrives' => Arrives)
    BY <1>0, <1>1 DEF CtrlIdle, Arrives
  <1>3. /\ pool' \subseteq pool \/ (pool' = pool \cup {c} /\ task[c] = "accepted")
        /\ UNCHANGED task
           \/ \E t \in {"failed", "waiting", "forwarding", "done"} : task' = [task EXCEPT ![c] = t]
    <2>1. task[c] # "draining"
      BY <1>0 DEF AtOnce
    <2>2. CASE HandleTcpProxyConn(c) \/ HandleHttpVhostConn(c)
      <3>1. task[c] = "accepted" /\ (Announce(c) \/ RefuseConn(c))
        BY <2>2 DEF HandleTcpProxyConn, HandleHttpVhostConn
      <3> QED
        BY <3>1 DEF Announce, AnnounceFails, RefuseConn
    <2>3. CASE StartForwarding(c)
      BY <2>3 DEF StartForwarding, Forward, CloseConn
    <2>4. CASE ForwardProxyData(c)
      BY <2>4 DEF ForwardProxyData, Forward, CloseConn
    <2>5. CASE ReadyTimeout(c) \/ ForwardProxyEnd(c) \/ IdleSweep(c)
      BY <2>5 DEF ReadyTimeout, ForwardProxyEnd, IdleSweep, CloseConn
    <2> QED
      BY <2>1, <2>2, <2>3, <2>4, <2>5 DEF FrpsConn, FinishDrain
  <1>4. AtOnce'
    BY <1>0, <1>3 DEF AtOnce
  <1>5. ASSUME NEW d \in Conns PROVE DownOne(d)'
    <2>1. DownOne(d)
      BY DEF DownInv
    <2>2. CASE d = c /\ task[c] = "accepted"
      <3>1. local[c] = "absent"
        BY <1>0, <2>2 DEF OnceInv, Taken
      <3>2. localTaken[c] <= localSent'[c]
        BY <1>1, <2>1, <2>2 DEF DownOne
      <3> QED
        BY <1>0, <1>1, <2>1, <2>2, <3>1, <3>2, DownBefore
    <2>3. CASE d # c \/ task[c] # "accepted"
      <3>1. Quietly(d)
        BY <1>1, <1>3, <2>3 DEF Quietly
      <3>2. SameFor(toServer[SrvLive], toServer'[SrvLive], d)
        BY <1>1, SameForSame
      <3> QED
        BY <1>0, <1>1, <1>2, <2>1, <3>1, <3>2, DownSame
    <2> QED
      BY <2>2, <2>3
  <1> QED
    BY <1>1, <1>2, <1>4, <1>5 DEF DownInv

LEMMA DownUsers ==
    ASSUME Base, TypeOK', DownInv, Users
    PROVE  /\ DownInv' /\ UNCHANGED userGot
           /\ \/ UNCHANGED localSent
              \/ \E c \in Conns : localSent' = [localSent EXCEPT ![c] = @ + 1]
  <1> USE DEF usersVars, frpsVars, sessVars, frpcVars, localVars, netVars
  <1>0. /\ TypeOK /\ SocksInv /\ CtrlIdle /\ AtOnce
        /\ task \in [Conns -> {"none", "accepted", "draining", "failed", "waiting",
                           "forwarding", "done"}]
        /\ user \in [Conns -> {"absent", "open", "left"}] /\ localSent \in [Conns -> Nat]
    BY DEF Base, DownInv, TypeOK
  <1>1. UNCHANGED <<localTaken, userGot, pool, toServer, dataOpen, dataUp, ctrlUp, ctask>>
    BY DEF Users, UserConnect, UserWrite, UserLeave, LocalWrite, LocalLeave
  <1>2. PICK c \in Conns :
            UserConnect(c) \/ UserWrite(c) \/ UserLeave(c) \/ LocalWrite(c) \/ LocalLeave(c)
    BY DEF Users
  <1>3. /\ UNCHANGED user \/ user' = [user EXCEPT ![c] = "left"]
           \/ (user' = [user EXCEPT ![c] = "open"] /\ user[c] = "absent")
        /\ UNCHANGED task \/ task' = [task EXCEPT ![c] = "accepted"]
        /\ UNCHANGED localSent \/ localSent' = [localSent EXCEPT ![c] = @ + 1]
    BY <1>2 DEF UserConnect, UserWrite, UserLeave, LocalWrite, LocalLeave
  <1>4. CtrlIdle' /\ (Arrives' => Arrives)
    BY <1>0, <1>1 DEF CtrlIdle, Arrives
  <1>5. AtOnce'
    BY <1>0, <1>3 DEF AtOnce
  <1>6. ASSUME NEW d \in Conns PROVE DownOne(d)'
    <2>1. DownOne(d)
      BY DEF DownInv
    <2>2. d \in pool' /\ user'[d] = "open" => d \in pool /\ user[d] = "open"
      <3>1. d \in pool => user[d] # "absent"
        BY <1>0 DEF SocksInv, PoolIsTended
      <3> QED
        BY <1>0, <1>1, <1>3, <3>1
    <2>3. localTaken[d] <= localSent'[d]
      <3>1. localTaken[d] <= localSent[d] /\ localTaken[d] \in Nat /\ localSent[d] \in Nat
        BY <1>0, <2>1, DownTypes DEF DownOne
      <3>2. localSent'[d] = localSent[d] \/ localSent'[d] = localSent[d] + 1
        BY <1>0, <1>3
      <3> QED
        BY <3>1, <3>2
    <2>4. SameFor(toServer[SrvLive], toServer'[SrvLive'], d)
      BY <1>1, SameForSame DEF SrvLive
    <2>5. ctask'[d] = "reading" /\ Arrives' => ctask[d] = "reading" /\ Arrives
      BY <1>1, <1>4
    <2> QED
      BY <1>0, <1>1, <2>1, <2>2, <2>3, <2>4, <2>5, DownKept
  <1> QED
    BY <1>1, <1>3, <1>4, <1>5, <1>6 DEF DownInv

\* What frps takes from frpc.
LEMMA DownFrps ==
    ASSUME Base, TypeOK', DownInv, FrpsCtrl \/ FrpsData
    PROVE  /\ DownInv' /\ UNCHANGED localSent
           /\ \/ UNCHANGED userGot
              \/ \E c \in Conns : /\ Len(userGot[c]) + 1 <= localSent[c]
                                  /\ userGot' = [userGot EXCEPT ![c] = Append(@, Len(@) + 1)]
  <1> USE DEF usersVars, frpsVars, sessVars, frpcVars, localVars, netVars
  <1>0. /\ TypeOK /\ AuthInv /\ LocalInv /\ CtrlIdle /\ AtOnce /\ SrvLive \in Channel
        /\ \A d \in Conns : DownOne(d)
    BY SrvLiveType DEF Base, DownInv
  <1>1. UNCHANGED <<user, localSent, localTaken, local, task, dataUp, ctrlUp, ctask>>
    BY DEF FrpsCtrl, FrpsData, HandleInitConn, HandleData, HandleClose, HandleDataAuth
  <1>2. AtOnce'
    BY <1>0, <1>1 DEF AtOnce
  \* A read that leaves the connections as they are, or closes one.
  <1>3. ASSUME NEW ch \in Channel, NEW m, FrpsReads(ch, m), UNCHANGED dataOpen
        PROVE  /\ CtrlIdle' /\ (Arrives' => Arrives)
               /\ \A d \in Conns : (~IsData(m, d) \/ SrvLive # ch) =>
                      SameFor(toServer[SrvLive], toServer'[SrvLive], d)
    <2>1. \A x \in Channel : \A t, d : Holds(toServer'[x], t, d) => Holds(toServer[x], t, d)
      BY <1>0, <1>3, FrpsReadsHolds
    <2>2. CtrlIdle'
      BY <1>0, <1>3, <2>1 DEF CtrlIdle, Channel
    <2>3. Arrives' => Arrives
      BY <1>1, <1>3 DEF Arrives
    <2>4. ASSUME NEW d \in Conns, ~IsData(m, d) \/ SrvLive # ch
          PROVE  SameFor(toServer[SrvLive], toServer'[SrvLive], d)
      BY <1>0, <1>3, <2>4, FrpsReadsSame
    <2> QED
      BY <2>2, <2>3, <2>4
  <1>4. ASSUME NEW ch \in Channel, NEW m, FrpsReads(ch, m), \A d \in Conns : ~IsData(m, d),
               UNCHANGED <<dataOpen, userGot>>, pool' \subseteq pool
        PROVE  DownInv'
    <2>1. CtrlIdle' /\ (Arrives' => Arrives)
      BY <1>3, <1>4
    <2>2. ASSUME NEW d \in Conns PROVE DownOne(d)'
      <3>1. Quietly(d)
        BY <1>1, <1>4 DEF Quietly
      <3>2. SameFor(toServer[SrvLive], toServer'[SrvLive], d)
        BY <1>3, <1>4
      <3> QED
        BY <1>0, <1>4, <2>1, <3>1, <3>2, DownSame
    <2> QED
      BY <1>2, <2>1, <2>2 DEF DownInv
  <1>5. ASSUME NEW c \in Conns, HandleInitConn(c) PROVE DownInv' /\ UNCHANGED userGot
    <2>1. FrpsReads("ctrl", InitConn(c)) /\ UNCHANGED <<dataOpen, userGot, pool>>
          /\ "ctrl" \in Channel
      BY <1>5 DEF HandleInitConn, Channel
    <2> QED
      BY <1>4, <2>1, NotData
  <1>6. ASSUME NEW ch \in Channel, NEW c \in Conns, HandleClose(ch, c)
        PROVE  DownInv' /\ UNCHANGED userGot
    <2>1. FrpsReads(ch, Close(c)) /\ UNCHANGED <<dataOpen, userGot>> /\ pool' \subseteq pool
      BY <1>6 DEF HandleClose, CloseConn
    <2> QED
      BY <1>4, <1>6, <2>1, NotData
  <1>7. CASE HandleDataAuth
    <2>1. FrpsReads("data", Auth) /\ UNCHANGED <<userGot, pool>> /\ (dataOpen' => dataOpen)
          /\ "data" \in Channel
      BY <1>7 DEF HandleDataAuth, Auth, FrpsReads, Channel
    <2>2. setup = "auth"
      <3>1. toServer["data"] \in Seq(Msg) /\ toServer["data"] # <<>>
            /\ toServer["data"][1] = Auth
        BY <1>0, <2>1 DEF FrpsReads, TypeOK
      <3>2. 1 \in 1..Len(toServer["data"]) /\ toServer["data"][1].type = "auth"
        BY <3>1 DEF Auth
      <3>3. setup \in {"auth", "done"}
        BY <1>0 DEF TypeOK
      <3> QED
        BY <1>0, <3>2, <3>3 DEF AuthInv
    <2>3. \A d \in Conns : local[d] = "absent"
      BY <1>0, <2>2 DEF AuthInv
    <2>4. \A x \in Channel : \A t, d : Holds(toServer'[x], t, d) => Holds(toServer[x], t, d)
      BY <1>0, <2>1, FrpsReadsHolds
    <2>5. ASSUME NEW d \in Conns PROVE DownOne(d)'
      <3>1. localTaken[d] <= localSent'[d]
        BY <1>0, <1>1 DEF DownOne
      <3> QED
        BY <1>0, <1>1, <2>1, <2>3, <2>4, <3>1, DownBefore
    <2>6. CtrlIdle'
      BY <1>0, <2>1, <2>4 DEF CtrlIdle, Channel
    <2> QED
      BY <1>1, <1>2, <2>1, <2>5, <2>6 DEF DownInv
  <1>8. ASSUME NEW ch \in Channel, NEW c \in Conns, NEW k \in Chunk, HandleData(ch, c, k)
        PROVE  /\ DownInv'
               /\ \/ UNCHANGED userGot
                  \/ /\ Len(userGot[c]) + 1 <= localSent[c]
                     /\ userGot' = [userGot EXCEPT ![c] = Append(@, Len(@) + 1)]
    <2>1. FrpsReads(ch, Data(c, k)) /\ UNCHANGED dataOpen /\ pool' \subseteq pool
      BY <1>8 DEF HandleData, CloseConn
    <2>2. CtrlIdle' /\ (Arrives' => Arrives)
      BY <1>3, <2>1
    <2>3. ch = SrvLive
      <3>1. Holds(toServer[ch], "data", c)
        BY <1>0, <2>1, FrpsReadsHolds DEF Data
      <3> QED
        BY <1>0, <2>1, <3>1 DEF FrpsReads, SrvLive, CtrlIdle, Channel
    <2>4. ASSUME NEW d \in Conns, d # c PROVE DownOne(d)'
      <3>1. userGot'[d] = userGot[d]
        BY <1>0, <1>8, <2>4 DEF HandleData, TypeOK
      <3>2. Quietly(d)
        BY <1>1, <2>1, <3>1 DEF Quietly
      <3>3. SameFor(toServer[SrvLive], toServer'[SrvLive], d)
        BY <1>3, <2>1, <2>4, NotData
      <3> QED
        BY <1>0, <2>1, <2>2, <3>2, <3>3, DownSame
    <2>5. CASE c \in pool /\ user[c] = "open" /\ userGot' = [userGot EXCEPT ![c] = Append(@, k)]
      <3>1. DownOne(c)' /\ k = Len(userGot[c]) + 1 /\ k <= localSent[c]
        BY <1>0, <1>1, <2>1, <2>3, <2>5, DownDeliver
      <3> QED
        BY <1>2, <2>2, <2>4, <2>5, <3>1 DEF DownInv
    <2>6. CASE UNCHANGED userGot /\ ~(c \in pool' /\ user'[c] = "open")
      <3>1. DownOne(c)'
        BY <1>0, <1>1, <2>6 DEF DownOne
      <3> QED
        BY <1>2, <2>2, <2>4, <2>6, <3>1 DEF DownInv
    <2>7. \/ c \in pool /\ user[c] = "open" /\ userGot' = [userGot EXCEPT ![c] = Append(@, k)]
          \/ UNCHANGED userGot /\ ~(c \in pool' /\ user'[c] = "open")
      BY <1>1, <1>8, <2>1 DEF HandleData
    <2> QED
      BY <2>5, <2>6, <2>7
  <1> QED
    BY <1>1, <1>5, <1>6, <1>7, <1>8 DEF FrpsCtrl, FrpsData, Channel

\* What frpc does, but for the chunks of the local service.
LEMMA DownFrpc ==
    ASSUME Base, TypeOK', DownInv, FrpcCtrl \/ FrpcData \/ \E c \in Conns : FrpcConn(c)
    PROVE  DownInv' /\ UNCHANGED <<localSent, userGot>>
  <1> USE DEF usersVars, frpsVars, sessVars, frpcVars, localVars, netVars
  <1>0. /\ TypeOK /\ SessInv /\ AuthInv /\ LocalInv /\ FreshInv /\ CtrlIdle /\ AtOnce
        /\ SrvLive \in Channel /\ ctask \in [Conns -> {"none", "reading", "done"}]
        /\ \A d \in Conns : DownOne(d)
    BY SrvLiveType DEF Base, DownInv, TypeOK
  \* Messages other than DATA may be written; frpc's view of the data channel may
  \* change when frps has left it.
  <1>1. ASSUME UNCHANGED <<user, userGot, pool, task, localSent, localTaken, dataOpen, ctrlUp>>,
               Arrives' => Arrives,
               \A x \in Channel, d \in Conns :
                   /\ SameFor(toServer[x], toServer'[x], d)
                   /\ Holds(toServer'[x], "data", d) => Holds(toServer[x], "data", d),
               \A d \in Conns : ctask'[d] = "reading" => ctask[d] = "reading" \/ localTaken[d] = 0
        PROVE  DownInv'
    <2>1. SrvLive' = SrvLive
      BY <1>1 DEF SrvLive
    <2>2. ASSUME NEW d \in Conns PROVE DownOne(d)'
      <3>1. SameFor(toServer[SrvLive], toServer'[SrvLive'], d)
        BY <1>0, <1>1, <2>1
      <3>2. localTaken[d] <= localSent'[d]
        BY <1>0, <1>1 DEF DownOne
      <3>3. ctask'[d] = "reading" /\ Arrives' =>
                (ctask[d] = "reading" /\ Arrives) \/ localTaken[d] = 0
        BY <1>1
      <3> QED
        BY <1>0, <1>1, <3>1, <3>2, <3>3, DownKept
    <2>3. CtrlIdle' /\ AtOnce'
      BY <1>0, <1>1 DEF CtrlIdle, AtOnce, Channel
    <2> QED
      BY <2>2, <2>3 DEF DownInv
  \* The data channel is lost only when frps has left it.
  <1>2. ASSUME UNCHANGED <<dataOpen, ctrlUp>>, UNCHANGED dataUp \/ (dataUp /\ ~dataOpen)
        PROVE  Arrives' => Arrives
    <2>1. dataUp /\ ~dataOpen => ~ctrlUp
      BY <1>0 DEF SessInv
    <2> QED
      BY <1>2, <2>1 DEF Arrives
  <1>3. UNCHANGED toServer =>
            \A x \in Channel, d \in Conns :
                /\ SameFor(toServer[x], toServer'[x], d)
                /\ Holds(toServer'[x], "data", d) => Holds(toServer[x], "data", d)
    BY SameForSame
  <1>4. ASSUME NEW m \in Msg, m.type # "data", FrpcSend(m)
        PROVE  \A x \in Channel, d \in Conns :
                   /\ SameFor(toServer[x], toServer'[x], d)
                   /\ Holds(toServer'[x], "data", d) => Holds(toServer[x], "data", d)
    <2>1. \A d : ~IsData(m, d)
      BY <1>4 DEF IsData
    <2> QED
      BY <1>0, <1>4, <2>1, FrpcSendSame, FrpcSendHolds
  <1>5. ASSUME NEW c \in Conns, HandleNewConn(c) \/ ForwardLocalEnd(c)
               \/ \E ch \in Channel, k \in Chunk : FrpcHandleData(ch, c, k)
        PROVE  DownInv' /\ UNCHANGED <<localSent, userGot>>
    <2>1. UNCHANGED <<user, userGot, pool, task, localSent, localTaken, dataOpen, ctrlUp, dataUp,
                      toServer>>
          /\ (UNCHANGED ctask \/ ctask' = [ctask EXCEPT ![c] = "done"])
      BY <1>5 DEF HandleNewConn, ForwardLocalEnd, FrpcHandleData
    <2>2. \A d \in Conns : ctask'[d] = "reading" => ctask[d] = "reading"
      BY <1>0, <2>1
    <2> QED
      BY <1>1, <1>2, <1>3, <2>1, <2>2
  <1>6. ASSUME NEW c \in Conns, DialSucceeds(c)
        PROVE  DownInv' /\ UNCHANGED <<localSent, userGot>>
    <2>1. /\ UNCHANGED <<user, userGot, pool, task, localSent, localTaken, dataOpen, ctrlUp>>
          /\ UNCHANGED ctask \/ ctask' = [ctask EXCEPT ![c] = "reading"]
          /\ dialing = c
      BY <1>6 DEF DialSucceeds
    <2>2. localTaken[c] = 0
      BY <1>0, <2>1 DEF FreshInv, LocalInv
    <2>3. \A d \in Conns : ctask'[d] = "reading" => ctask[d] = "reading" \/ localTaken[d] = 0
      BY <1>0, <2>1, <2>2
    <2>4. InitConn(c) \in Msg /\ Close(c) \in Msg
          /\ InitConn(c).type # "data" /\ Close(c).type # "data" /\ "ctrl" \in Channel
      BY MsgType DEF InitConn, Close, Channel
    <2>5. UNCHANGED dataUp \/ (dataUp /\ ~dataOpen)
      BY <1>6, FrpcSendSess DEF DialSucceeds
    <2>6. \A x \in Channel, d \in Conns :
              /\ SameFor(toServer[x], toServer'[x], d)
              /\ Holds(toServer'[x], "data", d) => Holds(toServer[x], "data", d)
      <3>1. CASE UNCHANGED toServer
        BY <1>3, <3>1
      <3>2. CASE FrpcSend(Close(c))
        BY <1>4, <2>4, <3>2
      <3>3. CASE toServer' = [toServer EXCEPT !["ctrl"] = Append(@, InitConn(c))]
        <4> SUFFICES ASSUME NEW x \in Channel, NEW d \in Conns
                     PROVE  /\ SameFor(toServer[x], toServer'[x], d)
                            /\ Holds(toServer'[x], "data", d) => Holds(toServer[x], "data", d)
          OBVIOUS
        <4>1. toServer[x] \in Seq(Msg) /\ ~IsData(InitConn(c), d)
              /\ (toServer'[x] = toServer[x] \/ toServer'[x] = Append(toServer[x], InitConn(c)))
          BY <1>0, <3>3, NotData DEF TypeOK
        <4>2. SameFor(toServer[x], toServer'[x], d)
          BY <2>4, <4>1, SameForSame, SameForAppend
        <4>3. ASSUME Holds(Append(toServer[x], InitConn(c)), "data", d)
              PROVE  Holds(toServer[x], "data", d)
          BY <2>4, <4>1, <4>3, HoldsAppend
        <4> QED
          BY <4>1, <4>2, <4>3
      <3> QED
        BY <1>6, <3>1, <3>2, <3>3 DEF DialSucceeds
    <2>7. Arrives' => Arrives
      BY <1>2, <2>1, <2>5
    <2> QED
      BY <1>1, <2>1, <2>3, <2>6, <2>7
  <1>7. ASSUME NEW c \in Conns, DialFails(c)
        PROVE  DownInv' /\ UNCHANGED <<localSent, userGot>>
    <2>1. /\ UNCHANGED <<user, userGot, pool, task, localSent, localTaken, dataOpen, ctrlUp, ctask>>
          /\ FrpcSend(Close(c))
      BY <1>7 DEF DialFails
    <2>2. Close(c) \in Msg /\ Close(c).type # "data"
      BY MsgType DEF Close
    <2>3. UNCHANGED dataUp \/ (dataUp /\ ~dataOpen)
      BY <2>1, FrpcSendSess
    <2>4. Arrives' => Arrives
      BY <1>2, <2>1, <2>3
    <2> QED
      BY <1>1, <1>4, <2>1, <2>2, <2>4
  <1>8. CASE DataChannelUp \/ DataChannelSetupFails
    <2>1. /\ setup = "auth"
          /\ UNCHANGED <<user, userGot, pool, task, localSent, localTaken, dataOpen, toServer>>
      BY <1>8 DEF DataChannelUp, DataChannelSetupFails
    <2>2. \A d \in Conns : local[d] = "absent"
      BY <1>0, <2>1 DEF AuthInv
    <2>3. ASSUME NEW d \in Conns PROVE DownOne(d)'
      <3>1. localTaken[d] <= localSent'[d]
        BY <1>0, <2>1 DEF DownOne
      <3> QED
        BY <1>0, <2>1, <2>2, <3>1, DownBefore
    <2> QED
      BY <1>0, <2>1, <2>3 DEF DownInv, CtrlIdle, AtOnce
  <1>9. ~DataChannelEof
    BY <1>0 DEF DataChannelEof, SessInv
  <1> QED
    BY <1>5, <1>6, <1>7, <1>8, <1>9, DownForward DEF FrpcCtrl, FrpcData, FrpcConn, Channel

\* The ends of the connections.
LEMMA DownEnds ==
    ASSUME ~DataFails, Base, TypeOK', DownInv,
           DataConnEnds \/ ControlBreaks \/ ControlConnEnds \/ ServerMessagesEnd
           \/ UNCHANGED vars
    PROVE  DownInv' /\ UNCHANGED <<localSent, userGot>>
  <1> USE DEF usersVars, frpsVars, sessVars, frpcVars, localVars, netVars
  <1>0. /\ TypeOK /\ SessInv /\ CtrlIdle /\ AtOnce /\ SrvLive \in Channel
        /\ \A d \in Conns : DownOne(d)
        /\ toServer \in [Channel -> Seq(Msg)]
    BY SrvLiveType DEF Base, DownInv, TypeOK
  <1>1. UNCHANGED <<user, userGot, task, localSent, localTaken, ctask>> /\ pool' \subseteq pool
    BY DEF DataConnEnds, ControlBreaks, ControlConnEnds, ServerMessagesEnd, vars
  <1>2. AtOnce' /\ \A d \in Conns : Quietly(d)
    BY <1>0, <1>1 DEF AtOnce, Quietly
  <1>3. CASE ControlBreaks \/ ServerMessagesEnd \/ UNCHANGED vars
    <2>1. /\ UNCHANGED <<dataOpen, toServer>>
          /\ UNCHANGED <<dataUp, ctrlUp>> \/ (UNCHANGED dataUp /\ ~ctrlUp')
             \/ (~dataUp' /\ ~ctrlUp')
      BY <1>3 DEF ControlBreaks, ServerMessagesEnd, vars
    <2>2. CtrlIdle' /\ (Arrives' => Arrives)
      BY <1>0, <2>1 DEF CtrlIdle, Arrives
    <2>3. ASSUME NEW d \in Conns PROVE DownOne(d)'
      <3>1. SameFor(toServer[SrvLive], toServer'[SrvLive], d)
        BY <2>1, SameForSame
      <3> QED
        BY <1>0, <1>2, <2>1, <2>2, <3>1, DownSame
    <2> QED
      BY <1>1, <1>2, <2>2, <2>3 DEF DownInv
  \* Only the other channel is emptied.
  <1>4. CASE ControlConnEnds /\ dataOpen
    <2>1. /\ UNCHANGED <<dataOpen, dataUp, ctrlUp>>
          /\ toServer' = [toServer EXCEPT !["ctrl"] = <<>>]
      BY <1>4 DEF ControlConnEnds
    <2>2. toServer'["ctrl"] = <<>> /\ toServer'["data"] = toServer["data"]
      BY <1>0, <2>1 DEF Channel
    <2>3. CtrlIdle' /\ (Arrives' => Arrives)
      BY <2>1, <2>2, HoldsEmpty DEF CtrlIdle, Arrives
    <2>4. ASSUME NEW d \in Conns PROVE DownOne(d)'
      <3>1. SameFor(toServer[SrvLive], toServer'[SrvLive], d)
        BY <1>4, <2>2, SameForSame DEF SrvLive
      <3> QED
        BY <1>0, <1>2, <2>1, <2>3, <3>1, DownSame
    <2> QED
      BY <1>1, <1>2, <2>3, <2>4 DEF DownInv
  \* frps takes nothing more, and frpc's control connection is gone.
  <1>5. ASSUME ~dataOpen', ~ctrlUp',
               \A d \in Conns : ~Holds(toServer'["ctrl"], "data", d)
        PROVE  DownInv'
    <2>1. SrvLive' = "ctrl" /\ ~Arrives' /\ CtrlIdle'
      BY <1>5 DEF SrvLive, Arrives, CtrlIdle
    <2>2. ASSUME NEW d \in Conns PROVE DownOne(d)'
      <3>1. localTaken[d] <= localSent'[d]
        BY <1>0, <1>1 DEF DownOne
      <3> QED
        BY <1>0, <1>1, <1>5, <2>1, <3>1, DownQuiet
    <2> QED
      BY <1>2, <2>1, <2>2 DEF DownInv
  <1>6. CASE ControlConnEnds /\ ~dataOpen
    <2>1. /\ ~dataOpen' /\ ~ctrlUp'
          /\ toServer' = [toServer EXCEPT !["ctrl"] = <<>>]
      BY <1>6 DEF ControlConnEnds
    <2>2. toServer'["ctrl"] = <<>>
      BY <1>0, <2>1 DEF Channel
    <2> QED
      BY <1>1, <1>5, <2>1, <2>2, HoldsEmpty
  <1>7. CASE DataConnEnds
    <2>1. /\ dataOpen /\ setup = "done" /\ ~dataUp
          /\ ~dataOpen' /\ UNCHANGED ctrlUp
          /\ toServer' = [toServer EXCEPT !["data"] = <<>>]
      BY <1>7 DEF DataConnEnds
    <2>2. ~ctrlUp
      BY <1>0, <2>1 DEF SessInv
    <2>3. toServer'["ctrl"] = toServer["ctrl"]
      BY <1>0, <2>1 DEF Channel
    <2>4. \A d \in Conns : ~Holds(toServer'["ctrl"], "data", d)
      BY <1>0, <2>1, <2>3 DEF CtrlIdle
    <2> QED
      BY <1>1, <1>5, <2>1, <2>2, <2>4
  <1> QED
    BY <1>3, <1>4, <1>6, <1>7

LEMMA DownStep ==
    ASSUME ~DataFails, ~DrainPauses, Base, TypeOK', DownInv, [Next]_vars
    PROVE  /\ DownInv'
           /\ \/ UNCHANGED <<localSent, userGot>>
              \/ \E c \in Conns : /\ localSent' = [localSent EXCEPT ![c] = @ + 1]
                                  /\ UNCHANGED userGot
              \/ \E c \in Conns : /\ Len(userGot[c]) + 1 <= localSent[c]
                                  /\ userGot' = [userGot EXCEPT ![c] = Append(@, Len(@) + 1)]
                                  /\ UNCHANGED localSent
  BY DownUsers, DownFrpsConn, DownFrps, DownFrpc, DownEnds DEF Next

\* From the local service to the user the tunnel is a byte stream, too
\* (forward_local_data, handle_data), as long as the data channel does not time out
\* and the drain of NEW_CONN does not suspend: handle_control_conn drops DATA for a
\* connection that handle_tcp_proxy_conn has not put in conn_pool yet, and hands on
\* what follows it.
THEOREM DownstreamCorrect ==
    ASSUME ~DataFails, ~DrainPauses
    PROVE  Spec => DownstreamIsPipe
  <1>1. Init => DownInv /\ Downstream!Init
    <2> SUFFICES ASSUME Init PROVE DownInv /\ Downstream!Init
      OBVIOUS
    <2>1. Downstream!Init
      BY DEF Init, Downstream!Init
    <2>2. CtrlIdle /\ AtOnce
      <3>1. toServer["ctrl"] = <<>>
        BY DEF Init, Channel
      <3> QED
        BY <3>1, HoldsEmpty DEF Init, CtrlIdle, AtOnce
    <2>3. ASSUME NEW c \in Conns PROVE DownOne(c)
      <3>1. userGot[c] = <<>> /\ localTaken[c] = 0 /\ localSent[c] = 0 /\ c \notin pool
        BY DEF Init
      <3> QED
        BY <3>1 DEF DownOne, Upto
    <2> QED
      BY <2>1, <2>2, <2>3 DEF DownInv
  <1>2. ASSUME Base, TypeOK', DownInv, [Next]_vars
        PROVE  DownInv' /\ [Downstream!Next]_(Downstream!vars)
    <2>1. ASSUME NEW c \in Conns, Len(userGot[c]) + 1 <= localSent[c],
                 userGot' = [userGot EXCEPT ![c] = Append(@, Len(@) + 1)],
                 UNCHANGED localSent
          PROVE  Downstream!Read(c)
      <3>1. userGot[c] \in Seq(Nat) /\ localSent[c] \in Nat
        BY <1>2, DownTypes DEF Base
      <3>2. /\ 1 \in 1..(localSent[c] - Len(userGot[c]))
            /\ userGot' = [userGot EXCEPT ![c] = @ \o [i \in 1..1 |-> Len(@) + i]]
        BY <2>1, <3>1, ReadsOne
      <3> QED
        BY <2>1, <3>2 DEF Downstream!Read
    <2>2. ASSUME NEW c \in Conns, localSent' = [localSent EXCEPT ![c] = @ + 1], UNCHANGED userGot
          PROVE  Downstream!Write(c)
      BY <2>2 DEF Downstream!Write
    <2>3. /\ DownInv'
          /\ \/ UNCHANGED <<localSent, userGot>>
             \/ \E c \in Conns : /\ localSent' = [localSent EXCEPT ![c] = @ + 1]
                                 /\ UNCHANGED userGot
             \/ \E c \in Conns : /\ Len(userGot[c]) + 1 <= localSent[c]
                                 /\ userGot' = [userGot EXCEPT ![c] = Append(@, Len(@) + 1)]
                                 /\ UNCHANGED localSent
      BY <1>2, DownStep
    <2> QED
      BY <2>1, <2>2, <2>3 DEF Downstream!Next, Downstream!vars
  <1> QED
    BY <1>1, <1>2, BaseHolds, TypeCorrect, PTL DEF Spec, DownstreamIsPipe, Downstream!Spec
=============================================================================
