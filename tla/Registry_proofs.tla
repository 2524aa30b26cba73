--------------------------- MODULE Registry_proofs ---------------------------
(***************************************************************************)
(* Proofs about the registry of frps, for any clients, names, ports,        *)
(* domains and limit. All safety properties but the gauge follow from one   *)
(* inductive invariant, which adds to them what is known of a registration  *)
(* that is suspended before or after it has bound its port.                *)
(***************************************************************************)
EXTENDS Registry, FiniteSetTheorems, TLAPS

\* A registration that is about to bind a port is one of an authenticated client.
CheckedIsServed ==
    \A k \in Ctrls : checked[k] # None =>
        checked[k] \in PortRequest /\ conn[k] = "auth"

\* A registration that awaits its listener is one of an authenticated client,
\* has bound its socket, and the socket is not recorded in proxy_servers yet.
StartingHoldsItsSocket ==
    \A k \in Ctrls : starting[k] # None =>
        /\ starting[k] \in PortRequest
        /\ conn[k] = "auth"
        /\ bound[Socket(starting[k])] = k
        /\ \A n \in Names : listener[n] # Socket(starting[k])

IInv == /\ TypeOK /\ CheckedIsServed /\ StartingHoldsItsSocket
        /\ LimitHolds /\ NoStaleOwner /\ RoutesAreUnique /\ HttpAndStcpDisjoint
        /\ ListenersMatchProxies

-----------------------------------------------------------------------------
(* Lemmas about the operators. *)

\* What on_proxy_unregister leaves of the gauge is a natural number.
LEMMA GaugeAfterType ==
    ASSUME totalProxies \in Nat, NEW m \in Nat
    PROVE  GaugeAfter(m) \in Nat
  BY SMT DEF GaugeAfter

\* The names a connection owns are finitely many.
LEMMA OwnedFinite ==
    ASSUME NEW table, NEW k
    PROVE  /\ Cardinality(Owned(table, k)) \in Nat
           /\ Cardinality(LeftForCleanup(table, k)) \in Nat
  <1>1. IsFiniteSet(Names)
    BY ConstantsAssumption
  <1>2. IsFiniteSet(Owned(table, k)) /\ IsFiniteSet(LeftForCleanup(table, k))
    BY <1>1, FS_Subset, FS_EmptySet DEF Owned, LeftForCleanup
  <1> QED
    BY <1>2, FS_CardinalityType

\* Cleaning a table by owner leaves a table of the other owners' entries.
LEMMA WithoutOwner ==
    ASSUME NEW table \in Owner, NEW k \in Ctrls
    PROVE  /\ Without(table, k) \in Owner
           /\ \A n \in Names : Without(table, k)[n] # None =>
                  Without(table, k)[n] = table[n] /\ table[n] # k
  BY DEF Without, Owner

\* A request for a remote port names a listening socket.
LEMMA SocketType == \A r \in PortRequest : Socket(r) \in Listeners /\ r.name \in Names
  BY DEF PortRequest, Socket, Listeners

-----------------------------------------------------------------------------

LEMMA InitInv == Init => IInv
  <1> SUFFICES ASSUME Init PROVE IInv
    OBVIOUS
  <1>1. TypeOK
    BY ConstantsAssumption DEF Init, TypeOK, Owner
  <1>2. Served = {}
    BY DEF Init, Served, Serving
  <1>3. LimitHolds
    BY <1>2, FS_EmptySet, ConstantsAssumption DEF Init, LimitHolds
  <1> QED
    BY <1>1, <1>3 DEF Init, IInv, CheckedIsServed, StartingHoldsItsSocket,
       NoStaleOwner, RoutesAreUnique, Route, HttpAndStcpDisjoint, ListenersMatchProxies

\* LimitHolds depends on which connections are served and on their number only.
LEMMA LimitPreserved ==
    ASSUME LimitHolds, Served' = Served, total' = total
    PROVE  LimitHolds'
  BY DEF LimitHolds

LEMMA ConnectInv ==
    ASSUME IInv, NEW k \in Ctrls, Connect(k)
    PROVE  IInv'
  <1> USE DEF IInv
  <1>1. TypeOK'
    BY DEF Connect, TypeOK, awaitVars, portVars, httpVars, stcpVars
  <1>2. LimitHolds'
    <2>1. CASE k \in Blocked \/ total >= MaxConnections
      <3>1. Served' = Served
        BY <2>1 DEF Connect, Served, Serving, TypeOK
      <3> QED
        BY <2>1, <3>1 DEF Connect, LimitHolds
    <2>2. CASE ~(k \in Blocked \/ total >= MaxConnections)
      <3>1. Served' = Served \cup {k} /\ k \notin Served
        BY <2>2 DEF Connect, Served, Serving, TypeOK
      <3>2. IsFiniteSet(Served)
        BY ConstantsAssumption, FS_Subset DEF Served
      <3>3. Cardinality(Served') = Cardinality(Served) + 1
        BY <3>1, <3>2, FS_AddElement
      <3> QED
        BY <2>2, <3>3, ConstantsAssumption DEF Connect, LimitHolds, TypeOK
    <2> QED
      BY <2>1, <2>2
  <1>3. CheckedIsServed' /\ StartingHoldsItsSocket' /\ ListenersMatchProxies'
    BY DEF Connect, CheckedIsServed, StartingHoldsItsSocket, ListenersMatchProxies,
       TypeOK, awaitVars, portVars, Socket
  <1>4. NoStaleOwner' /\ RoutesAreUnique' /\ HttpAndStcpDisjoint'
    BY DEF Connect, NoStaleOwner, RoutesAreUnique, Route, HttpAndStcpDisjoint,
       TypeOK, Owner, portVars, httpVars, stcpVars
  <1> QED
    BY <1>1, <1>2, <1>3, <1>4

LEMMA LoginInv ==
    ASSUME IInv, NEW k \in Ctrls, Login(k)
    PROVE  IInv'
  <1> USE DEF IInv
  <1>1. TypeOK'
    BY DEF Login, TypeOK, awaitVars, portVars, httpVars, stcpVars
  <1>2. Served' = Served
    BY DEF Login, Served, Serving, TypeOK
  <1>3. LimitHolds'
    BY <1>2, LimitPreserved DEF Login
  <1>4. CheckedIsServed' /\ StartingHoldsItsSocket' /\ ListenersMatchProxies'
    BY DEF Login, CheckedIsServed, StartingHoldsItsSocket, ListenersMatchProxies,
       TypeOK, awaitVars, portVars, Socket
  <1>5. NoStaleOwner' /\ RoutesAreUnique' /\ HttpAndStcpDisjoint'
    BY DEF Login, NoStaleOwner, RoutesAreUnique, Route, HttpAndStcpDisjoint,
       TypeOK, Owner, portVars, httpVars, stcpVars
  <1> QED
    BY <1>1, <1>3, <1>4, <1>5

LEMMA LoginRespFailsInv ==
    ASSUME IInv, NEW k \in Ctrls, LoginRespFails(k)
    PROVE  IInv'
  <1> USE DEF IInv
  <1>1. TypeOK'
    BY DEF LoginRespFails, TypeOK, awaitVars, portVars, httpVars, stcpVars
  <1>2. LimitHolds'
    <2>1. Served' = Served \ {k} /\ k \in Served
      BY DEF LoginRespFails, Served, Serving, TypeOK
    <2>2. IsFiniteSet(Served)
      BY ConstantsAssumption, FS_Subset DEF Served
    <2>3. Cardinality(Served') = Cardinality(Served) - 1
      BY <2>1, <2>2, FS_RemoveElement
    <2> QED
      BY <2>3, ConstantsAssumption DEF LoginRespFails, LimitHolds, TypeOK
  <1>3. CheckedIsServed' /\ StartingHoldsItsSocket' /\ ListenersMatchProxies'
    BY DEF LoginRespFails, CheckedIsServed, StartingHoldsItsSocket,
       ListenersMatchProxies, TypeOK, awaitVars, portVars, Socket
  <1>4. NoStaleOwner' /\ RoutesAreUnique' /\ HttpAndStcpDisjoint'
    BY DEF LoginRespFails, NoStaleOwner, RoutesAreUnique, Route, HttpAndStcpDisjoint,
       TypeOK, Owner, portVars, httpVars, stcpVars
  <1> QED
    BY <1>1, <1>2, <1>3, <1>4

LEMMA DisconnectInv ==
    ASSUME IInv, NEW k \in Ctrls, Disconnect(k)
    PROVE  IInv'
  <1> USE DEF IInv
  <1>1. TypeOK'
    <2> DEFINE unregistered == Cardinality(Owned(proxies, k))
                                 + Cardinality(LeftForCleanup(http, k))
                                 + Cardinality(LeftForCleanup(stcp, k))
                                 + Cardinality(LeftForCleanup(visitors, k))
    <2>1. unregistered \in Nat
      BY OwnedFinite
    <2>2. totalProxies' = GaugeAfter(unregistered)
      BY DEF Disconnect
    <2> HIDE DEF unregistered
    <2>3. totalProxies' \in Nat
      BY <2>1, <2>2, GaugeAfterType DEF TypeOK
    <2>4. proxies' \in Owner /\ http' \in Owner /\ stcp' \in Owner /\ visitors' \in Owner
      BY WithoutOwner DEF Disconnect, TypeOK
    <2>5. listener' \in [Names -> Listeners \cup {None}]
          /\ bound' \in [Listeners -> Ctrls \cup {None}]
          /\ httpDomains' \in [Names -> SUBSET Domains]
          /\ stcpKey' \in [Names -> Keys \cup {None}]
      BY DEF Disconnect, TypeOK
    <2>6. authToken' \in BOOLEAN /\ total' \in Int /\ sessions' \subseteq Ctrls
          /\ conn' \in [Ctrls -> {"new", "open", "auth", "closed"}]
          /\ checked' \in [Ctrls -> Requests \cup {None}]
          /\ starting' \in [Ctrls -> Requests \cup {None}]
      BY DEF Disconnect, TypeOK, awaitVars
    <2> QED
      BY <2>3, <2>4, <2>5, <2>6 DEF TypeOK
  <1>2. LimitHolds'
    <2>1. Served' = Served \ {k} /\ k \in Served
      BY DEF Disconnect, Served, Serving, TypeOK
    <2>2. IsFiniteSet(Served)
      BY ConstantsAssumption, FS_Subset DEF Served
    <2>3. Cardinality(Served') = Cardinality(Served) - 1
      BY <2>1, <2>2, FS_RemoveElement
    <2> QED
      BY <2>3, ConstantsAssumption DEF Disconnect, LimitHolds, TypeOK
  <1>3. \A n \in Names : proxies'[n] = IF proxies[n] = k THEN None ELSE proxies[n]
    BY DEF Disconnect, Without, TypeOK
  <1>4. \A n \in Names : listener'[n] = IF proxies[n] = k THEN None ELSE listener[n]
    BY DEF Disconnect
  <1>5. \A s \in Listeners : bound'[s] =
            IF \E n \in Names : proxies[n] = k /\ listener[n] = s
            THEN None ELSE bound[s]
    BY DEF Disconnect, Owned
  <1>6. StartingHoldsItsSocket'
    <2> SUFFICES ASSUME NEW j \in Ctrls, starting'[j] # None
                 PROVE  /\ starting'[j] \in PortRequest
                        /\ conn'[j] = "auth"
                        /\ bound'[Socket(starting'[j])] = j
                        /\ \A n \in Names : listener'[n] # Socket(starting'[j])
      BY DEF StartingHoldsItsSocket, Socket
    <2>1. starting'[j] = starting[j] /\ j # k
      BY DEF Disconnect, Registering, awaitVars
    <2>2. Socket(starting[j]) \in Listeners /\ starting[j] \in PortRequest
          /\ conn[j] = "auth" /\ bound[Socket(starting[j])] = j
          /\ \A n \in Names : listener[n] # Socket(starting[j])
      BY <2>1, SocketType DEF StartingHoldsItsSocket
    <2>3. \A n \in Names : listener'[n] # Socket(starting[j])
      BY <2>2, <1>4, ConstantsAssumption
    <2> QED
      BY <2>1, <2>2, <2>3, <1>5 DEF Disconnect, TypeOK
  <1>7. ListenersMatchProxies'
    <2>1. \A n \in Names : proxies'[n] # None <=> listener'[n] # None
      BY <1>3, <1>4 DEF ListenersMatchProxies
    <2>2. \A n \in Names : listener'[n] # None => bound'[listener'[n]] = proxies'[n]
      <3> SUFFICES ASSUME NEW n \in Names, listener'[n] # None
                   PROVE  bound'[listener'[n]] = proxies'[n]
        OBVIOUS
      <3>1. proxies[n] # k /\ listener'[n] = listener[n] /\ proxies'[n] = proxies[n]
            /\ listener[n] \in Listeners
        BY <1>3, <1>4 DEF TypeOK
      <3>2. \A m \in Names : proxies[m] = k => listener[m] # listener[n]
        BY <3>1 DEF ListenersMatchProxies
      <3> QED
        BY <3>1, <3>2, <1>5 DEF ListenersMatchProxies
    <2>3. \A n, m \in Names :
              listener'[n] # None /\ listener'[n] = listener'[m] => n = m
      BY <1>4 DEF ListenersMatchProxies
    <2> QED
      BY <2>1, <2>2, <2>3 DEF ListenersMatchProxies
  <1>8. NoStaleOwner'
    <2> SUFFICES ASSUME NEW n \in Names, NEW table \in {proxies, http, stcp, visitors},
                        Without(table, k)[n] # None
                 PROVE  conn'[Without(table, k)[n]] = "auth"
      BY DEF NoStaleOwner, Disconnect
    <2>1. table \in Owner
      BY DEF TypeOK
    <2>2. Without(table, k)[n] = table[n] /\ table[n] # k
      BY <2>1, WithoutOwner
    <2>3. table[n] \in Ctrls
      BY <2>1, <2>2 DEF Owner
    <2> QED
      BY <2>2, <2>3 DEF NoStaleOwner, Disconnect, TypeOK
  <1>9. RoutesAreUnique'
    BY DEF RoutesAreUnique, Route, Disconnect, Without, TypeOK, Owner
  <1>10. HttpAndStcpDisjoint'
    BY DEF HttpAndStcpDisjoint, Disconnect, Without, TypeOK, Owner
  <1>11. CheckedIsServed'
    BY DEF CheckedIsServed, Disconnect, Registering, TypeOK, awaitVars
  <1> QED
    BY <1>1, <1>2, <1>6, <1>7, <1>8, <1>9, <1>10, <1>11

\* NameTaken, for a name of the request type.
LEMMA NameFree ==
    ASSUME NEW k \in Ctrls, NEW r, MayRegister(k, r)
    PROVE  /\ conn[k] = "auth"
           /\ proxies[r.name] = None /\ http[r.name] = None /\ stcp[r.name] = None
  BY DEF MayRegister, NameTaken

\* A step that leaves connections and listeners alone, whatever it registers.
LEMMA PortlessInv ==
    ASSUME IInv, UNCHANGED <<connVars, starting, portVars>>
    PROVE  LimitHolds' /\ StartingHoldsItsSocket' /\ ListenersMatchProxies'
  <1> USE DEF IInv
  <1>1. Served' = Served /\ total' = total
    BY DEF Served, Serving, connVars
  <1> QED
    BY <1>1, LimitPreserved DEF StartingHoldsItsSocket, ListenersMatchProxies,
       Socket, connVars, portVars

LEMMA RegisterPortInv ==
    ASSUME IInv, NEW k \in Ctrls, NEW r \in Requests, RegisterPort(k, r)
    PROVE  IInv'
  <1> USE DEF IInv
  <1>1. TypeOK'
    BY DEF RegisterPort, TypeOK, connVars, portVars, httpVars, stcpVars
  <1>2. LimitHolds' /\ StartingHoldsItsSocket' /\ ListenersMatchProxies'
    BY PortlessInv DEF RegisterPort
  <1>3. CheckedIsServed'
    BY NameFree DEF RegisterPort, CheckedIsServed, TypeOK, connVars
  <1>4. NoStaleOwner' /\ RoutesAreUnique' /\ HttpAndStcpDisjoint'
    BY DEF RegisterPort, NoStaleOwner, RoutesAreUnique, Route, HttpAndStcpDisjoint,
       connVars, portVars, httpVars, stcpVars
  <1> QED
    BY <1>1, <1>2, <1>3, <1>4

LEMMA BindPortInv ==
    ASSUME IInv, NEW k \in Ctrls, BindPort(k)
    PROVE  IInv'
  <1> USE DEF IInv
  <1> DEFINE r == checked[k]
             s == Socket(r)
  <1>1. r \in PortRequest /\ r \in Requests /\ s \in Listeners /\ conn[k] = "auth"
    BY SocketType DEF BindPort, CheckedIsServed, TypeOK
  <1>2. /\ checked' = [checked EXCEPT ![k] = None]
        /\ UNCHANGED <<connVars, proxies, listener, httpVars, stcpVars, totalProxies>>
        /\ \/ /\ bound[s] = None
              /\ bound' = [bound EXCEPT ![s] = k]
              /\ starting' = [starting EXCEPT ![k] = r]
           \/ UNCHANGED <<bound, starting>>
    BY DEF BindPort
  <1> HIDE DEF r, s
  <1>3. TypeOK'
    BY <1>1, <1>2 DEF TypeOK, connVars, httpVars, stcpVars
  <1>4. CheckedIsServed'
    BY <1>2 DEF CheckedIsServed, TypeOK, connVars
  <1>5. NoStaleOwner' /\ RoutesAreUnique' /\ HttpAndStcpDisjoint'
    BY <1>2 DEF NoStaleOwner, RoutesAreUnique, Route, HttpAndStcpDisjoint,
       connVars, httpVars, stcpVars
  <1>6. CASE UNCHANGED <<bound, starting>>
    <2>1. LimitHolds' /\ StartingHoldsItsSocket' /\ ListenersMatchProxies'
      BY <1>2, <1>6, PortlessInv DEF portVars
    <2> QED
      BY <1>3, <1>4, <1>5, <2>1
  <1>7. CASE /\ bound[s] = None
             /\ bound' = [bound EXCEPT ![s] = k]
             /\ starting' = [starting EXCEPT ![k] = r]
    <2>1. LimitHolds'
      <3>1. Served' = Served /\ total' = total
        BY <1>2 DEF Served, Serving, connVars
      <3> QED
        BY <3>1, LimitPreserved
    <2>2. \A n \in Names : listener[n] # s
      BY <1>1, <1>7, ConstantsAssumption DEF ListenersMatchProxies, TypeOK, Owner
    <2>3. StartingHoldsItsSocket'
      <3> SUFFICES ASSUME NEW j \in Ctrls, starting'[j] # None
                   PROVE  /\ starting'[j] \in PortRequest
                          /\ conn'[j] = "auth"
                          /\ bound'[Socket(starting'[j])] = j
                          /\ \A n \in Names : listener'[n] # Socket(starting'[j])
        BY DEF StartingHoldsItsSocket, Socket
      <3>1. CASE j = k
        <4>1. starting'[j] = r /\ Socket(r) = s /\ bound'[s] = k
          BY <3>1, <1>1, <1>7 DEF TypeOK, s
        <4> QED
          BY <3>1, <4>1, <1>1, <1>2, <2>2 DEF connVars
      <3>2. CASE j # k
        <4>1. starting'[j] = starting[j] /\ starting[j] # None
          BY <3>2, <1>7 DEF TypeOK
        <4>2. Socket(starting[j]) # s /\ Socket(starting[j]) \in Listeners
          BY <4>1, <1>1, <1>7, SocketType, ConstantsAssumption
             DEF StartingHoldsItsSocket
        <4> QED
          BY <4>1, <4>2, <1>2, <1>7 DEF StartingHoldsItsSocket, TypeOK, connVars
      <3> QED
        BY <3>1, <3>2
    <2>4. ListenersMatchProxies'
      BY <1>2, <1>7, <2>2 DEF ListenersMatchProxies, TypeOK
    <2> QED
      BY <1>3, <1>4, <1>5, <2>1, <2>3, <2>4
  <1> QED
    BY <1>2, <1>6, <1>7

LEMMA ListenerStartedInv ==
    ASSUME IInv, NEW k \in Ctrls, ListenerStarted(k)
    PROVE  IInv'
  <1> USE DEF IInv
  <1> DEFINE r == starting[k]
             s == Socket(r)
  <1>1. r \in PortRequest /\ s \in Listeners /\ r.name \in Names
        /\ conn[k] = "auth" /\ bound[s] = k
        /\ \A n \in Names : listener[n] # s
    BY SocketType DEF ListenerStarted, StartingHoldsItsSocket
  <1>2. /\ listener' = [listener EXCEPT ![r.name] = s]
        /\ proxies' = [proxies EXCEPT ![r.name] = k]
        /\ totalProxies' = totalProxies + 1
        /\ starting' = [starting EXCEPT ![k] = None]
        /\ UNCHANGED <<connVars, checked, bound, httpVars, stcpVars>>
    BY DEF ListenerStarted
  <1>3. \A j \in Ctrls \ {k} : starting[j] # None => Socket(starting[j]) # s
    BY <1>1 DEF StartingHoldsItsSocket
  <1> HIDE DEF r, s
  <1>4. TypeOK'
    BY <1>1, <1>2 DEF TypeOK, Owner, connVars, httpVars, stcpVars
  <1>5. LimitHolds'
    <2>1. Served' = Served /\ total' = total
      BY <1>2 DEF Served, Serving, connVars
    <2> QED
      BY <2>1, LimitPreserved
  <1>6. StartingHoldsItsSocket'
    <2> SUFFICES ASSUME NEW j \in Ctrls, starting'[j] # None
                 PROVE  /\ starting'[j] \in PortRequest
                        /\ conn'[j] = "auth"
                        /\ bound'[Socket(starting'[j])] = j
                        /\ \A n \in Names : listener'[n] # Socket(starting'[j])
      BY DEF StartingHoldsItsSocket, Socket
    <2>1. j # k /\ starting'[j] = starting[j] /\ starting[j] # None
      BY <1>2 DEF TypeOK
    <2> QED
      BY <2>1, <1>1, <1>2, <1>3 DEF StartingHoldsItsSocket, TypeOK, connVars
  <1>7. ListenersMatchProxies'
    BY <1>1, <1>2, ConstantsAssumption DEF ListenersMatchProxies, TypeOK, Owner
  <1>8. NoStaleOwner'
    BY <1>1, <1>2 DEF NoStaleOwner, TypeOK, Owner, connVars, httpVars, stcpVars
  <1>9. RoutesAreUnique' /\ HttpAndStcpDisjoint' /\ CheckedIsServed'
    BY <1>2 DEF RoutesAreUnique, Route, HttpAndStcpDisjoint, CheckedIsServed,
       connVars, httpVars, stcpVars
  <1> QED
    BY <1>4, <1>5, <1>6, <1>7, <1>8, <1>9

LEMMA RegisterHttpInv ==
    ASSUME IInv, NEW k \in Ctrls, NEW r \in Requests, RegisterHttp(k, r)
    PROVE  IInv'
  <1> USE DEF IInv
  <1>1. r \in HttpRequest /\ r.name \in Names /\ r.domains \subseteq Domains
        /\ conn[k] = "auth" /\ http[r.name] = None /\ stcp[r.name] = None
    BY NameFree DEF RegisterHttp, HttpRequest
  <1>2. TypeOK'
    BY <1>1 DEF RegisterHttp, TypeOK, Owner, connVars, awaitVars, portVars, stcpVars
  <1>3. LimitHolds' /\ CheckedIsServed' /\ StartingHoldsItsSocket'
        /\ ListenersMatchProxies'
    BY PortlessInv DEF RegisterHttp, CheckedIsServed, connVars, awaitVars
  <1>4. NoStaleOwner'
    BY <1>1 DEF RegisterHttp, NoStaleOwner, TypeOK, Owner, connVars, portVars,
       stcpVars
  <1>5. RoutesAreUnique'
    BY <1>1 DEF RegisterHttp, RoutesAreUnique, Route, TypeOK, Owner
  <1>6. HttpAndStcpDisjoint'
    BY <1>1 DEF RegisterHttp, HttpAndStcpDisjoint, TypeOK, Owner, stcpVars
  <1> QED
    BY <1>2, <1>3, <1>4, <1>5, <1>6

LEMMA RegisterStcpInv ==
    ASSUME IInv, NEW k \in Ctrls, NEW r \in Requests, RegisterStcp(k, r)
    PROVE  IInv'
  <1> USE DEF IInv
  <1>1. r \in StcpRequest /\ r.name \in Names /\ r.sk \in Keys
        /\ conn[k] = "auth" /\ http[r.name] = None
    BY NameFree DEF RegisterStcp, StcpRequest
  <1>2. TypeOK'
    BY <1>1 DEF RegisterStcp, TypeOK, Owner, connVars, awaitVars, portVars, httpVars
  <1>3. LimitHolds' /\ CheckedIsServed' /\ StartingHoldsItsSocket'
        /\ ListenersMatchProxies'
    BY PortlessInv DEF RegisterStcp, CheckedIsServed, connVars, awaitVars
  <1>4. NoStaleOwner'
    BY <1>1 DEF RegisterStcp, NoStaleOwner, TypeOK, Owner, connVars, portVars,
       httpVars
  <1>5. RoutesAreUnique' /\ HttpAndStcpDisjoint'
    BY <1>1 DEF RegisterStcp, RoutesAreUnique, Route, HttpAndStcpDisjoint, TypeOK,
       Owner, httpVars
  <1> QED
    BY <1>2, <1>3, <1>4, <1>5

LEMMA RegisterVisitorInv ==
    ASSUME IInv, NEW k \in Ctrls, NEW r \in Requests, RegisterVisitor(k, r)
    PROVE  IInv'
  <1> USE DEF IInv
  <1>1. r \in VisitorRequest /\ r.name \in Names /\ conn[k] = "auth"
    BY NameFree DEF RegisterVisitor, VisitorRequest
  <1>2. TypeOK'
    BY <1>1 DEF RegisterVisitor, TypeOK, Owner, connVars, awaitVars, portVars, httpVars
  <1>3. LimitHolds' /\ CheckedIsServed' /\ StartingHoldsItsSocket'
        /\ ListenersMatchProxies'
    BY PortlessInv DEF RegisterVisitor, CheckedIsServed, connVars, awaitVars
  <1>4. NoStaleOwner'
    BY <1>1 DEF RegisterVisitor, NoStaleOwner, TypeOK, Owner, connVars, portVars,
       httpVars
  <1>5. RoutesAreUnique' /\ HttpAndStcpDisjoint'
    BY DEF RegisterVisitor, RoutesAreUnique, Route, HttpAndStcpDisjoint, httpVars
  <1> QED
    BY <1>2, <1>3, <1>4, <1>5

LEMMA StutterInv == IInv /\ UNCHANGED vars => IInv'
  <1> SUFFICES ASSUME IInv, UNCHANGED vars PROVE IInv'
    OBVIOUS
  <1> USE DEF IInv, vars
  <1>1. LimitHolds' /\ StartingHoldsItsSocket' /\ ListenersMatchProxies'
    BY PortlessInv DEF awaitVars
  <1>2. TypeOK' /\ CheckedIsServed' /\ NoStaleOwner' /\ RoutesAreUnique'
        /\ HttpAndStcpDisjoint'
    BY DEF TypeOK, CheckedIsServed, NoStaleOwner, RoutesAreUnique, Route,
       HttpAndStcpDisjoint, connVars, awaitVars, portVars, httpVars, stcpVars
  <1> QED
    BY <1>1, <1>2

\* The invariant is inductive: one case per action of Next.
LEMMA NextInv == IInv /\ [Next]_vars => IInv'
  <1> SUFFICES ASSUME IInv, [Next]_vars PROVE IInv'
    OBVIOUS
  <1>1. CASE Next
    <2> PICK k \in Ctrls :
            \/ Connect(k) \/ Login(k) \/ LoginRespFails(k) \/ Disconnect(k)
            \/ BindPort(k) \/ ListenerStarted(k)
            \/ \E r \in Requests : \/ RegisterPort(k, r) \/ RegisterHttp(k, r)
                                   \/ RegisterStcp(k, r) \/ RegisterVisitor(k, r)
      BY <1>1 DEF Next
    <2>1. CASE Connect(k)
      BY <2>1, ConnectInv
    <2>2. CASE Login(k)
      BY <2>2, LoginInv
    <2>3. CASE Disconnect(k)
      BY <2>3, DisconnectInv
    <2>4. CASE ListenerStarted(k)
      BY <2>4, ListenerStartedInv
    <2>5. ASSUME NEW r \in Requests, RegisterPort(k, r) PROVE IInv'
      BY <2>5, RegisterPortInv
    <2>6. ASSUME NEW r \in Requests, RegisterHttp(k, r) PROVE IInv'
      BY <2>6, RegisterHttpInv
    <2>7. ASSUME NEW r \in Requests, RegisterStcp(k, r) PROVE IInv'
      BY <2>7, RegisterStcpInv
    <2>8. ASSUME NEW r \in Requests, RegisterVisitor(k, r) PROVE IInv'
      BY <2>8, RegisterVisitorInv
    <2>9. CASE BindPort(k)
      BY <2>9, BindPortInv
    <2>10. CASE LoginRespFails(k)
      BY <2>10, LoginRespFailsInv
    <2> QED
      BY <2>1, <2>2, <2>3, <2>4, <2>5, <2>6, <2>7, <2>8, <2>9, <2>10
  <1>2. CASE UNCHANGED vars
    BY <1>2, StutterInv
  <1> QED
    BY <1>1, <1>2

\* Whatever clients connect, register and leave, in any interleaving, the whole
\* invariant holds of frps' registry.
THEOREM InvHolds == Spec => []IInv
  BY InitInv, NextInv, PTL DEF Spec

\* The registry's tables keep their shape, and the proxy gauge its range.
THEOREM TypeCorrect == Spec => []TypeOK
  <1>1. IInv => TypeOK
    BY DEF IInv
  <1> QED
    BY <1>1, InvHolds, PTL

\* total_connections counts the connections served and never passes the limit.
THEOREM LimitCorrect == Spec => []LimitHolds
  <1>1. IInv => LimitHolds
    BY DEF IInv
  <1> QED
    BY <1>1, InvHolds, PTL

\* No table keeps an entry of a client whose control connection has ended.
THEOREM OwnersCorrect == Spec => []NoStaleOwner
  <1>1. IInv => NoStaleOwner
    BY DEF IInv
  <1> QED
    BY <1>1, InvHolds, PTL

\* A Host header is never routed ambiguously, and a name is never both an HTTP
\* proxy and an STCP provider.
THEOREM RoutingCorrect == Spec => [](RoutesAreUnique /\ HttpAndStcpDisjoint)
  <1>1. IInv => RoutesAreUnique /\ HttpAndStcpDisjoint
    BY DEF IInv
  <1> QED
    BY <1>1, InvHolds, PTL

\* What proxy_servers holds for a name is that proxy's own listening socket.
THEOREM ListenersCorrect == Spec => []ListenersMatchProxies
  <1>1. IInv => ListenersMatchProxies
    BY DEF IInv
  <1> QED
    BY <1>1, InvHolds, PTL

-----------------------------------------------------------------------------
(* The gauge of the statistics.                                              *)

Named(table) == {n \in Names : table[n] # None}
Size(table) == Cardinality(Named(table))

LEMMA SizeType ==
    ASSUME NEW table PROVE Size(table) \in Nat /\ IsFiniteSet(Named(table))
  BY FS_Subset, FS_CardinalityType, ConstantsAssumption DEF Size, Named

\* One registration puts at most one name into a table.
LEMMA SizeOfOneMore ==
    ASSUME NEW table \in Owner, NEW n, NEW k \in Ctrls
    PROVE  Size([table EXCEPT ![n] = k]) <= Size(table) + 1
  <1> DEFINE after == Named([table EXCEPT ![n] = k])
  <1>1. after \subseteq Named(table) \cup {n}
    BY DEF Named, Owner
  <1>2. /\ IsFiniteSet(Named(table) \cup {n})
        /\ Cardinality(Named(table) \cup {n}) <= Size(table) + 1
    <2>1. IsFiniteSet(Named(table)) /\ Cardinality(Named(table)) \in Nat
      BY SizeType DEF Size
    <2>2. /\ IsFiniteSet(Named(table) \cup {n})
          /\ Cardinality(Named(table) \cup {n}) =
                IF n \in Named(table) THEN Cardinality(Named(table))
                ELSE Cardinality(Named(table)) + 1
      BY <2>1, FS_AddElement
    <2> QED
      BY <2>1, <2>2 DEF Size
  <1>3. Cardinality(after) <= Cardinality(Named(table) \cup {n})
    BY <1>1, <1>2, FS_Subset
  <1> HIDE DEF after
  <1>4. Cardinality(after) \in Nat /\ Cardinality(Named(table) \cup {n}) \in Nat
    BY <1>1, <1>2, FS_Subset, FS_CardinalityType
  <1>5. Cardinality(after) <= Size(table) + 1
    BY <1>2, <1>3, <1>4, SizeType
  <1> QED
    BY <1>5 DEF after, Size

\* A disconnect takes what the connection owns out of a table, and the cleanup
\* reports no more than that.
LEMMA SizeWithout ==
    ASSUME NEW table \in Owner, NEW k \in Ctrls
    PROVE  /\ Size(Without(table, k)) = Size(table) - Cardinality(Owned(table, k))
           /\ Cardinality(Owned(table, k)) \in Nat
           /\ Cardinality(LeftForCleanup(table, k)) \in Nat
           /\ Cardinality(LeftForCleanup(table, k)) <= Cardinality(Owned(table, k))
  <1>1. k # None
    BY ConstantsAssumption
  <1>2. /\ Named(Without(table, k)) = Named(table) \ Owned(table, k)
        /\ Named(table) \cap Owned(table, k) = Owned(table, k)
    BY <1>1 DEF Named, Without, Owned
  <1>3. Size(Without(table, k)) = Size(table) - Cardinality(Owned(table, k))
    BY <1>2, SizeType, FS_Difference DEF Size
  <1>4. Cardinality(Owned(table, k)) \in Nat
    BY OwnedFinite
  <1>5. Cardinality({}) = 0
    BY FS_EmptySet
  <1> QED
    BY <1>3, <1>4, <1>5 DEF LeftForCleanup

LEMMA GaugeIs ==
    GaugeNeverUnder <=>
        totalProxies >= Size(proxies) + Size(http) + Size(stcp) + Size(visitors)
  BY DEF GaugeNeverUnder, Registered, Size, Named

LEMMA GaugeStep == TypeOK /\ GaugeNeverUnder /\ [Next]_vars => GaugeNeverUnder'
  <1> SUFFICES ASSUME TypeOK, GaugeNeverUnder, [Next]_vars PROVE GaugeNeverUnder'
    OBVIOUS
  <1>1. /\ totalProxies \in Nat
        /\ proxies \in Owner /\ http \in Owner /\ stcp \in Owner /\ visitors \in Owner
        /\ totalProxies >= Size(proxies) + Size(http) + Size(stcp) + Size(visitors)
        /\ \A table : Size(table) \in Nat
    BY GaugeIs, SizeType DEF TypeOK
  <1>2. ASSUME totalProxies' >= Size(proxies') + Size(http') + Size(stcp') + Size(visitors')
        PROVE  GaugeNeverUnder'
    BY <1>2 DEF GaugeNeverUnder, Registered, Size, Named
  <1>3. ASSUME UNCHANGED <<totalProxies, proxies, http, stcp, visitors>>
        PROVE  GaugeNeverUnder'
    BY <1>1, <1>2, <1>3
  <1>4. ASSUME NEW k \in Ctrls,
               \/ Connect(k) \/ Login(k) \/ LoginRespFails(k) \/ BindPort(k)
               \/ \E r \in Requests : RegisterPort(k, r)
        PROVE  GaugeNeverUnder'
    BY <1>3, <1>4 DEF Connect, Login, LoginRespFails, BindPort, RegisterPort, portVars, httpVars, stcpVars
  <1>5. ASSUME NEW k \in Ctrls, ListenerStarted(k) PROVE GaugeNeverUnder'
    <2>1. PICK n : proxies' = [proxies EXCEPT ![n] = k]
      BY <1>5 DEF ListenerStarted
    <2>2. UNCHANGED <<http, stcp, visitors>> /\ totalProxies' = totalProxies + 1
      BY <1>5 DEF ListenerStarted, httpVars, stcpVars
    <2>3. Size(proxies') <= Size(proxies) + 1
      BY <1>1, <2>1, SizeOfOneMore
    <2> QED
      BY <1>1, <1>2, <2>2, <2>3
  <1>6. ASSUME NEW k \in Ctrls, NEW r \in Requests, RegisterHttp(k, r) PROVE GaugeNeverUnder'
    <2>1. http' = [http EXCEPT ![r.name] = k]
          /\ UNCHANGED <<proxies, stcp, visitors>> /\ totalProxies' = totalProxies + 1
      BY <1>6 DEF RegisterHttp, portVars, stcpVars
    <2>2. Size(http') <= Size(http) + 1
      BY <1>1, <2>1, SizeOfOneMore
    <2> QED
      BY <1>1, <1>2, <2>1, <2>2
  <1>7. ASSUME NEW k \in Ctrls, NEW r \in Requests, RegisterStcp(k, r) PROVE GaugeNeverUnder'
    <2>1. stcp' = [stcp EXCEPT ![r.name] = k]
          /\ UNCHANGED <<proxies, http, visitors>> /\ totalProxies' = totalProxies + 1
      BY <1>7 DEF RegisterStcp, portVars, httpVars
    <2>2. Size(stcp') <= Size(stcp) + 1
      BY <1>1, <2>1, SizeOfOneMore
    <2> QED
      BY <1>1, <1>2, <2>1, <2>2
  <1>8. ASSUME NEW k \in Ctrls, NEW r \in Requests, RegisterVisitor(k, r) PROVE GaugeNeverUnder'
    <2>1. visitors' = [visitors EXCEPT ![r.name] = k]
          /\ UNCHANGED <<proxies, http, stcp>> /\ totalProxies' = totalProxies + 1
      BY <1>8 DEF RegisterVisitor, portVars, httpVars
    <2>2. Size(visitors') <= Size(visitors) + 1
      BY <1>1, <2>1, SizeOfOneMore
    <2> QED
      BY <1>1, <1>2, <2>1, <2>2
  <1>9. ASSUME NEW k \in Ctrls, Disconnect(k) PROVE GaugeNeverUnder'
    <2> DEFINE owned(table) == Cardinality(Owned(table, k))
               left(table) == Cardinality(LeftForCleanup(table, k))
               unregistered == owned(proxies) + left(http) + left(stcp) + left(visitors)
    <2>1. /\ proxies' = Without(proxies, k) /\ http' = Without(http, k)
          /\ stcp' = Without(stcp, k) /\ visitors' = Without(visitors, k)
          /\ totalProxies' = GaugeAfter(unregistered)
      BY <1>9 DEF Disconnect
    <2>2. \A table \in Owner :
              /\ Size(Without(table, k)) = Size(table) - owned(table)
              /\ owned(table) \in Nat /\ left(table) \in Nat /\ left(table) <= owned(table)
      BY SizeWithout
    <2> HIDE DEF owned, left
    <2>3. Size(proxies') + Size(http') + Size(stcp') + Size(visitors') <= totalProxies - unregistered
      BY <1>1, <2>1, <2>2
    <2>4. totalProxies - unregistered >= 0
      BY <1>1, <2>1, <2>2, <2>3
    <2>5. totalProxies' = totalProxies - unregistered
      BY <1>1, <2>1, <2>2, <2>4 DEF GaugeAfter
    <2> QED
      BY <1>1, <1>2, <2>3, <2>5
  <1>10. CASE UNCHANGED vars
    BY <1>3, <1>10 DEF vars, portVars, httpVars, stcpVars
  <1> QED
    BY <1>4, <1>5, <1>6, <1>7, <1>8, <1>9, <1>10 DEF Next

\* The gauge of registered proxies never undercounts (on_proxy_register and the two
\* cleanups with their on_proxy_unregister), whatever the sessions, so the clamp at
\* zero hides nothing.
THEOREM GaugeCorrect == Spec => []GaugeNeverUnder
  <1>1. Init => GaugeNeverUnder
    <2> SUFFICES ASSUME Init PROVE GaugeNeverUnder
      OBVIOUS
    <2>1. \A table \in {proxies, http, stcp, visitors} : Named(table) = {}
      BY DEF Init, Named
    <2>2. \A table \in {proxies, http, stcp, visitors} : Size(table) = 0
      BY <2>1, FS_EmptySet DEF Size
    <2>3. totalProxies = 0
      BY DEF Init
    <2> QED
      BY <2>2, <2>3, GaugeIs
  <1> QED
    BY <1>1, GaugeStep, TypeCorrect, PTL DEF Spec
=============================================================================
