------------------------------ MODULE Registry ------------------------------
(***************************************************************************)
(* The registry of frps: which control connections it serves, which of them *)
(* have a session, and which proxies they have registered in proxies,       *)
(* http_proxies, stcp_providers and stcp_visitors, with the listening       *)
(* sockets behind them, the max_connections limit and the proxy gauge of    *)
(* the statistics.                                                         *)
(*                                                                         *)
(* The messages of one control connection are handled one after the other,  *)
(* those of different connections interleave where a handler awaits. The    *)
(* awaits that matter are inside start_tcp_proxy (and its UDP and FTP       *)
(* twins), one before the port is bound and one after it: the name has been *)
(* checked, and nothing is recorded yet.                                   *)
(***************************************************************************)
EXTENDS Integers, FiniteSets

CONSTANTS
    Ctrls,          \* control connections; each is opened at most once
    Blocked,        \* those whose address access control refuses
    Names,          \* proxy names
    Ports,          \* remote ports
    AllowedPorts,   \* those check_port accepts
    Domains,        \* domains, and the full names subdomains stand for
    Keys,           \* secret keys of STCP proxies
    Requests,       \* the registrations clients may ask for
    MaxConnections, \* max_connections
    None

Listeners == {"tcp", "udp"} \X Ports

PortRequest == [type : {"tcp", "udp", "ftp"}, name : Names, port : Ports]
HttpRequest == [type : {"http"}, name : Names, domains : SUBSET Domains \ {{}}]
StcpRequest == [type : {"stcp"}, name : Names, sk : Keys]
VisitorRequest ==
    [type : {"stcp_visitor"}, name : Names, server : Names, sk : Keys]

ASSUME ConstantsAssumption ==
    /\ IsFiniteSet(Ctrls) /\ IsFiniteSet(Names)
    /\ Blocked \subseteq Ctrls /\ AllowedPorts \subseteq Ports
    /\ Requests \subseteq PortRequest \cup HttpRequest \cup StcpRequest \cup VisitorRequest
    /\ MaxConnections \in Nat
    /\ None \notin Ctrls \cup Listeners \cup Requests

VARIABLES
    authToken,      \* an auth_token is configured (fixed)
    conn,           \* conn[k]: "new", "open", "auth", "closed"
    total,          \* total_connections
    sessions,       \* the connections with an entry in sessions
    checked,        \* checked[k]: the request whose port k is about to bind, or
                    \* None
    starting,       \* starting[k]: the request whose bound listener k awaits, or
                    \* None
    proxies,        \* proxies[n]: its owner's connection, or None
    listener,       \* proxy_servers[n]: a listening socket, or None
    bound,          \* bound[s]: the connection whose registration opened the
                    \* listening socket s, or None while s is not listening
    http,           \* http_proxies[n]: owner, or None; its domains:
    httpDomains,
    stcp,           \* stcp_providers[n]: owner, or None; its key:
    stcpKey,
    visitors,       \* stcp_visitors[n]: owner, or None
    totalProxies    \* StatsManager.total_proxies

connVars  == <<authToken, conn, total, sessions>>
awaitVars == <<checked, starting>>
portVars  == <<proxies, listener, bound>>
httpVars  == <<http, httpDomains>>
stcpVars  == <<stcp, stcpKey, visitors>>
vars == <<connVars, awaitVars, portVars, httpVars, stcpVars, totalProxies>>

Owner == [Names -> Ctrls \cup {None}]

TypeOK ==
    /\ authToken \in BOOLEAN
    /\ conn \in [Ctrls -> {"new", "open", "auth", "closed"}]
    /\ total \in Int
    /\ sessions \subseteq Ctrls
    /\ checked \in [Ctrls -> Requests \cup {None}]
    /\ starting \in [Ctrls -> Requests \cup {None}]
    /\ proxies \in Owner /\ http \in Owner /\ stcp \in Owner /\ visitors \in Owner
    /\ listener \in [Names -> Listeners \cup {None}]
    /\ bound \in [Listeners -> Ctrls \cup {None}]
    /\ httpDomains \in [Names -> SUBSET Domains]
    /\ stcpKey \in [Names -> Keys \cup {None}]
    /\ totalProxies \in Nat

Init ==
    /\ authToken \in BOOLEAN
    /\ conn = [k \in Ctrls |-> "new"]
    /\ total = 0
    /\ sessions = {}
    /\ checked = [k \in Ctrls |-> None] /\ starting = [k \in Ctrls |-> None]
    /\ proxies = [n \in Names |-> None] /\ listener = [n \in Names |-> None]
    /\ bound = [s \in Listeners |-> None]
    /\ http = [n \in Names |-> None] /\ httpDomains = [n \in Names |-> {}]
    /\ stcp = [n \in Names |-> None] /\ stcpKey = [n \in Names |-> None]
    /\ visitors = [n \in Names |-> None]
    /\ totalProxies = 0

-----------------------------------------------------------------------------
(* Control connections. *)

Serving(k) == conn[k] \in {"open", "auth"}

\* The handler of a REGISTER is suspended: k's next message has to wait.
Registering(k) == checked[k] # None \/ starting[k] # None

\* The names a table records for connection k.
Owned(table, k) == {n \in Names : table[n] = k}

\* Faulty variant: the tables are cleaned by session only.
WithoutSession(table, k) ==
    [n \in Names |-> IF k \in sessions /\ table[n] = k THEN None ELSE table[n]]

Without(table, k) == [n \in Names |-> IF table[n] = k THEN None ELSE table[n]]

\* Faulty variant: a connection is counted before the limit is checked.
ConnectCountsFirst(k) ==
    /\ conn[k] = "new"
    /\ total' = total + 1
    /\ conn' = [conn EXCEPT ![k] = IF k \in Blocked \/ total >= MaxConnections
                                   THEN "closed"
                                   ELSE IF authToken THEN "open" ELSE "auth"]
    /\ UNCHANGED <<authToken, sessions, awaitVars, portVars, httpVars, stcpVars,
                   totalProxies>>

\* handle_control_conn up to its read loop.
Connect(k) ==
    /\ conn[k] = "new"
    /\ IF k \in Blocked \/ total >= MaxConnections
       THEN conn' = [conn EXCEPT ![k] = "closed"] /\ UNCHANGED total
       ELSE /\ conn' = [conn EXCEPT ![k] = IF authToken THEN "open" ELSE "auth"]
            /\ total' = total + 1
    /\ UNCHANGED <<authToken, sessions, awaitVars, portVars, httpVars, stcpVars,
                   totalProxies>>

\* A LOGIN with the right token.
Login(k) ==
    /\ conn[k] = "open"
    /\ conn' = [conn EXCEPT ![k] = "auth"]
    /\ sessions' = sessions \cup {k}
    /\ UNCHANGED <<authToken, total, awaitVars, portVars, httpVars, stcpVars,
                   totalProxies>>

\* The session is stored, and the LOGIN_RESP cannot be sent: the handler ends
\* before it learns of its session, which stays. Nothing is registered yet.
LoginRespFails(k) ==
    /\ conn[k] = "open"
    /\ conn' = [conn EXCEPT ![k] = "closed"]
    /\ total' = total - 1
    /\ sessions' = sessions \cup {k}
    /\ UNCHANGED <<authToken, awaitVars, portVars, httpVars, stcpVars, totalProxies>>

\* cleanup_client_by_writer finds in proxies what k owns; in the other tables it
\* finds something only when _remove_session has not been there before it.
LeftForCleanup(table, k) == IF k \in sessions THEN {} ELSE Owned(table, k)

\* Faulty variant: what the session owned is unregistered twice, unclamped.
GaugeAfterTwice(unregistered) == totalProxies - 2 * unregistered

\* on_proxy_unregister, as often as the cleanup calls it.
GaugeAfter(unregistered) ==
    IF unregistered > totalProxies THEN 0 ELSE totalProxies - unregistered

\* The finally block of handle_control_conn: the peer closed, was silent for
\* idle_timeout, sent a wrong token, or a message before its LOGIN.
Disconnect(k) ==
    LET unregistered == Cardinality(Owned(proxies, k))
                          + Cardinality(LeftForCleanup(http, k))
                          + Cardinality(LeftForCleanup(stcp, k))
                          + Cardinality(LeftForCleanup(visitors, k))
    IN
    /\ Serving(k) /\ ~Registering(k)
    /\ conn' = [conn EXCEPT ![k] = "closed"]
    /\ total' = total - 1
    /\ sessions' = sessions \ {k}
    /\ proxies' = Without(proxies, k)
    /\ bound' = [s \in Listeners |->
                    IF \E n \in Owned(proxies, k) : listener[n] = s
                    THEN None ELSE bound[s]]
    /\ listener' = [n \in Names |-> IF proxies[n] = k THEN None ELSE listener[n]]
    /\ http' = Without(http, k)
    /\ httpDomains' = [n \in Names |-> IF http[n] = k THEN {} ELSE httpDomains[n]]
    /\ stcp' = Without(stcp, k)
    /\ stcpKey' = [n \in Names |-> IF stcp[n] = k THEN None ELSE stcpKey[n]]
    /\ visitors' = Without(visitors, k)
    /\ totalProxies' = GaugeAfter(unregistered)
    /\ UNCHANGED <<authToken, awaitVars>>

-----------------------------------------------------------------------------
(* Registration: handle_register. A refusal only sends an ERROR message. *)

NameTaken(n) == proxies[n] # None \/ http[n] # None \/ stcp[n] # None

MayRegister(k, r) ==
    /\ conn[k] = "auth" /\ ~Registering(k)
    /\ ~NameTaken(r.name)

Socket(r) == <<IF r.type = "udp" THEN "udp" ELSE "tcp", r.port>>

\* A proxy with a remote port, as far as the start of its listener.
RegisterPort(k, r) ==
    /\ r \in PortRequest /\ MayRegister(k, r)
    /\ r.port \in AllowedPorts
    /\ checked' = [checked EXCEPT ![k] = r]
    /\ UNCHANGED <<connVars, starting, portVars, httpVars, stcpVars, totalProxies>>

\* Faulty variant: the port may be bound twice.
BindPortShared(k) ==
    LET r == checked[k] IN
    /\ r # None
    /\ checked' = [checked EXCEPT ![k] = None]
    /\ bound' = [bound EXCEPT ![Socket(r)] = k]
    /\ starting' = [starting EXCEPT ![k] = r]
    /\ UNCHANGED <<connVars, proxies, listener, httpVars, stcpVars, totalProxies>>

\* The port is bound, and that the listener is up awaited; a port in use, by
\* frps or another program, makes the registration fail, which is only logged.
BindPort(k) ==
    LET r == checked[k] IN
    /\ r # None
    /\ checked' = [checked EXCEPT ![k] = None]
    /\ \/ /\ bound[Socket(r)] = None
          /\ bound' = [bound EXCEPT ![Socket(r)] = k]
          /\ starting' = [starting EXCEPT ![k] = r]
       \/ UNCHANGED <<bound, starting>>
    /\ UNCHANGED <<connVars, proxies, listener, httpVars, stcpVars, totalProxies>>

\* Faulty variant: the registration is not counted.
ListenerStartedUncounted(k) ==
    LET r == starting[k] IN
    /\ r # None
    /\ listener' = [listener EXCEPT ![r.name] = Socket(r)]
    /\ proxies' = [proxies EXCEPT ![r.name] = k]
    /\ starting' = [starting EXCEPT ![k] = None]
    /\ UNCHANGED <<connVars, checked, bound, httpVars, stcpVars, totalProxies>>

\* The listener is up: it and the proxy are recorded under the name.
ListenerStarted(k) ==
    LET r == starting[k] IN
    /\ r # None
    /\ listener' = [listener EXCEPT ![r.name] = Socket(r)]
    /\ proxies' = [proxies EXCEPT ![r.name] = k]
    /\ totalProxies' = totalProxies + 1
    /\ starting' = [starting EXCEPT ![k] = None]
    /\ UNCHANGED <<connVars, checked, bound, httpVars, stcpVars>>

\* handle_http_vhost_conn: the HTTP proxies a request for this host may go to.
Route(d) == {n \in Names : http[n] # None /\ d \in httpDomains[n]}

\* Faulty variant: a name of one's own is all that is checked.
RegisterHttpAnyDomain(k, r) ==
    /\ r \in HttpRequest /\ MayRegister(k, r)
    /\ http' = [http EXCEPT ![r.name] = k]
    /\ httpDomains' = [httpDomains EXCEPT ![r.name] = r.domains]
    /\ totalProxies' = totalProxies + 1
    /\ UNCHANGED <<connVars, awaitVars, portVars, stcpVars>>

RegisterHttp(k, r) ==
    /\ r \in HttpRequest /\ MayRegister(k, r)
    /\ \A d \in r.domains : Route(d) = {}
    /\ http' = [http EXCEPT ![r.name] = k]
    /\ httpDomains' = [httpDomains EXCEPT ![r.name] = r.domains]
    /\ totalProxies' = totalProxies + 1
    /\ UNCHANGED <<connVars, awaitVars, portVars, stcpVars>>

RegisterStcp(k, r) ==
    /\ r \in StcpRequest /\ MayRegister(k, r)
    /\ stcp' = [stcp EXCEPT ![r.name] = k]
    /\ stcpKey' = [stcpKey EXCEPT ![r.name] = r.sk]
    /\ totalProxies' = totalProxies + 1
    /\ UNCHANGED <<connVars, awaitVars, portVars, httpVars, visitors>>

\* The provider must be registered already, with the visitor's key.
RegisterVisitor(k, r) ==
    /\ r \in VisitorRequest /\ MayRegister(k, r)
    /\ stcp[r.server] # None /\ stcpKey[r.server] = r.sk
    /\ visitors[r.name] = None
    /\ visitors' = [visitors EXCEPT ![r.name] = k]
    /\ totalProxies' = totalProxies + 1
    /\ UNCHANGED <<connVars, awaitVars, portVars, httpVars, stcp, stcpKey>>

Next == \E k \in Ctrls :
    \/ Connect(k) \/ Login(k) \/ LoginRespFails(k) \/ Disconnect(k)
    \/ BindPort(k) \/ ListenerStarted(k)
    \/ \E r \in Requests : \/ RegisterPort(k, r) \/ RegisterHttp(k, r)
                           \/ RegisterStcp(k, r) \/ RegisterVisitor(k, r)

Spec == Init /\ [][Next]_vars

-----------------------------------------------------------------------------
(* Properties. *)

\* total_connections is the number of control connections being served, on
\* every path out of handle_control_conn, and never exceeds max_connections.
Served == {k \in Ctrls : Serving(k)}

LimitHolds ==
    /\ total = Cardinality(Served)
    /\ total <= MaxConnections

\* Whatever is registered belongs to a connection that is still being served:
\* a disconnect leaves nothing of the client in any of the four tables.
NoStaleOwner ==
    \A n \in Names, table \in {proxies, http, stcp, visitors} :
        table[n] # None => conn[table[n]] = "auth"

\* A host name leads to at most one HTTP proxy, whatever the order in which
\* clients register, disconnect and register again.
RoutesAreUnique == \A d \in Domains : \A n, m \in Route(d) : n = m

\* A name is never an HTTP proxy and an STCP provider at once.
HttpAndStcpDisjoint == \A n \in Names : http[n] = None \/ stcp[n] = None

\* proxy_servers holds a listening socket for exactly the names in proxies, and
\* no socket twice: removing one proxy never closes the port of another.
ListenersMatchProxies ==
    /\ \A n \in Names : proxies[n] # None <=> listener[n] # None
    /\ \A n \in Names : listener[n] # None => bound[listener[n]] = proxies[n]
    /\ \A n, m \in Names : listener[n] # None /\ listener[n] = listener[m] => n = m

\* The gauge never counts fewer proxies than are registered, so that the clamp
\* at zero in on_proxy_unregister never hides anything.
Registered == Cardinality({n \in Names : proxies[n] # None})
                + Cardinality({n \in Names : http[n] # None})
                + Cardinality({n \in Names : stcp[n] # None})
                + Cardinality({n \in Names : visitors[n] # None})

GaugeNeverUnder == totalProxies >= Registered

\* docs/connection_flow.md:993: when a control connection ends, the client's
\* proxies are cleaned up and their listeners are closed.
NoListenerWithoutClient ==
    \A s \in Listeners : bound[s] # None => conn[bound[s]] = "auth"
=============================================================================
