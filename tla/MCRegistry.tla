----------------------------- MODULE MCRegistry -----------------------------
(* Registry for TLC: four control connections, one of them blocked and two   *)
(* fitting under the limit, and registrations that collide in each way.      *)
EXTENDS Registry

CONSTANTS k1, k2, k3, k4, n1, n2, p1, p2, p3, d1, d2, s1, s2

MCCtrls == {k1, k2, k3, k4}
MCNames == {n1, n2}
MCPorts == {p1, p2, p3}
MCDomains == {d1, d2}
MCKeys == {s1, s2}

\* The same name on two ports, the same port under two names, a port that is
\* not allowed, overlapping domains, a name two kinds of proxy want, and a
\* visitor with the right and the wrong key.
MCRequests ==
    { [type |-> "tcp",  name |-> n1, port |-> p1],
      [type |-> "ftp",  name |-> n1, port |-> p2],
      [type |-> "tcp",  name |-> n2, port |-> p1],
      [type |-> "udp",  name |-> n2, port |-> p1],
      [type |-> "tcp",  name |-> n2, port |-> p3],
      [type |-> "http", name |-> n1, domains |-> {d1, d2}],
      [type |-> "http", name |-> n2, domains |-> {d1}],
      [type |-> "stcp", name |-> n2, sk |-> s1],
      [type |-> "stcp_visitor", name |-> n1, server |-> n2, sk |-> s1],
      [type |-> "stcp_visitor", name |-> n1, server |-> n2, sk |-> s2] }
=============================================================================
