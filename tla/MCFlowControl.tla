--------------------------- MODULE MCFlowControl ----------------------------
(***************************************************************************)
(* Two connections. Either all ends read, or the user of the first one does  *)
(* not, which may also leave; its local service writes most.                 *)
(***************************************************************************)
EXTENDS FlowControl

CONSTANTS c1, c2

MCConns == {c1, c2}

MCQuota == [e \in Sides \X MCConns |-> IF e = <<"frpc", c1>> THEN 2 ELSE 1]
MCLeavers == {<<"frps", c1>>}
MCDeafEnds == {{}, {<<"frps", c1>>}}
=============================================================================
