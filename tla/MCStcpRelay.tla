---------------------------- MODULE MCStcpRelay -----------------------------
(* Model checking of StcpRelay: the modes a run explores. *)
EXTENDS StcpRelay

\* Clients without sessions and drains that never suspend, the opposite, and a
\* provider that has a data channel.
MCModes == {[session |-> FALSE, pauses |-> FALSE, data |-> {}],
            [session |-> TRUE,  pauses |-> TRUE,  data |-> {}],
            [session |-> TRUE,  pauses |-> FALSE, data |-> {"provider"}]}
=============================================================================
