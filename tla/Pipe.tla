-------------------------------- MODULE Pipe --------------------------------
(***************************************************************************)
(* What a tunnelled connection promises in one direction: a byte stream.   *)
(* The writer's chunks are numbered 1, 2, ... in the order it writes them;  *)
(* the reader receives them in that order, each once, without a gap, one or *)
(* more at a time. The stream may stop at any point (both ends may close    *)
(* whenever they like), so nothing here says that a chunk must arrive.      *)
(***************************************************************************)
EXTENDS Integers, Sequences

CONSTANT Conns      \* the connections that may be opened

VARIABLES sent,     \* sent[c]: how many chunks the writer has written
          got       \* got[c]:  the chunks the reader has received, in order

vars == <<sent, got>>

TypeOK == /\ sent \in [Conns -> Nat]
          /\ got \in [Conns -> Seq(Nat)]

Init == /\ sent = [c \in Conns |-> 0]
        /\ got = [c \in Conns |-> <<>>]

Write(c) == /\ sent' = [sent EXCEPT ![c] = @ + 1]
            /\ UNCHANGED got

Read(c) == \E n \in 1..(sent[c] - Len(got[c])) :
              /\ got' = [got EXCEPT ![c] = @ \o [i \in 1..n |-> Len(@) + i]]
              /\ UNCHANGED sent

Next == \E c \in Conns : Write(c) \/ Read(c)

Spec == Init /\ [][Next]_vars
=============================================================================
