------------------------------ MODULE Framing -------------------------------
(***************************************************************************)
(* Messages on one direction of a TCP connection between frpc and frps.    *)
(* The writer encodes each message as a frame, TCP delivers the bytes in    *)
(* pieces of any size, and the reader appends each piece to a buffer and    *)
(* decodes frames from its front. The other modules take the result for     *)
(* granted: a channel of whole messages in the order they were written.     *)
(*                                                                         *)
(* There are three kinds of reader. "loop" decodes all it has after each    *)
(* read (both control handlers). "auth" does so as well, and ignores all    *)
(* messages up to the end of the loop that finds the one it waits for       *)
(* (handle_data_conn of frps). "answer" decodes                            *)
(* once after each read until it has the answer it waits for, and then      *)
(* leaves the connection to a loop with a buffer of its own (_login and     *)
(* _connect_data_channel of frpc).                                         *)
(*                                                                         *)
(* A header is magic, code and length, one byte each; version and flags are *)
(* never looked at. A connection id takes one byte instead of sixteen.      *)
(***************************************************************************)
EXTENDS Integers, Sequences, SequencesExt

CONSTANTS
    Readers,        \* kinds of reader: a subset of {"loop", "auth", "answer"}
    Magic,          \* the byte a frame starts with
    Texts,          \* the JSON texts of control messages
    First,          \* the one that "auth" and "answer" wait for
    DataBodies,     \* payloads of DATA: a connection id and raw bytes
    MaxSent         \* bound: messages written

HeaderSize == 3
UuidSize == 1

ControlCode == 1
DataCode == 2

\* json.dumps writes ASCII, which the magic byte is not.
ASSUME ConstantsAssumption ==
    /\ Readers \subseteq {"loop", "auth", "answer"}
    /\ Magic \in Nat /\ MaxSent \in Nat
    /\ First \in Texts
    /\ \A t \in Texts : t \in Seq(Nat) /\ Magic \notin {t[i] : i \in DOMAIN t}
    /\ \A b \in DataBodies : b \in Seq(Nat) /\ Len(b) >= UuidSize

Message == [code : {ControlCode}, body : Texts] \cup [code : {DataCode}, body : DataBodies]
Opening == [code |-> ControlCode, body |-> First]

\* What decode may return, if it does not stand at the start of a frame.
Decoded == [code : {ControlCode, DataCode}, body : Seq(Nat)]

VARIABLES
    reader,         \* the kind of reader, fixed
    eager,          \* BOOLEAN, fixed: does the writer go on before its first
                    \* message has been taken?
    sent,           \* the messages written
    wire,           \* bytes on their way
    buffer,         \* bytes read and not decoded
    opened,         \* BOOLEAN: has the reader got the message it waits for first?
    at,             \* "reading": in read(); "opening": decoding what it read while
                    \* the message it waits for was missing; "decoding": otherwise
    got             \* the messages handed to their handler

vars == <<reader, eager, sent, wire, buffer, opened, at, got>>

TypeOK ==
    /\ reader \in Readers /\ eager \in BOOLEAN
    /\ sent \in Seq(Message) /\ Len(sent) <= MaxSent
    /\ wire \in Seq(Nat) /\ buffer \in Seq(Nat)
    /\ opened \in BOOLEAN
    /\ at \in {"reading", "opening", "decoding"}
    /\ got \in Seq(Decoded)

Init ==
    /\ reader \in Readers /\ eager \in BOOLEAN
    /\ sent = <<>> /\ wire = <<>> /\ buffer = <<>>
    /\ opened = (reader = "loop")
    /\ at = "reading"
    /\ got = <<>>

-----------------------------------------------------------------------------
(* Protocol *)

Encode(m) == <<Magic, m.code, Len(m.body)>> \o m.body

\* Not a whole frame yet. What does not start with the magic byte never is one.
Incomplete(data) ==
    \/ Len(data) < HeaderSize
    \/ data[1] = Magic /\ Len(data) < HeaderSize + data[3]

\* How many bytes one call of decode takes from the front.
Taken(data) ==
    IF Incomplete(data) THEN 0
    ELSE IF data[1] # Magic THEN 1 ELSE HeaderSize + data[3]

Readable(code, body) ==
    \/ code = ControlCode /\ body \in Texts
    \/ code = DataCode /\ Len(body) >= UuidSize

\* What decode returns: at most one message, and the bytes that remain.
Decode(data) ==
    LET n == Taken(data)
        body == SubSeq(data, HeaderSize + 1, n)
    IN  [message |-> IF n >= HeaderSize /\ Readable(data[2], body)
                     THEN <<[code |-> data[2], body |-> body]>>
                     ELSE <<>>,
         remaining |-> SubSeq(data, n + 1, Len(data))]

-----------------------------------------------------------------------------
(* The two ends of the connection. *)

\* The message that opens the conversation comes first. A writer that is
\* not eager goes on when the other end has reacted to it.
Write(m) ==
    /\ Len(sent) < MaxSent
    /\ reader # "loop" /\ sent = <<>> => m = Opening
    /\ eager \/ opened \/ sent = <<>>
    /\ sent' = Append(sent, m)
    /\ wire' = wire \o Encode(m)
    /\ UNCHANGED <<reader, eager, buffer, opened, at, got>>

\* Faulty variant: the buffer is replaced by what is read.
ReadReplaces ==
    /\ at = "reading"
    /\ \E n \in 1..Len(wire) :
          buffer' = SubSeq(wire, 1, n) /\ wire' = SubSeq(wire, n + 1, Len(wire))
    /\ at' = IF opened THEN "decoding" ELSE "opening"
    /\ UNCHANGED <<reader, eager, sent, opened, got>>

\* A read returns some of the bytes that have arrived.
Read ==
    /\ at = "reading"
    /\ \E n \in 1..Len(wire) :
          /\ buffer' = buffer \o SubSeq(wire, 1, n)
          /\ wire' = SubSeq(wire, n + 1, Len(wire))
    /\ at' = IF opened THEN "decoding" ELSE "opening"
    /\ UNCHANGED <<reader, eager, sent, opened, got>>

\* Faulty variant: decodes one message per read.
DecodeLoopOnce ==
    LET d == Decode(buffer) IN
    /\ at = "decoding"
    /\ buffer' = d.remaining /\ got' = got \o d.message
    /\ at' = "reading"
    /\ UNCHANGED <<reader, eager, sent, wire, opened>>

\* Faulty variant: the remaining bytes are not assigned.
DecodeLoopKeeps ==
    LET d == Decode(buffer) IN
    /\ at = "decoding"
    /\ got' = got \o d.message
    /\ at' = IF d.message = <<>> THEN "reading" ELSE at
    /\ UNCHANGED <<reader, eager, sent, wire, buffer, opened>>

\* One turn of the inner loop: it ends when decode returns no message.
DecodeLoop ==
    LET d == Decode(buffer) IN
    /\ at = "decoding"
    /\ buffer' = d.remaining /\ got' = got \o d.message
    /\ at' = IF d.message = <<>> THEN "reading" ELSE at
    /\ UNCHANGED <<reader, eager, sent, wire, opened>>

\* The same loop before "auth" is opened: other messages are only logged.
DecodeAuth ==
    LET d == Decode(buffer) IN
    /\ at = "opening" /\ reader = "auth"
    /\ buffer' = d.remaining
    /\ opened' = (opened \/ d.message = <<Opening>>)
    /\ got' = IF d.message = <<Opening>> THEN got \o d.message ELSE got
    /\ at' = IF d.message = <<>> THEN "reading" ELSE at
    /\ UNCHANGED <<reader, eager, sent, wire>>

\* One decode per read, of a buffer that is forgotten with the answer.
DecodeAnswer ==
    LET d == Decode(buffer) IN
    /\ at = "opening" /\ reader = "answer"
    /\ opened' = (d.message = <<Opening>>)
    /\ buffer' = IF opened' THEN <<>> ELSE d.remaining
    /\ got' = IF opened' THEN got \o d.message ELSE got
    /\ at' = "reading"
    /\ UNCHANGED <<reader, eager, sent, wire>>

Next ==
    \/ \E m \in Message : Write(m)
    \/ Read \/ DecodeLoop \/ DecodeAuth \/ DecodeAnswer

Spec == Init /\ [][Next]_vars

-----------------------------------------------------------------------------
(* Properties. *)

\* The case where bytes are lost: more than the answer came with the answer.
Handover == eager /\ reader = "answer"

Frames(messages) == FlattenSeq([i \in DOMAIN messages |-> Encode(messages[i])])

\* Whatever the pieces, the bytes not decoded yet are exactly the frames of the
\* last messages written: the reader stands at the start of a frame. Nothing is
\* skipped but what an eager writer sends behind DATA_AUTH.
FramesIntact ==
    \/ Handover
    \/ \E k \in Len(got)..Len(sent) :
          /\ buffer \o wire = Frames(SubSeq(sent, k + 1, Len(sent)))
          /\ k = Len(got) \/ (eager /\ reader = "auth")

\* A reader does not wait for more while it has a whole frame: a message is not
\* held back until the next one arrives.
NothingWaits == at = "reading" /\ ~Handover => Incomplete(buffer)

\* The messages got, by their numbers, where the writer waits for the answer to
\* its first message or nothing is waited for.
Numbers == [i \in DOMAIN got |-> IF i <= Len(sent) /\ got[i] = sent[i] THEN i ELSE 0]
Compared == ~eager \/ reader = "loop"

Channel == INSTANCE Pipe WITH
              Conns <- {"channel"},
              sent <- [c \in {"channel"} |-> IF Compared THEN Len(sent) ELSE 0],
              got <- [c \in {"channel"} |-> IF Compared THEN Numbers ELSE <<>>]

\* The channel the other modules assume: messages arrive in order, each once.
MessagesArePipe == Channel!Spec
=============================================================================
