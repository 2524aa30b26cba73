--------------------------- MODULE Framing_proofs ---------------------------
(***************************************************************************)
(* Proofs about the framing of messages, for any messages cut into any      *)
(* pieces. The invariant says that the buffer and the wire hold the frames   *)
(* of the last messages sent; DecodeFrame, that decode takes the first of    *)
(* them or leaves the buffer alone. What FlattenSeq computes is proved by    *)
(* induction in the form of a least counterexample.                          *)
(***************************************************************************)
EXTENDS Framing, SequenceTheorems, WellFoundedInduction, TLAPS

\* Where the reader is in the conversation.
PhaseInv ==
    /\ reader = "loop" \/ at = "decoding" => opened
    /\ at = "opening" => reader # "loop" /\ (reader = "answer" => ~opened)
    /\ ~opened => got = <<>>
    /\ ~eager /\ ~opened => Len(sent) <= 1
    /\ reader # "loop" /\ sent # <<>> => sent[1] = Opening

\* The messages from the k-th on, which have not been decoded.
Rest(k) == SubSeq(sent, k + 1, Len(sent))

\* The buffer and the wire hold the frames of the messages behind the k-th.
IntactAt(k) ==
    /\ buffer \o wire = Frames(Rest(k))
    /\ k = Len(got) \/ (eager /\ reader = "auth")

\* A writer that waited has nothing behind its first message; so the buffer is
\* empty in the loop that has found it.
QuietInv == at = "opening" /\ opened /\ ~eager => buffer = <<>>

\* What has been got are the first messages sent.
PrefixInv ==
    Compared => /\ Len(got) <= Len(sent)
                /\ \A i \in 1..Len(got) : got[i] = sent[i]

StreamInv ==
    ~Handover => /\ \E k \in Len(got)..Len(sent) : IntactAt(k)
                 /\ at = "reading" => Incomplete(buffer)
                 /\ QuietInv
                 /\ PrefixInv

IInv == TypeOK /\ PhaseInv /\ StreamInv

\* A set of naturals that is not empty has a least element: every induction
\* below is a proof that there is no least counterexample.
LEMMA Least ==
    ASSUME NEW T, T \subseteq Nat, T # {}
    PROVE  \E n \in T : \A m \in T : n <= m
  <1> DEFINE R == {ss \in Nat \X Nat : ss[1] < ss[2]}
  <1>1. IsWellFoundedOn(R, Nat)
    BY NatLessThanWellFounded DEF OpToRel
  <1>2. \A n, m \in Nat : <<m, n>> \notin R => n <= m
    OBVIOUS
  <1>3. \E n \in T : \A m \in T : <<m, n>> \notin R
    <2> HIDE DEF R
    <2> QED
      BY <1>1, WFMin
  <1> QED
    BY <1>2, <1>3

LEMMA Regrouped ==
    ASSUME NEW B
    PROVE  \A s, t, u \in Seq(B) : (s \o t) \o u = s \o (t \o u)
  BY ConcatAssociative

-----------------------------------------------------------------------------
(* Flattening a sequence of sequences. *)

\* What the recursive function in FlattenSeq computes for the first i of them.
Fronts(f, ss) ==
    f = [i \in 1..Len(ss) |-> IF i = 1 THEN ss[i] ELSE f[i - 1] \o ss[i]]

\* Its definition by recursion defines it.
LEMMA FrontsExist ==
    ASSUME NEW S, NEW ss \in Seq(S)
    PROVE  \E f : Fronts(f, ss)
  <1> DEFINE Good(n) ==
               \E f : f = [i \in 1..n |-> IF i = 1 THEN ss[i] ELSE f[i - 1] \o ss[i]]
             T == {n \in Nat : ~Good(n)}
  <1>1. ASSUME T # {} PROVE FALSE
    <2>1. PICK n \in T : \A m \in T : n <= m
      BY <1>1, Least
    <2>2. CASE n = 0
      <3>1. Good(0)
        <4> DEFINE g == [i \in 1..0 |-> 0]
        <4>1. g = [i \in 1..0 |-> IF i = 1 THEN ss[i] ELSE g[i - 1] \o ss[i]]
          OBVIOUS
        <4> QED
          BY <4>1
      <3> QED
        BY <2>1, <2>2, <3>1
    <2>3. CASE n # 0
      <3>1. n \in Nat /\ n - 1 \in Nat /\ Good(n - 1)
        <4>1. n \in Nat /\ n - 1 \in Nat
          BY <2>3
        <4>2. n - 1 \notin T
          <5> HIDE DEF T
          <5> QED
            BY <2>1, <4>1
        <4> HIDE DEF Good
        <4> QED
          BY <4>1, <4>2
      <3>2. PICK f : f = [i \in 1..n - 1 |-> IF i = 1 THEN ss[i] ELSE f[i - 1] \o ss[i]]
        BY <3>1
      <3> DEFINE g == [i \in 1..n |-> IF i = n THEN (IF n = 1 THEN ss[n] ELSE f[n - 1] \o ss[n])
                                              ELSE f[i]]
      <3>3. \A i \in 1..n - 1 : g[i] = f[i]
        BY <3>1
      <3>4. \A i \in 1..n : g[i] = IF i = 1 THEN ss[i] ELSE g[i - 1] \o ss[i]
        <4>1. SUFFICES ASSUME NEW i \in 1..n
                       PROVE  g[i] = IF i = 1 THEN ss[i] ELSE g[i - 1] \o ss[i]
          OBVIOUS
        <4>2. CASE i = n
          <5>1. CASE n = 1
            BY <4>2, <5>1
          <5>2. CASE n # 1
            <6>1. n - 1 \in 1..n - 1
              BY <3>1, <5>2
            <6>2. g[n - 1] = f[n - 1]
              BY <3>3, <6>1
            <6>3. g[n] = f[n - 1] \o ss[n]
              BY <4>2, <5>2
            <6> HIDE DEF g
            <6> QED
              BY <4>2, <5>2, <6>2, <6>3
          <5> QED
            BY <5>1, <5>2
        <4>3. CASE i # n
          <5>1. i \in 1..n - 1 /\ (i # 1 => i - 1 \in 1..n - 1)
            BY <3>1, <4>1, <4>3
          <5>2. g[i] = f[i] /\ (i # 1 => g[i - 1] = f[i - 1])
            BY <3>3, <5>1
          <5>3. f[i] = IF i = 1 THEN ss[i] ELSE f[i - 1] \o ss[i]
            BY <3>2, <5>1
          <5> HIDE DEF g
          <5> QED
            BY <5>2, <5>3
        <4> QED
          BY <4>2, <4>3
      <3>5. g = [i \in 1..n |-> IF i = 1 THEN ss[i] ELSE g[i - 1] \o ss[i]]
        <4> DEFINE h == [i \in 1..n |-> IF i = 1 THEN ss[i] ELSE g[i - 1] \o ss[i]]
        <4>1. DOMAIN g = 1..n /\ g = [i \in 1..n |-> g[i]]
          OBVIOUS
        <4> HIDE DEF g
        <4>2. \A i \in 1..n : g[i] = h[i]
          BY <3>4
        <4> QED
          BY <4>1, <4>2
      <3>6. Good(n)
        <4> HIDE DEF g
        <4> QED
          BY <3>5
      <3> QED
        BY <2>1, <3>6
    <2> QED
      BY <2>2, <2>3
  <1>2. Len(ss) \in Nat
    OBVIOUS
  <1>3. Good(Len(ss))
    <2> HIDE DEF Good
    <2> QED
      BY <1>1, <1>2
  <1> QED
    BY <1>3 DEF Fronts

\* Two of them agree as far as the sequences do.
LEMMA FrontsAgree ==
    ASSUME NEW s, NEW t, Len(s) \in Nat, Len(t) \in Nat,
           NEW f, NEW g, Fronts(f, s), Fronts(g, t),
           NEW k \in 1..Len(s), k <= Len(t),
           \A i \in 1..k : s[i] = t[i]
    PROVE  f[k] = g[k]
  <1> DEFINE T == {i \in 1..k : f[i] # g[i]}
  <1>1. T \subseteq Nat /\ Len(s) \in Nat /\ Len(t) \in Nat /\ k \in Nat
    OBVIOUS
  <1>2. ASSUME T # {} PROVE FALSE
    <2>1. PICK n \in T : \A m \in T : n <= m
      <3> HIDE DEF T
      <3> QED
        BY <1>1, <1>2, Least
    <2>2. n \in 1..k /\ n \in 1..Len(s) /\ n \in 1..Len(t) /\ f[n] # g[n]
      BY <1>1
    <2>3. /\ f[n] = IF n = 1 THEN s[n] ELSE f[n - 1] \o s[n]
          /\ g[n] = IF n = 1 THEN t[n] ELSE g[n - 1] \o t[n]
      BY <2>2 DEF Fronts
    <2>4. n # 1 => n - 1 \in 1..k /\ n - 1 \notin T
      BY <2>1, <2>2
    <2>5. n # 1 => f[n - 1] = g[n - 1]
      BY <2>4
    <2> QED
      BY <2>2, <2>3, <2>5
  <1> QED
    BY <1>1, <1>2

\* What FlattenSeq computes, from the last sequence on.
LEMMA FlattenAppend ==
    ASSUME NEW B, NEW ss \in Seq(Seq(B)), NEW s \in Seq(B)
    PROVE  FlattenSeq(Append(ss, s)) = IF ss = <<>> THEN s ELSE FlattenSeq(ss) \o s
  <1> DEFINE ts == Append(ss, s)
             n == Len(ss)
  <1>1. ts \in Seq(Seq(B)) /\ Len(ts) = n + 1 /\ n \in Nat /\ ts[n + 1] = s
    OBVIOUS
  <1>2. \A i \in 1..n : ts[i] = ss[i]
    OBVIOUS
  <1> HIDE DEF ts
  <1>3. PICK g : g = [i \in 1..Len(ts) |-> IF i = 1 THEN ts[i] ELSE g[i - 1] \o ts[i]]
               /\ FlattenSeq(ts) = g[n + 1]
    <2> DEFINE F == CHOOSE f : f = [i \in 1..Len(ts) |-> IF i = 1 THEN ts[i] ELSE f[i - 1] \o ts[i]]
    <2>1. \E f : f = [i \in 1..Len(ts) |-> IF i = 1 THEN ts[i] ELSE f[i - 1] \o ts[i]]
      BY <1>1, FrontsExist DEF Fronts
    <2>2. F = [i \in 1..Len(ts) |-> IF i = 1 THEN ts[i] ELSE F[i - 1] \o ts[i]]
      BY <2>1
    <2>3. FlattenSeq(ts) = F[Len(ts)]
      BY <1>1 DEF FlattenSeq
    <2> QED
      BY <1>1, <2>2, <2>3
  <1>4. n + 1 \in 1..Len(ts)
    BY <1>1
  <1>5. g[n + 1] = IF n + 1 = 1 THEN ts[n + 1] ELSE g[n] \o ts[n + 1]
    <2>1. \A i \in 1..Len(ts) : g[i] = IF i = 1 THEN ts[i] ELSE g[i - 1] \o ts[i]
      BY <1>3
    <2>2. n + 1 - 1 = n
      BY <1>1
    <2> HIDE DEF n
    <2> QED
      BY <1>1, <1>4, <2>1, <2>2
  <1>6. CASE ss = <<>>
    BY <1>1, <1>3, <1>5, <1>6 DEF ts
  <1>7. CASE ss # <<>>
    <2>1. n > 0
      BY <1>7
    <2>2. PICK f : f = [i \in 1..Len(ss) |-> IF i = 1 THEN ss[i] ELSE f[i - 1] \o ss[i]]
                 /\ FlattenSeq(ss) = f[n]
      <3> DEFINE F == CHOOSE f : f = [i \in 1..Len(ss) |-> IF i = 1 THEN ss[i] ELSE f[i - 1] \o ss[i]]
      <3>1. \E f : f = [i \in 1..Len(ss) |-> IF i = 1 THEN ss[i] ELSE f[i - 1] \o ss[i]]
        BY FrontsExist DEF Fronts
      <3>2. F = [i \in 1..Len(ss) |-> IF i = 1 THEN ss[i] ELSE F[i - 1] \o ss[i]]
        BY <3>1
      <3>3. FlattenSeq(ss) = F[n]
        BY <2>1 DEF FlattenSeq
      <3> QED
        BY <3>2, <3>3
    <2>3. Fronts(f, ss) /\ Fronts(g, ts)
      BY <1>3, <2>2 DEF Fronts
    <2>4. n \in 1..Len(ss) /\ n <= Len(ts)
      BY <1>1, <2>1
    <2>5. f[n] = g[n]
      <3>1. \A i \in 1..n : ss[i] = ts[i]
        BY <1>2
      <3>2. Len(ss) \in Nat /\ Len(ts) \in Nat
        BY <1>1
      <3> HIDE DEF n
      <3> QED
        BY <2>3, <2>4, <3>1, <3>2, FrontsAgree
    <2>6. FlattenSeq(ts) = FlattenSeq(ss) \o s
      <3>1. g[n + 1] = g[n] \o s
        BY <1>1, <1>5, <2>1
      <3> QED
        BY <1>3, <2>2, <2>5, <3>1
    <2> QED
      BY <1>7, <2>6 DEF ts
  <1> QED
    BY <1>6, <1>7

\* A sequence of sequences flattens to a sequence.
LEMMA FlattenType ==
    ASSUME NEW B
    PROVE  \A ss \in Seq(Seq(B)) : FlattenSeq(ss) \in Seq(B)
  <1> DEFINE Bad(n) == \E ss \in Seq(Seq(B)) : Len(ss) = n /\ FlattenSeq(ss) \notin Seq(B)
             T == {n \in Nat : Bad(n)}
  <1>1. ASSUME T # {} PROVE FALSE
    <2>1. PICK n \in T : \A m \in T : n <= m
      <3> HIDE DEF T
      <3>1. T \subseteq Nat
        BY DEF T
      <3> QED
        BY <1>1, <3>1, Least
    <2>2. PICK ss \in Seq(Seq(B)) : Len(ss) = n /\ FlattenSeq(ss) \notin Seq(B)
      OBVIOUS
    <2>3. ss # <<>>
      BY <2>2 DEF FlattenSeq
    <2>4. PICK rs \in Seq(Seq(B)), r \in Seq(B) : ss = Append(rs, r)
      BY <2>3, SequenceEmptyOrAppend
    <2>5. FlattenSeq(rs) \in Seq(B)
      <3>1. Len(rs) \in Nat /\ Len(rs) < n
        BY <2>2, <2>4
      <3>2. Len(rs) \notin T
        <4> HIDE DEF T
        <4>1. T \subseteq Nat
          BY DEF T
        <4> QED
          BY <2>1, <3>1, <4>1
      <3> QED
        BY <3>1, <3>2
    <2>6. FlattenSeq(ss) = IF rs = <<>> THEN r ELSE FlattenSeq(rs) \o r
      BY <2>4, FlattenAppend
    <2> QED
      BY <2>2, <2>4, <2>5, <2>6, ConcatProperties
  <1>2. \A ss \in Seq(Seq(B)) : Len(ss) \in Nat
    OBVIOUS
  <1>3. \A ss \in Seq(Seq(B)) : Len(ss) \notin T
    <2> HIDE DEF T
    <2> QED
      BY <1>1
  <1> QED
    BY <1>2, <1>3

\* What FlattenSeq computes, from the first sequence on.
LEMMA FlattenCons ==
    ASSUME NEW B, NEW s \in Seq(B)
    PROVE  \A ss \in Seq(Seq(B)) : FlattenSeq(<<s>> \o ss) = s \o FlattenSeq(ss)
  <1> DEFINE Bad(n) == \E ss \in Seq(Seq(B)) :
                          Len(ss) = n /\ FlattenSeq(<<s>> \o ss) # s \o FlattenSeq(ss)
             T == {n \in Nat : Bad(n)}
  <1>0. FlattenSeq(<<s>>) = s /\ FlattenSeq(<<>>) = <<>>
    <2>1. FlattenSeq(<<>>) = <<>>
      BY DEF FlattenSeq
    <2>2. <<>> \in Seq(Seq(B)) /\ Append(<<>>, s) = <<s>>
      OBVIOUS
    <2> QED
      BY <2>1, <2>2, FlattenAppend
  <1>1. ASSUME T # {} PROVE FALSE
    <2>1. PICK n \in T : \A m \in T : n <= m
      <3> HIDE DEF T
      <3>1. T \subseteq Nat
        BY DEF T
      <3> QED
        BY <1>1, <3>1, Least
    <2>2. PICK ss \in Seq(Seq(B)) : Len(ss) = n /\ FlattenSeq(<<s>> \o ss) # s \o FlattenSeq(ss)
      OBVIOUS
    <2>3. CASE ss = <<>>
      <3>1. <<s>> \o <<>> = <<s>> /\ s \o <<>> = s
        OBVIOUS
      <3> QED
        BY <1>0, <2>2, <2>3, <3>1
    <2>4. CASE ss # <<>>
      <3>1. PICK rs \in Seq(Seq(B)), r \in Seq(B) : ss = Append(rs, r)
        BY <2>4, SequenceEmptyOrAppend
      <3>2. FlattenSeq(<<s>> \o rs) = s \o FlattenSeq(rs)
        <4>1. Len(rs) \in Nat /\ Len(rs) < n
          BY <2>2, <3>1
        <4>2. Len(rs) \notin T
          <5> HIDE DEF T
          <5>1. T \subseteq Nat
            BY DEF T
          <5> QED
            BY <2>1, <4>1, <5>1
        <4> QED
          BY <4>1, <4>2
      <3>3. <<s>> \o rs \in Seq(Seq(B)) /\ <<s>> \o rs # <<>>
        OBVIOUS
      <3>4. <<s>> \o ss = Append(<<s>> \o rs, r)
        BY <3>1
      <3>5. FlattenSeq(<<s>> \o ss) = (s \o FlattenSeq(rs)) \o r
        <4> DEFINE u == <<s>> \o rs
        <4>1. u \in Seq(Seq(B)) /\ u # <<>>
          BY <3>3
        <4>2. FlattenSeq(u) = s \o FlattenSeq(rs) /\ <<s>> \o ss = Append(u, r)
          BY <3>2, <3>4
        <4> HIDE DEF u
        <4>3. FlattenSeq(Append(u, r)) = FlattenSeq(u) \o r
          BY <4>1, FlattenAppend
        <4> QED
          BY <4>2, <4>3
      <3>6. FlattenSeq(rs) \in Seq(B)
        BY FlattenType
      <3>7. FlattenSeq(ss) = FlattenSeq(rs) \o r
        <4>1. CASE rs = <<>>
          <5>1. <<>> \o r = r
            OBVIOUS
          <5> QED
            BY <1>0, <3>1, <4>1, <5>1, FlattenAppend
        <4>2. CASE rs # <<>>
          BY <3>1, <4>2, FlattenAppend
        <4> QED
          BY <4>1, <4>2
      <3>8. (s \o FlattenSeq(rs)) \o r = s \o (FlattenSeq(rs) \o r)
        BY <3>6, Regrouped
      <3> QED
        BY <2>2, <3>5, <3>7, <3>8
    <2> QED
      BY <2>3, <2>4
  <1>3. \A ss \in Seq(Seq(B)) : Len(ss) \in Nat
    OBVIOUS
  <1>4. \A ss \in Seq(Seq(B)) : Len(ss) \notin T
    <2> HIDE DEF T
    <2> QED
      BY <1>1
  <1> QED
    BY <1>3, <1>4

-----------------------------------------------------------------------------
(* Frames. *)

LEMMA MessageParts ==
    ASSUME NEW m \in Message
    PROVE  /\ m.code \in Nat /\ m.body \in Seq(Nat)
           /\ Readable(m.code, m.body)
           /\ m = [code |-> m.code, body |-> m.body]
  BY ConstantsAssumption DEF Message, Readable, ControlCode, DataCode, UuidSize

\* A frame is a header of three bytes and the body.
LEMMA EncodeParts ==
    ASSUME NEW m \in Message
    PROVE  /\ Encode(m) \in Seq(Nat)
           /\ Len(Encode(m)) = HeaderSize + Len(m.body)
           /\ Encode(m)[1] = Magic /\ Encode(m)[2] = m.code /\ Encode(m)[3] = Len(m.body)
           /\ \A i \in 1..Len(m.body) : Encode(m)[HeaderSize + i] = m.body[i]
  <1> DEFINE h == <<Magic, m.code, Len(m.body)>>
  <1>1. m.code \in Nat /\ m.body \in Seq(Nat) /\ Len(m.body) \in Nat
    BY MessageParts
  <1>2. h \in Seq(Nat) /\ Len(h) = 3 /\ h[1] = Magic /\ h[2] = m.code /\ h[3] = Len(m.body)
    BY <1>1, ConstantsAssumption
  <1>3. Encode(m) = h \o m.body
    BY DEF Encode
  <1> HIDE DEF h
  <1>4. /\ h \o m.body \in Seq(Nat)
        /\ Len(h \o m.body) = 3 + Len(m.body)
        /\ \A i \in 1..3 + Len(m.body) :
              (h \o m.body)[i] = IF i <= 3 THEN h[i] ELSE m.body[i - 3]
    <2> DEFINE b == m.body
    <2>1. b \in Seq(Nat) /\ b = m.body
      BY <1>1
    <2> HIDE DEF b
    <2>2. /\ h \o b \in Seq(Nat)
          /\ Len(h \o b) = Len(h) + Len(b)
          /\ \A i \in 1..Len(h) + Len(b) :
                (h \o b)[i] = IF i <= Len(h) THEN h[i] ELSE b[i - Len(h)]
      BY <1>2, <2>1, ConcatProperties
    <2>3. Len(h) = 3
      BY <1>2
    <2> QED
      BY <2>1, <2>2, <2>3
  <1>5. /\ 1 \in 1..3 + Len(m.body) /\ 2 \in 1..3 + Len(m.body) /\ 3 \in 1..3 + Len(m.body)
        /\ \A i \in 1..Len(m.body) :
              3 + i \in 1..3 + Len(m.body) /\ ~(3 + i <= 3) /\ (3 + i) - 3 = i
    BY <1>1
  <1> QED
    BY <1>2, <1>3, <1>4, <1>5 DEF HeaderSize

LEMMA ConcatBytes ==
    ASSUME NEW s \in Seq(Nat), NEW t \in Seq(Nat), NEW u \in Seq(Nat)
    PROVE  (s \o t) \o u = s \o (t \o u)
  BY Regrouped

LEMMA FramesEmpty == Frames(<<>>) = <<>>
  <1>1. [i \in DOMAIN <<>> |-> Encode(<<>>[i])] = <<>>
    OBVIOUS
  <1> QED
    BY <1>1 DEF Frames, FlattenSeq

LEMMA EncodedType ==
    ASSUME NEW ms \in Seq(Message)
    PROVE  [i \in DOMAIN ms |-> Encode(ms[i])] \in Seq(Seq(Nat))
  <1> DEFINE S == Seq(Nat)
             es == [i \in DOMAIN ms |-> Encode(ms[i])]
  <1>1. DOMAIN ms = 1..Len(ms) /\ Len(ms) \in Nat /\ \A i \in 1..Len(ms) : ms[i] \in Message
    OBVIOUS
  <1>2. \A m \in Message : Encode(m) \in S
    BY EncodeParts
  <1> HIDE DEF S
  <1>3. es \in [1..Len(ms) -> S]
    BY <1>1, <1>2
  <1> HIDE DEF es
  <1>4. es \in Seq(S)
    BY <1>1, <1>3, SeqDef
  <1> QED
    BY <1>4 DEF S, es

LEMMA FramesType ==
    ASSUME NEW ms \in Seq(Message)
    PROVE  Frames(ms) \in Seq(Nat)
  BY EncodedType, FlattenType DEF Frames

LEMMA FramesAppend ==
    ASSUME NEW ms \in Seq(Message), NEW m \in Message
    PROVE  Frames(Append(ms, m)) = Frames(ms) \o Encode(m)
  <1> DEFINE es == [i \in DOMAIN ms |-> Encode(ms[i])]
             fs == [i \in DOMAIN Append(ms, m) |-> Encode(Append(ms, m)[i])]
  <1>1. es \in Seq(Seq(Nat)) /\ Encode(m) \in Seq(Nat) /\ Len(es) = Len(ms)
    <2>1. es \in Seq(Seq(Nat))
      BY EncodedType
    <2>2. Encode(m) \in Seq(Nat)
      BY EncodeParts
    <2>3. Len(es) = Len(ms)
      OBVIOUS
    <2> QED
      BY <2>1, <2>2, <2>3
  <1>2. fs = Append(es, Encode(m))
    <2>1. fs \in Seq(Seq(Nat)) /\ Len(fs) = Len(ms) + 1
      BY EncodeParts
    <2>2. Append(es, Encode(m)) \in Seq(Seq(Nat)) /\ Len(Append(es, Encode(m))) = Len(ms) + 1
      BY <1>1, AppendProperties
    <2>3. \A i \in 1..Len(ms) + 1 : fs[i] = Append(es, Encode(m))[i]
      OBVIOUS
    <2> HIDE DEF fs, es
    <2> QED
      BY <2>1, <2>2, <2>3, SeqEqual
  <1>3. FlattenSeq(fs) = FlattenSeq(es) \o Encode(m)
    <2> HIDE DEF es, fs
    <2>1. CASE es = <<>>
      <3>1. FlattenSeq(es) = <<>>
        BY <2>1 DEF FlattenSeq
      <3>2. <<>> \o Encode(m) = Encode(m)
        BY <1>1
      <3> QED
        BY <1>1, <1>2, <2>1, <3>1, <3>2, FlattenAppend
    <2>2. CASE es # <<>>
      BY <1>1, <1>2, <2>2, FlattenAppend
    <2> QED
      BY <2>1, <2>2
  <1> QED
    BY <1>3 DEF Frames

LEMMA FramesCons ==
    ASSUME NEW ms \in Seq(Message), ms # <<>>
    PROVE  Frames(ms) = Encode(Head(ms)) \o Frames(Tail(ms))
  <1> DEFINE m == Head(ms)
             ts == Tail(ms)
             es == [i \in DOMAIN ts |-> Encode(ts[i])]
             fs == [i \in DOMAIN ms |-> Encode(ms[i])]
  <1>1. m \in Message /\ ts \in Seq(Message)
    OBVIOUS
  <1>2. es \in Seq(Seq(Nat)) /\ Encode(m) \in Seq(Nat) /\ Len(es) = Len(ms) - 1
    BY <1>1, EncodeParts
  <1>3. fs = <<Encode(m)>> \o es
    <2>1. fs \in Seq(Seq(Nat)) /\ Len(fs) = Len(ms)
      <3>1. fs \in Seq(Seq(Nat))
        BY EncodedType
      <3>2. Len(fs) = Len(ms)
        OBVIOUS
      <3> QED
        BY <3>1, <3>2
    <2>2. <<Encode(m)>> \in Seq(Seq(Nat)) /\ Len(<<Encode(m)>>) = 1
      BY <1>2
    <2>3. \A i \in 1..Len(ms) : fs[i] = IF i <= 1 THEN Encode(m) ELSE es[i - 1]
      OBVIOUS
    <2>4. /\ <<Encode(m)>> \o es \in Seq(Seq(Nat))
          /\ Len(<<Encode(m)>> \o es) = Len(ms)
          /\ \A i \in 1..Len(ms) : (<<Encode(m)>> \o es)[i] =
                IF i <= 1 THEN Encode(m) ELSE es[i - 1]
      <3> HIDE DEF es
      <3> QED
        BY <1>2, <2>2, ConcatProperties
    <2> HIDE DEF fs, es
    <2> QED
      BY <2>1, <2>3, <2>4, SeqEqual
  <1>4. FlattenSeq(<<Encode(m)>> \o es) = Encode(m) \o FlattenSeq(es)
    <2> HIDE DEF es
    <2> QED
      BY <1>2, FlattenCons
  <1> QED
    BY <1>3, <1>4 DEF Frames

\* Where two sequences are cut in two, and the first cut may be the later one.
LEMMA CutAgree ==
    ASSUME NEW B, NEW a \in Seq(B), NEW b \in Seq(B), NEW f \in Seq(B), NEW g \in Seq(B),
           a \o b = f \o g
    PROVE  /\ Len(a) + Len(b) = Len(f) + Len(g)
           /\ \A i \in 1..Len(f) + Len(g) : (IF i <= Len(a) THEN a[i] ELSE b[i - Len(a)])
                                        = (IF i <= Len(f) THEN f[i] ELSE g[i - Len(f)])
           /\ \A i \in 1..Len(a) : i <= Len(f) => a[i] = f[i]
  <1>1. /\ Len(a) \in Nat /\ Len(b) \in Nat /\ Len(f) \in Nat /\ Len(g) \in Nat
    OBVIOUS
  <1>2. /\ Len(a \o b) = Len(a) + Len(b)
        /\ \A i \in 1..Len(a) + Len(b) :
              (a \o b)[i] = IF i <= Len(a) THEN a[i] ELSE b[i - Len(a)]
    BY ConcatProperties
  <1>3. /\ Len(f \o g) = Len(f) + Len(g)
        /\ \A i \in 1..Len(f) + Len(g) :
              (f \o g)[i] = IF i <= Len(f) THEN f[i] ELSE g[i - Len(f)]
    BY ConcatProperties
  <1>4. Len(a) + Len(b) = Len(f) + Len(g)
    BY <1>2, <1>3
  <1>5. \A i \in 1..Len(f) + Len(g) : (IF i <= Len(a) THEN a[i] ELSE b[i - Len(a)])
                                     = (IF i <= Len(f) THEN f[i] ELSE g[i - Len(f)])
    BY <1>2, <1>3, <1>4
  <1>6. \A i \in 1..Len(a) : i <= Len(f) => a[i] = f[i]
    BY <1>1, <1>4, <1>5
  <1> QED
    BY <1>4, <1>5, <1>6

LEMMA CutRest ==
    ASSUME NEW B, NEW a \in Seq(B), NEW b \in Seq(B), NEW f \in Seq(B), NEW g \in Seq(B),
           a \o b = f \o g, Len(f) <= Len(a)
    PROVE  /\ SubSeq(a, Len(f) + 1, Len(a)) \in Seq(B)
           /\ SubSeq(a, Len(f) + 1, Len(a)) \o b = g
  <1>1. /\ Len(a) \in Nat /\ Len(b) \in Nat /\ Len(f) \in Nat /\ Len(g) \in Nat
    OBVIOUS
  <1>2. Len(a) + Len(b) = Len(f) + Len(g)
    BY CutAgree
  <1>3. \A i \in 1..Len(f) + Len(g) : (IF i <= Len(a) THEN a[i] ELSE b[i - Len(a)])
                                     = (IF i <= Len(f) THEN f[i] ELSE g[i - Len(f)])
    BY CutAgree
  <1> DEFINE r == SubSeq(a, Len(f) + 1, Len(a))
  <1>4. /\ r \in Seq(B)
        /\ Len(r) = Len(a) - Len(f)
        /\ \A i \in 1..Len(a) - Len(f) : r[i] = a[Len(f) + i]
    BY <1>1
  <1> HIDE DEF r
  <1>5. /\ r \o b \in Seq(B)
        /\ Len(r \o b) = Len(r) + Len(b)
        /\ \A i \in 1..Len(r) + Len(b) :
              (r \o b)[i] = IF i <= Len(r) THEN r[i] ELSE b[i - Len(r)]
    BY <1>4, ConcatProperties
  <1>6. Len(r \o b) = Len(g)
    BY <1>1, <1>2, <1>4, <1>5
  <1>7. \A i \in 1..Len(g) : (r \o b)[i] = g[i]
    <2>1. SUFFICES ASSUME NEW i \in 1..Len(g)
                   PROVE  (r \o b)[i] = g[i]
      OBVIOUS
    <2>2. /\ Len(f) + i \in 1..Len(f) + Len(g) /\ ~(Len(f) + i <= Len(f))
          /\ Len(f) + i - Len(f) = i
          /\ i \in 1..Len(r) + Len(b)
      BY <1>1, <1>2, <1>4
    <2>3. g[i] = IF Len(f) + i <= Len(a) THEN a[Len(f) + i] ELSE b[Len(f) + i - Len(a)]
      <3> DEFINE j == Len(f) + i
      <3>1. j \in 1..Len(f) + Len(g) /\ ~(j <= Len(f)) /\ j - Len(f) = i
        BY <2>2
      <3> HIDE DEF j
      <3>2. (IF j <= Len(a) THEN a[j] ELSE b[j - Len(a)]) = g[j - Len(f)]
        BY <1>3, <3>1
      <3> QED
        BY <3>1, <3>2 DEF j
    <2>4. CASE i <= Len(r)
      <3>1. i \in 1..Len(a) - Len(f) /\ Len(f) + i <= Len(a)
        BY <1>1, <1>4, <2>4
      <3> QED
        BY <1>4, <1>5, <2>2, <2>3, <2>4, <3>1
    <2>5. CASE ~(i <= Len(r))
      <3>1. ~(Len(f) + i <= Len(a)) /\ Len(f) + i - Len(a) = i - Len(r)
        BY <1>1, <1>4, <2>5
      <3> QED
        BY <1>5, <2>2, <2>3, <2>5, <3>1
    <2> QED
      BY <2>4, <2>5
  <1>8. r \o b = g
    <2> DEFINE u == r \o b
    <2>1. u \in Seq(B) /\ Len(u) = Len(g) /\ \A i \in 1..Len(u) : u[i] = g[i]
      BY <1>5, <1>6, <1>7
    <2> HIDE DEF u
    <2>2. u = g
      BY <2>1, SeqEqual
    <2> QED
      BY <2>2 DEF u
  <1> QED
    BY <1>4, <1>8 DEF r

\* A buffer that stands at the start of a frame: it is decoded to the message of
\* that frame, or holds no whole frame and is left alone.
LEMMA DecodeFrame ==
    ASSUME NEW ms \in Seq(Message), NEW data \in Seq(Nat), NEW rest \in Seq(Nat),
           data \o rest = Frames(ms)
    PROVE  \/ Incomplete(data) /\ Decode(data) = [message |-> <<>>, remaining |-> data]
           \/ /\ ~Incomplete(data) /\ ms # <<>>
              /\ Decode(data).message = <<Head(ms)>>
              /\ Decode(data).remaining \in Seq(Nat)
              /\ Decode(data).remaining \o rest = Frames(Tail(ms))
  <1>1. CASE Incomplete(data)
    <2>1. Taken(data) = 0
      BY <1>1 DEF Taken
    <2>2. SubSeq(data, 1, Len(data)) = data
      BY SubSeqFull
    <2>3. Decode(data) = [message |-> <<>>, remaining |-> SubSeq(data, 0 + 1, Len(data))]
      BY <2>1 DEF Decode, HeaderSize
    <2> QED
      BY <1>1, <2>2, <2>3
  <1>2. CASE ~Incomplete(data)
    <2>1. Len(data) \in Nat /\ Len(data) >= 3
      BY <1>2 DEF Incomplete, HeaderSize
    <2>2. ms # <<>>
      <3>1. ms = <<>> => data \o rest = <<>>
        BY FramesEmpty
      <3>2. data \o rest = <<>> => data = <<>>
        BY ConcatEqualIffEmpty
      <3> QED
        BY <2>1, <3>1, <3>2
    <2> DEFINE m == Head(ms)
               f == Encode(m)
               g == Frames(Tail(ms))
               b == m.body
    <2>3. m \in Message /\ f \in Seq(Nat) /\ g \in Seq(Nat) /\ b \in Seq(Nat)
      <3>1. m \in Message /\ Tail(ms) \in Seq(Message)
        BY <2>2
      <3> HIDE DEF m
      <3> QED
        BY <3>1, EncodeParts, FramesType, MessageParts
    <2>4. data \o rest = f \o g
      BY <2>2, FramesCons
    <2>5. /\ Len(f) = 3 + Len(b) /\ f[1] = Magic /\ f[2] = m.code /\ f[3] = Len(b)
          /\ \A i \in 1..Len(b) : f[3 + i] = b[i]
      <3> HIDE DEF m
      <3> QED
        BY <2>3, EncodeParts DEF HeaderSize
    <2>6. m = [code |-> m.code, body |-> b] /\ Readable(m.code, b)
      <3> HIDE DEF m
      <3> QED
        BY <2>3, MessageParts
    <2> HIDE DEF m, f, g, b
    <2>7. Len(b) \in Nat /\ Len(f) \in Nat
      BY <2>3
    <2>8. \A i \in 1..Len(data) : i <= Len(f) => data[i] = f[i]
      BY <2>3, <2>4, CutAgree
    <2>9. data[1] = Magic /\ data[2] = m.code /\ data[3] = Len(b)
      <3>1. /\ 1 \in 1..Len(data) /\ 2 \in 1..Len(data) /\ 3 \in 1..Len(data)
            /\ 1 <= Len(f) /\ 2 <= Len(f) /\ 3 <= Len(f)
        BY <2>1, <2>5, <2>7
      <3> QED
        BY <2>5, <2>8, <3>1
    <2>10. Taken(data) = Len(f) /\ Len(f) <= Len(data)
      BY <1>2, <2>1, <2>5, <2>7, <2>9 DEF Taken, Incomplete, HeaderSize
    <2>11. SubSeq(data, 4, Len(f)) = b
      <3> DEFINE s == SubSeq(data, 4, Len(f))
      <3>1. s \in Seq(Nat) /\ Len(s) = Len(b) /\ \A i \in 1..Len(b) : s[i] = data[3 + i]
        BY <2>1, <2>5, <2>7, <2>10
      <3>2. \A i \in 1..Len(b) : s[i] = b[i]
        <4>1. SUFFICES ASSUME NEW i \in 1..Len(b) PROVE s[i] = b[i]
          OBVIOUS
        <4>2. 3 + i \in 1..Len(data) /\ 3 + i <= Len(f)
          BY <2>1, <2>5, <2>7, <2>10
        <4>3. data[3 + i] = f[3 + i] /\ f[3 + i] = b[i]
          BY <2>5, <2>8, <4>2
        <4> HIDE DEF s
        <4> QED
          BY <3>1, <4>3
      <3> HIDE DEF s
      <3>3. s = b
        BY <2>3, <3>1, <3>2, SeqEqual
      <3> QED
        BY <3>3 DEF s
    <2>12. /\ Decode(data).message = <<m>>
           /\ Decode(data).remaining = SubSeq(data, Len(f) + 1, Len(data))
      <3>1. Decode(data) =
              [message |-> IF Len(f) >= 3 /\ Readable(m.code, SubSeq(data, 3 + 1, Len(f)))
                           THEN <<[code |-> m.code, body |-> SubSeq(data, 3 + 1, Len(f))]>>
                           ELSE <<>>,
               remaining |-> SubSeq(data, Len(f) + 1, Len(data))]
        BY <2>9, <2>10 DEF Decode, HeaderSize
      <3>2. SubSeq(data, 3 + 1, Len(f)) = b /\ Len(f) >= 3
        BY <2>5, <2>7, <2>11
      <3>3. Decode(data) = [message |-> IF Len(f) >= 3 /\ Readable(m.code, b)
                                        THEN <<[code |-> m.code, body |-> b]>>
                                        ELSE <<>>,
                            remaining |-> SubSeq(data, Len(f) + 1, Len(data))]
        BY <3>1, <3>2
      <3>4. Decode(data) = [message |-> <<m>>,
                            remaining |-> SubSeq(data, Len(f) + 1, Len(data))]
        BY <2>6, <3>2, <3>3, Zenon
      <3> QED
        BY <3>4
    <2>13. /\ SubSeq(data, Len(f) + 1, Len(data)) \in Seq(Nat)
           /\ SubSeq(data, Len(f) + 1, Len(data)) \o rest = g
      <3>1. Len(f) <= Len(data)
        BY <2>10
      <3> QED
        BY <2>3, <2>4, <3>1, CutRest
    <2> QED
      BY <1>2, <2>2, <2>12, <2>13 DEF m, g
  <1> QED
    BY <1>1, <1>2

\* What decode returns of any buffer.
LEMMA DecodeType ==
    ASSUME NEW data \in Seq(Nat)
    PROVE  /\ Decode(data).remaining \in Seq(Nat)
           /\ \/ Decode(data).message = <<>>
              \/ \E m \in Decoded : Decode(data).message = <<m>>
  <1> DEFINE n == Taken(data)
             b == SubSeq(data, 3 + 1, n)
  <1>1. /\ Len(data) \in Nat /\ n \in Nat /\ n <= Len(data)
        /\ n >= 3 => data[2] \in Nat
    BY DEF Taken, Incomplete, HeaderSize
  <1>2. /\ Decode(data).remaining = SubSeq(data, n + 1, Len(data))
        /\ Decode(data).message = IF n >= 3 /\ Readable(data[2], b)
                                  THEN <<[code |-> data[2], body |-> b]>>
                                  ELSE <<>>
    BY DEF Decode, HeaderSize
  <1> HIDE DEF n
  <1>3. SubSeq(data, n + 1, Len(data)) \in Seq(Nat) /\ b \in Seq(Nat)
    BY <1>1
  <1> HIDE DEF b
  <1>4. Readable(data[2], b) => [code |-> data[2], body |-> b] \in Decoded
    BY <1>3 DEF Readable, Decoded
  <1> QED
    BY <1>2, <1>3, <1>4

LEMMA MessageDecoded == Message \subseteq Decoded
  BY ConstantsAssumption DEF Message, Decoded

LEMMA SuffixAppend ==
    ASSUME NEW S, NEW s \in Seq(S), NEW e \in S, NEW k \in 0..Len(s)
    PROVE  /\ SubSeq(s, k + 1, Len(s)) \in Seq(S)
           /\ SubSeq(Append(s, e), k + 1, Len(s) + 1) = Append(SubSeq(s, k + 1, Len(s)), e)
  <1> DEFINE t == Append(s, e)
             u == SubSeq(s, k + 1, Len(s))
             v == SubSeq(t, k + 1, Len(s) + 1)
  <1>1. /\ Len(s) \in Nat /\ t \in Seq(S) /\ Len(t) = Len(s) + 1
        /\ t[Len(s) + 1] = e /\ \A i \in 1..Len(s) : t[i] = s[i]
    OBVIOUS
  <1>2. u \in Seq(S) /\ Len(u) = Len(s) - k /\ \A i \in 1..Len(u) : u[i] = s[k + i]
    BY <1>1
  <1> HIDE DEF t, u
  <1>3. v \in Seq(S) /\ Len(v) = Len(s) - k + 1 /\ \A i \in 1..Len(v) : v[i] = t[k + i]
    BY <1>1
  <1> HIDE DEF v
  <1>4. /\ Append(u, e) \in Seq(S) /\ Len(Append(u, e)) = Len(u) + 1
        /\ \A i \in 1..Len(u) : Append(u, e)[i] = u[i]
        /\ Append(u, e)[Len(u) + 1] = e
    BY <1>2
  <1>5. \A i \in 1..Len(v) : v[i] = Append(u, e)[i]
    <2>1. SUFFICES ASSUME NEW i \in 1..Len(v) PROVE v[i] = Append(u, e)[i]
      OBVIOUS
    <2>2. CASE i <= Len(u)
      <3>1. i \in 1..Len(u) /\ k + i \in 1..Len(s)
        BY <1>1, <1>2, <2>2
      <3> QED
        BY <1>1, <1>2, <1>3, <1>4, <3>1
    <2>3. CASE ~(i <= Len(u))
      <3>1. i = Len(u) + 1 /\ k + i = Len(s) + 1
        <4>1. Len(s) \in Nat /\ Len(u) = Len(s) - k /\ Len(v) = Len(s) - k + 1
          BY <1>1, <1>2, <1>3
        <4> QED
          BY <2>3, <4>1
      <3> QED
        BY <1>1, <1>3, <1>4, <3>1
    <2> QED
      BY <2>2, <2>3
  <1>6. v = Append(u, e)
    <2> DEFINE w == Append(u, e)
    <2>1. w \in Seq(S) /\ Len(w) = Len(v) /\ \A i \in 1..Len(v) : v[i] = w[i]
      BY <1>2, <1>3, <1>4, <1>5
    <2> HIDE DEF w
    <2>2. v = w
      BY <1>3, <2>1, SeqEqual
    <2> QED
      BY <2>2 DEF w
  <1> QED
    BY <1>2, <1>6 DEF t, u, v

LEMMA SuffixTail ==
    ASSUME NEW S, NEW s \in Seq(S), NEW k \in 0..Len(s), SubSeq(s, k + 1, Len(s)) # <<>>
    PROVE  /\ k + 1 \in 1..Len(s)
           /\ Head(SubSeq(s, k + 1, Len(s))) = s[k + 1]
           /\ Tail(SubSeq(s, k + 1, Len(s))) = SubSeq(s, k + 1 + 1, Len(s))
  <1>1. Len(s) \in Nat
    OBVIOUS
  <1>2. k + 1 \in 1..Len(s)
    BY <1>1, SubSeqEmpty
  <1>3. Len(s) \in k + 1..Len(s)
    BY <1>1, <1>2
  <1> QED
    BY <1>2, <1>3, HeadTailOfSubSeq

-----------------------------------------------------------------------------
(* Types and invariant. *)

LEMMA InitInv == Init => IInv
  <1> SUFFICES ASSUME Init PROVE IInv
    OBVIOUS
  <1>1. sent = <<>> /\ wire = <<>> /\ buffer = <<>> /\ got = <<>> /\ at = "reading"
    BY DEF Init
  <1>2. TypeOK
    BY <1>1, ConstantsAssumption DEF Init, TypeOK
  <1>3. PhaseInv
    <2>1. reader = "loop" => opened
      BY DEF Init
    <2>2. Len(sent) <= 1
      BY <1>1
    <2> QED
      BY <1>1, <2>1, <2>2 DEF PhaseInv
  <1>4. 0 \in Len(got)..Len(sent) /\ IntactAt(0)
    <2>1. Rest(0) = <<>> /\ buffer \o wire = <<>> /\ Len(got) = 0 /\ Len(sent) = 0
      BY <1>1 DEF Rest
    <2> QED
      BY <2>1, FramesEmpty DEF IntactAt
  <1>5. Incomplete(buffer)
    BY <1>1 DEF Incomplete, HeaderSize
  <1>6. PrefixInv
    BY <1>1 DEF PrefixInv
  <1> QED
    BY <1>1, <1>2, <1>3, <1>4, <1>5, <1>6 DEF IInv, StreamInv, QuietInv

LEMMA NextType == TypeOK /\ [Next]_vars => TypeOK'
  <1> SUFFICES ASSUME TypeOK, [Next]_vars PROVE TypeOK'
    OBVIOUS
  <1>1. ASSUME NEW m \in Message, Write(m) PROVE TypeOK'
    <2>1. wire \o Encode(m) \in Seq(Nat)
      BY EncodeParts, ConcatProperties DEF TypeOK
    <2>2. Append(sent, m) \in Seq(Message) /\ Len(Append(sent, m)) <= MaxSent
      BY <1>1, ConstantsAssumption DEF Write, TypeOK
    <2> QED
      BY <1>1, <2>1, <2>2 DEF Write, TypeOK
  <1>2. ASSUME Read PROVE TypeOK'
    <2>1. PICK n \in 1..Len(wire) :
             buffer' = buffer \o SubSeq(wire, 1, n) /\ wire' = SubSeq(wire, n + 1, Len(wire))
      BY <1>2 DEF Read
    <2>2. SubSeq(wire, 1, n) \in Seq(Nat) /\ SubSeq(wire, n + 1, Len(wire)) \in Seq(Nat)
      BY DEF TypeOK
    <2>3. buffer \o SubSeq(wire, 1, n) \in Seq(Nat)
      BY <2>2, ConcatProperties DEF TypeOK
    <2> QED
      BY <1>2, <2>1, <2>2, <2>3 DEF Read, TypeOK
  <1> DEFINE d == Decode(buffer)
  <1>3. /\ d.remaining \in Seq(Nat)
        /\ d.message = <<>> \/ \E m \in Decoded : d.message = <<m>>
    BY DecodeType DEF TypeOK
  <1>4. got \o d.message \in Seq(Decoded)
    <2>1. d.message \in Seq(Decoded)
      <3>1. ASSUME NEW m \in Decoded PROVE <<m>> \in Seq(Decoded)
        OBVIOUS
      <3>2. <<>> \in Seq(Decoded)
        OBVIOUS
      <3> HIDE DEF d
      <3> QED
        BY <1>3, <3>1, <3>2
    <2> QED
      BY <2>1, ConcatProperties DEF TypeOK
  <1> HIDE DEF d
  <1>5. ASSUME DecodeLoop PROVE TypeOK'
    BY <1>3, <1>4, <1>5 DEF DecodeLoop, TypeOK, d
  <1>6. ASSUME DecodeAuth PROVE TypeOK'
    BY <1>3, <1>4, <1>6 DEF DecodeAuth, TypeOK, d
  <1>7. ASSUME DecodeAnswer PROVE TypeOK'
    BY <1>3, <1>4, <1>7 DEF DecodeAnswer, TypeOK, d
  <1>8. CASE UNCHANGED vars
    BY <1>8 DEF vars, TypeOK
  <1> QED
    BY <1>1, <1>2, <1>5, <1>6, <1>7, <1>8 DEF Next

\* "opened" is set before anything is got, and a writer that waits does not send
\* a second message until then.
LEMMA PhaseStep == TypeOK /\ PhaseInv /\ StreamInv /\ [Next]_vars => PhaseInv'
  <1> SUFFICES ASSUME TypeOK, PhaseInv, StreamInv, [Next]_vars PROVE PhaseInv'
    OBVIOUS
  <1>1. ASSUME NEW m \in Message, Write(m) PROVE PhaseInv'
    <2>1. /\ sent = <<>> => Len(sent') = 1 /\ sent'[1] = m
          /\ sent # <<>> => sent'[1] = sent[1]
      <3>1. sent \in Seq(Message) /\ sent' = Append(sent, m)
        BY <1>1 DEF Write, TypeOK
      <3>2. sent # <<>> => 1 \in 1..Len(sent)
        BY <3>1
      <3>3. sent = <<>> => Len(sent) = 0
        OBVIOUS
      <3> QED
        BY <3>1, <3>2, <3>3, AppendProperties
    <2>2. ~eager /\ ~opened => Len(sent') <= 1
      BY <1>1, <2>1 DEF Write
    <2> QED
      BY <1>1, <2>1, <2>2 DEF Write, PhaseInv
  <1>2. ASSUME Read PROVE PhaseInv'
    BY <1>2 DEF Read, PhaseInv, TypeOK
  <1>3. ASSUME DecodeLoop PROVE PhaseInv'
    BY <1>3 DEF DecodeLoop, PhaseInv, TypeOK
  <1>4. ASSUME DecodeAuth PROVE PhaseInv'
    BY <1>4 DEF DecodeAuth, PhaseInv, TypeOK
  <1>5. ASSUME DecodeAnswer PROVE PhaseInv'
    BY <1>5 DEF DecodeAnswer, PhaseInv, TypeOK
  <1>6. CASE UNCHANGED vars
    BY <1>6 DEF vars, PhaseInv
  <1> QED
    BY <1>1, <1>2, <1>3, <1>4, <1>5, <1>6 DEF Next

\* What decode makes of the buffer.
LEMMA Turn ==
    ASSUME TypeOK, NEW k \in Len(got)..Len(sent), IntactAt(k)
    PROVE  \/ /\ Incomplete(buffer)
              /\ Decode(buffer).message = <<>> /\ Decode(buffer).remaining = buffer
           \/ /\ ~Incomplete(buffer) /\ k + 1 \in 1..Len(sent)
              /\ Decode(buffer).message = <<sent[k + 1]>>
              /\ Decode(buffer).remaining \o wire = Frames(Rest(k + 1))
  <1>1. /\ sent \in Seq(Message) /\ got \in Seq(Decoded)
        /\ buffer \in Seq(Nat) /\ wire \in Seq(Nat)
    BY DEF TypeOK
  <1>2. k \in 0..Len(sent)
    BY <1>1
  <1>3. Rest(k) \in Seq(Message)
    BY <1>1, <1>2 DEF Rest
  <1>4. buffer \o wire = Frames(Rest(k))
    BY DEF IntactAt
  <1>5. Rest(k) # <<>> => /\ k + 1 \in 1..Len(sent)
                          /\ Head(Rest(k)) = sent[k + 1]
                          /\ Tail(Rest(k)) = Rest(k + 1)
    BY <1>1, <1>2, SuffixTail DEF Rest
  <1>6. \/ /\ Incomplete(buffer)
           /\ Decode(buffer) = [message |-> <<>>, remaining |-> buffer]
        \/ /\ ~Incomplete(buffer) /\ Rest(k) # <<>>
           /\ Decode(buffer).message = <<Head(Rest(k))>>
           /\ Decode(buffer).remaining \o wire = Frames(Tail(Rest(k)))
    BY <1>1, <1>3, <1>4, DecodeFrame
  <1>7. CASE Incomplete(buffer)
    BY <1>6, <1>7
  <1>8. CASE ~Incomplete(buffer)
    BY <1>5, <1>6, <1>8
  <1> QED
    BY <1>7, <1>8

LEMMA WriteStream ==
    ASSUME TypeOK, StreamInv, NEW m \in Message, Write(m)
    PROVE  StreamInv'
  <1>1. /\ sent \in Seq(Message) /\ got \in Seq(Decoded)
        /\ buffer \in Seq(Nat) /\ wire \in Seq(Nat)
    BY DEF TypeOK
  <1>2. /\ sent' = Append(sent, m) /\ wire' = wire \o Encode(m)
        /\ UNCHANGED <<reader, eager, buffer, opened, at, got>>
    BY DEF Write
  <1>3. Len(sent') = Len(sent) + 1 /\ \A i \in 1..Len(sent) : sent'[i] = sent[i]
    BY <1>1, <1>2
  <1>4. SUFFICES ASSUME ~Handover
                 PROVE  /\ \E k \in Len(got')..Len(sent') : IntactAt(k)'
                        /\ PrefixInv'
    BY <1>2 DEF StreamInv, Handover, QuietInv
  <1>5. PICK k \in Len(got)..Len(sent) : IntactAt(k)
    BY <1>4 DEF StreamInv
  <1>6. k \in 0..Len(sent) /\ k \in Len(got')..Len(sent')
    BY <1>1, <1>2, <1>3
  <1>7. Rest(k) \in Seq(Message) /\ Rest(k)' = Append(Rest(k), m)
    <2>1. Rest(k)' = SubSeq(Append(sent, m), k + 1, Len(sent) + 1)
      BY <1>2, <1>3 DEF Rest
    <2> QED
      BY <1>1, <1>6, <2>1, SuffixAppend DEF Rest
  <1>8. buffer \o (wire \o Encode(m)) = Frames(Append(Rest(k), m))
    <2>1. Encode(m) \in Seq(Nat)
      BY EncodeParts
    <2>2. buffer \o (wire \o Encode(m)) = (buffer \o wire) \o Encode(m)
      BY <1>1, <2>1, ConcatBytes
    <2> QED
      BY <1>5, <1>7, <2>2, FramesAppend DEF IntactAt
  <1>9. IntactAt(k)'
    BY <1>2, <1>5, <1>7, <1>8 DEF IntactAt
  <1>10. PrefixInv'
    BY <1>1, <1>2, <1>3, <1>4 DEF StreamInv, PrefixInv, Compared
  <1> QED
    BY <1>6, <1>9, <1>10

LEMMA ReadStream ==
    ASSUME TypeOK, StreamInv, Read
    PROVE  StreamInv'
  <1>1. buffer \in Seq(Nat) /\ wire \in Seq(Nat)
    BY DEF TypeOK
  <1>2. PICK n \in 1..Len(wire) :
           buffer' = buffer \o SubSeq(wire, 1, n) /\ wire' = SubSeq(wire, n + 1, Len(wire))
    BY DEF Read
  <1>3. /\ UNCHANGED <<reader, eager, sent, opened, got>>
        /\ at' = IF opened THEN "decoding" ELSE "opening"
    BY DEF Read
  <1>4. buffer' \o wire' = buffer \o wire
    <2> DEFINE a == SubSeq(wire, 1, n)
               b == SubSeq(wire, n + 1, Len(wire))
    <2>1. a \in Seq(Nat) /\ b \in Seq(Nat)
      BY <1>1
    <2>2. a \o b = wire
      <3>1. 1 \in 1..Len(wire) + 1 /\ n \in 1 - 1..Len(wire) /\ Len(wire) \in n..Len(wire)
        BY <1>1
      <3> QED
        BY <1>1, <3>1, ConcatAdjacentSubSeq, SubSeqFull
    <2> HIDE DEF a, b
    <2>3. (buffer \o a) \o b = buffer \o (a \o b)
      BY <1>1, <2>1, ConcatBytes
    <2> QED
      BY <1>2, <2>2, <2>3 DEF a, b
  <1>5. \A k : IntactAt(k)' <=> IntactAt(k)
    BY <1>3, <1>4 DEF IntactAt, Rest
  <1>6. at' # "reading" /\ (at' = "opening" => ~opened')
    BY <1>3
  <1> QED
    BY <1>3, <1>5, <1>6 DEF StreamInv, Handover, QuietInv, PrefixInv, Compared

\* Taking the message behind the k-th.
LEMMA Taking ==
    ASSUME TypeOK, PrefixInv, NEW k \in Len(got)..Len(sent), IntactAt(k),
           k + 1 \in 1..Len(sent), UNCHANGED <<reader, eager, sent>>,
           got' = got \o <<sent[k + 1]>>
    PROVE  /\ k + 1 \in Len(got')..Len(sent)
           /\ k = Len(got) => k + 1 = Len(got')
           /\ PrefixInv'
  <1>1. /\ sent \in Seq(Message) /\ got \in Seq(Decoded)
        /\ Len(got) \in Nat /\ Len(sent) \in Nat
    BY DEF TypeOK
  <1> DEFINE m == sent[k + 1]
  <1>2. m \in Decoded
    BY <1>1, MessageDecoded
  <1> HIDE DEF m
  <1>3. /\ Len(got') = Len(got) + 1 /\ got'[Len(got) + 1] = m
        /\ \A i \in 1..Len(got) : got'[i] = got[i]
    BY <1>1, <1>2 DEF m
  <1>4. Compared => k = Len(got)
    BY DEF IntactAt, Compared
  <1>5. \A i \in 1..Len(got') : i \in 1..Len(got) \/ i = Len(got) + 1
    BY <1>1, <1>3
  <1>6. PrefixInv'
    <2>1. SUFFICES ASSUME Compared
                   PROVE  /\ Len(got') <= Len(sent)
                          /\ \A i \in 1..Len(got') : got'[i] = sent[i]
      BY DEF PrefixInv, Compared
    <2>2. k = Len(got) /\ \A i \in 1..Len(got) : got[i] = sent[i]
      BY <1>4, <2>1 DEF PrefixInv
    <2>3. Len(got') <= Len(sent)
      BY <1>1, <1>3, <2>2
    <2>4. got'[Len(got) + 1] = sent[Len(got) + 1]
      BY <1>3, <2>2 DEF m
    <2> QED
      BY <1>3, <1>5, <2>2, <2>3, <2>4
  <1> QED
    BY <1>1, <1>3, <1>6

LEMMA LoopStream ==
    ASSUME TypeOK, PhaseInv, StreamInv, DecodeLoop
    PROVE  StreamInv'
  <1> DEFINE d == Decode(buffer)
  <1>1. /\ at = "decoding" /\ UNCHANGED <<reader, eager, sent, wire, opened>>
        /\ buffer' = d.remaining /\ got' = got \o d.message
        /\ at' = IF d.message = <<>> THEN "reading" ELSE at
    BY DEF DecodeLoop
  <1> HIDE DEF d
  <1>2. SUFFICES ASSUME ~Handover PROVE StreamInv'
    BY <1>1 DEF StreamInv, Handover
  <1>3. PICK k \in Len(got)..Len(sent) : IntactAt(k)
    BY <1>2 DEF StreamInv
  <1>4. CASE Incomplete(buffer)
    <2>1. d.message = <<>> /\ d.remaining = buffer
      BY <1>3, <1>4, Turn DEF d
    <2>2. got' = got
      BY <1>1, <2>1 DEF TypeOK
    <2>3. buffer' = buffer /\ at' = "reading"
      BY <1>1, <2>1
    <2>4. IntactAt(k)' /\ PrefixInv'
      BY <1>1, <1>2, <1>3, <2>2, <2>3 DEF StreamInv, IntactAt, Rest, PrefixInv, Compared
    <2> QED
      BY <1>1, <1>3, <1>4, <2>2, <2>3, <2>4 DEF StreamInv, QuietInv
  <1>5. CASE ~Incomplete(buffer)
    <2>1. /\ k + 1 \in 1..Len(sent) /\ d.message = <<sent[k + 1]>>
          /\ d.remaining \o wire = Frames(Rest(k + 1))
      BY <1>3, <1>5, Turn DEF d
    <2>2. /\ k + 1 \in Len(got')..Len(sent) /\ (k = Len(got) => k + 1 = Len(got'))
          /\ PrefixInv'
      BY <1>1, <1>2, <1>3, <2>1, Taking DEF StreamInv
    <2>3. at' = "decoding"
      BY <1>1, <2>1
    <2>4. IntactAt(k + 1)'
      BY <1>1, <1>3, <2>1, <2>2 DEF IntactAt, Rest
    <2> QED
      BY <1>1, <2>2, <2>3, <2>4 DEF StreamInv, QuietInv
  <1> QED
    BY <1>4, <1>5

\* A writer that waits has sent one message when the buffer holds it.
LEMMA FirstTurn ==
    ASSUME TypeOK, PhaseInv, QuietInv, at = "opening", ~eager, ~Incomplete(buffer),
           NEW k \in Len(got)..Len(sent), IntactAt(k)
    PROVE  /\ ~opened /\ k = 0 /\ got = <<>>
           /\ Decode(buffer).message = <<Opening>>
           /\ Decode(buffer).remaining = <<>> /\ wire = <<>> /\ Rest(1) = <<>>
  <1>1. ~opened
    <2>1. Incomplete(<<>>)
      BY DEF Incomplete, HeaderSize
    <2> QED
      BY <2>1 DEF QuietInv
  <1>2. /\ got = <<>> /\ Len(sent) <= 1 /\ sent \in Seq(Message) /\ wire \in Seq(Nat)
        /\ buffer \in Seq(Nat) /\ reader # "loop"
    BY <1>1 DEF PhaseInv, TypeOK
  <1>3. k = 0
    BY <1>2 DEF IntactAt
  <1>4. /\ 1 \in 1..Len(sent) /\ Decode(buffer).message = <<sent[1]>>
        /\ Decode(buffer).remaining \o wire = Frames(Rest(1))
    BY <1>3, Turn
  <1>5. Len(sent) = 1 /\ sent # <<>>
    <2>1. Len(sent) \in Nat /\ 1 <= Len(sent)
      BY <1>2, <1>4
    <2>2. Len(sent) <= 1
      BY <1>2
    <2>3. Len(sent) = 1
      <3> DEFINE n == Len(sent)
      <3>1. n \in Nat /\ 1 <= n /\ n <= 1
        BY <2>1, <2>2
      <3> HIDE DEF n
      <3>2. n = 1
        BY ONLY <3>1
      <3> QED
        BY ONLY <3>2 DEF n
    <2>4. Len(<<>>) = 0
      OBVIOUS
    <2> QED
      BY <2>3, <2>4
  <1>6. sent[1] = Opening
    BY <1>2, <1>5 DEF PhaseInv
  <1>7. Rest(1) = <<>>
    BY <1>5 DEF Rest
  <1>8. Decode(buffer).remaining = <<>> /\ wire = <<>>
    <2> DEFINE r == Decode(buffer).remaining
    <2>1. r \in Seq(Nat) /\ r \o wire = <<>>
      BY <1>2, <1>4, <1>7, DecodeType, FramesEmpty
    <2> HIDE DEF r
    <2>2. r = <<>> /\ wire = <<>>
      <3> DEFINE B == Nat
      <3>1. r \in Seq(B) /\ wire \in Seq(B)
        BY <1>2, <2>1
      <3> HIDE DEF B
      <3> QED
        BY <2>1, <3>1, ConcatEqualIffEmpty
    <2> QED
      BY <2>2 DEF r
  <1> QED
    BY <1>1, <1>2, <1>3, <1>4, <1>6, <1>7, <1>8

LEMMA AuthStream ==
    ASSUME TypeOK, PhaseInv, StreamInv, DecodeAuth
    PROVE  StreamInv'
  <1> DEFINE d == Decode(buffer)
  <1>1. /\ at = "opening" /\ reader = "auth" /\ UNCHANGED <<reader, eager, sent, wire>>
        /\ buffer' = d.remaining
        /\ got' = IF d.message = <<Opening>> THEN got \o d.message ELSE got
        /\ at' = IF d.message = <<>> THEN "reading" ELSE at
    BY DEF DecodeAuth
  <1> HIDE DEF d
  <1>2. ~Handover /\ ~Handover'
    BY <1>1 DEF Handover
  <1>3. PICK k \in Len(got)..Len(sent) : IntactAt(k)
    BY <1>2 DEF StreamInv
  <1>4. QuietInv /\ PrefixInv
    BY <1>2 DEF StreamInv
  <1>5. CASE Incomplete(buffer)
    <2>1. d.message = <<>> /\ d.remaining = buffer
      BY <1>3, <1>5, Turn DEF d
    <2>2. got' = got /\ buffer' = buffer /\ at' = "reading"
      BY <1>1, <2>1
    <2>3. IntactAt(k)' /\ PrefixInv'
      BY <1>1, <1>3, <1>4, <2>2 DEF IntactAt, Rest, PrefixInv, Compared
    <2> QED
      BY <1>1, <1>3, <1>5, <2>2, <2>3 DEF StreamInv, QuietInv
  <1>6. CASE ~Incomplete(buffer) /\ d.message = <<Opening>>
    <2>1. /\ k + 1 \in 1..Len(sent) /\ d.message = <<sent[k + 1]>>
          /\ d.remaining \o wire = Frames(Rest(k + 1))
      BY <1>3, <1>6, Turn DEF d
    <2>2. got' = got \o <<sent[k + 1]>> /\ at' = "opening"
      BY <1>1, <1>6, <2>1
    <2>3. /\ k + 1 \in Len(got')..Len(sent) /\ (k = Len(got) => k + 1 = Len(got'))
          /\ PrefixInv'
      BY <1>1, <1>3, <1>4, <2>1, <2>2, Taking
    <2>4. IntactAt(k + 1)'
      BY <1>1, <1>3, <2>1, <2>3 DEF IntactAt, Rest
    <2>5. ~eager => buffer' = <<>>
      BY <1>1, <1>3, <1>4, <1>6, FirstTurn DEF d
    <2> QED
      BY <1>1, <2>2, <2>3, <2>4, <2>5 DEF StreamInv, QuietInv
  <1>7. CASE ~Incomplete(buffer) /\ d.message # <<Opening>>
    <2>1. /\ k + 1 \in 1..Len(sent) /\ d.message = <<sent[k + 1]>>
          /\ d.remaining \o wire = Frames(Rest(k + 1))
      BY <1>3, <1>7, Turn DEF d
    <2>2. eager
      BY <1>1, <1>3, <1>4, <1>7, FirstTurn DEF d
    <2>3. got' = got /\ at' = "opening"
      BY <1>1, <1>7, <2>1
    <2>4. IntactAt(k + 1)'
      BY <1>1, <2>1, <2>2 DEF IntactAt, Rest
    <2>5. k + 1 \in Len(got')..Len(sent')
      BY <1>1, <1>3, <2>1, <2>3 DEF TypeOK
    <2> QED
      BY <1>1, <2>2, <2>3, <2>4, <2>5 DEF StreamInv, QuietInv, PrefixInv, Compared
  <1> QED
    BY <1>5, <1>6, <1>7

LEMMA AnswerStream ==
    ASSUME TypeOK, PhaseInv, StreamInv, DecodeAnswer
    PROVE  StreamInv'
  <1> DEFINE d == Decode(buffer)
  <1>1. /\ at = "opening" /\ reader = "answer" /\ UNCHANGED <<reader, eager, sent, wire>>
        /\ opened' <=> d.message = <<Opening>>
        /\ buffer' = IF opened' THEN <<>> ELSE d.remaining
        /\ got' = IF opened' THEN got \o d.message ELSE got
        /\ at' = "reading"
    BY DEF DecodeAnswer
  <1> HIDE DEF d
  <1>2. SUFFICES ASSUME ~Handover PROVE StreamInv'
    BY <1>1 DEF StreamInv, Handover
  <1>3. PICK k \in Len(got)..Len(sent) : IntactAt(k)
    BY <1>2 DEF StreamInv
  <1>4. ~eager /\ QuietInv /\ PrefixInv
    BY <1>1, <1>2 DEF StreamInv, Handover
  <1>5. CASE Incomplete(buffer)
    <2>1. d.message = <<>> /\ d.remaining = buffer
      BY <1>3, <1>5, Turn DEF d
    <2>2. ~opened' /\ got' = got /\ buffer' = buffer
      BY <1>1, <2>1
    <2>3. IntactAt(k)' /\ PrefixInv'
      BY <1>1, <1>3, <1>4, <2>2 DEF IntactAt, Rest, PrefixInv, Compared
    <2> QED
      BY <1>1, <1>3, <1>5, <2>2, <2>3 DEF StreamInv, QuietInv
  <1>6. CASE ~Incomplete(buffer)
    <2>1. /\ k = 0 /\ got = <<>> /\ d.message = <<Opening>>
          /\ wire = <<>> /\ Rest(1) = <<>>
      BY <1>1, <1>3, <1>4, <1>6, FirstTurn DEF d
    <2>2. /\ 1 \in 1..Len(sent) /\ d.message = <<sent[1]>>
      BY <1>3, <1>6, <2>1, Turn DEF d
    <2>3. opened' /\ buffer' = <<>> /\ got' = got \o <<sent[1]>>
      BY <1>1, <2>1, <2>2
    <2>4. 1 \in Len(got')..Len(sent) /\ 1 = Len(got') /\ PrefixInv'
      <3>1. 0 \in Len(got)..Len(sent) /\ IntactAt(0) /\ 0 + 1 \in 1..Len(sent) /\ Len(got) = 0
        BY <1>3, <2>1, <2>2
      <3>2. got' = got \o <<sent[0 + 1]>>
        BY <2>3
      <3> DEFINE z == 0
      <3>3. z \in Len(got)..Len(sent) /\ IntactAt(z) /\ z + 1 \in 1..Len(sent) /\ Len(got) = z
        BY <3>1
      <3>4. got' = got \o <<sent[z + 1]>> /\ z + 1 = 1
        BY <3>2
      <3> HIDE DEF z
      <3>5. z + 1 \in Len(got')..Len(sent) /\ z + 1 = Len(got') /\ PrefixInv'
        BY <1>1, <1>4, <3>3, <3>4, Taking
      <3> QED
        BY <3>4, <3>5
    <2>5. IntactAt(1)'
      <3>1. buffer' \o wire' = <<>>
        BY <1>1, <2>1, <2>3
      <3> QED
        BY <1>1, <2>1, <2>4, <3>1, FramesEmpty DEF IntactAt, Rest
    <2>6. Incomplete(buffer)'
      BY <2>3 DEF Incomplete, HeaderSize
    <2> QED
      BY <1>1, <2>4, <2>5, <2>6 DEF StreamInv, QuietInv
  <1> QED
    BY <1>5, <1>6

LEMMA NextInv == IInv /\ [Next]_vars => IInv'
  <1> SUFFICES ASSUME TypeOK, PhaseInv, StreamInv, [Next]_vars PROVE IInv'
    BY DEF IInv
  <1>1. ASSUME UNCHANGED vars PROVE StreamInv'
    BY <1>1 DEF vars, StreamInv, Handover, IntactAt, Rest, Incomplete, QuietInv, PrefixInv,
                Compared
  <1>2. StreamInv'
    BY <1>1, WriteStream, ReadStream, LoopStream, AuthStream, AnswerStream DEF Next
  <1> QED
    BY <1>2, NextType, PhaseStep DEF IInv

LEMMA InvHolds == Spec => []IInv
  BY InitInv, NextInv, PTL DEF Spec

\* The variables keep their types: also a reader that has lost its place hands
\* nothing on but what Protocol.decode can return.
THEOREM TypeCorrect == Spec => []TypeOK
  <1>1. IInv => TypeOK
    BY DEF IInv
  <1> QED
    BY <1>1, InvHolds, PTL

\* However TCP cuts the frames, the reader stands at the start of one, and what it
\* has not decoded are the frames of the last messages (the loops around
\* Protocol.decode).
THEOREM FramesCorrect == Spec => []FramesIntact
  <1>1. IInv => FramesIntact
    BY DEF IInv, StreamInv, FramesIntact, IntactAt, Rest
  <1> QED
    BY <1>1, InvHolds, PTL

\* A whole frame is not left in the buffer when the reader waits for more.
THEOREM WaitCorrect == Spec => []NothingWaits
  <1>1. IInv => NothingWaits
    BY DEF IInv, StreamInv, NothingWaits
  <1> QED
    BY <1>1, InvHolds, PTL

-----------------------------------------------------------------------------
(* The channel of whole messages. *)

Upto(n) == [i \in 1..n |-> i]

\* One more number.
LEMMA UptoGrows ==
    ASSUME NEW n \in Nat
    PROVE  /\ Len(Upto(n)) = n
           /\ Upto(n + 1) = Upto(n) \o [i \in 1..1 |-> n + i]
  <1> DEFINE e == [i \in 1..1 |-> n + i]
             u == Upto(n)
             v == Upto(n + 1)
  <1>1. u \in Seq(Nat) /\ Len(u) = n /\ \A i \in 1..n : u[i] = i
    BY DEF Upto
  <1>2. v \in Seq(Nat) /\ Len(v) = n + 1 /\ \A i \in 1..n + 1 : v[i] = i
    BY DEF Upto
  <1>3. e \in Seq(Nat) /\ Len(e) = 1 /\ e[1] = n + 1
    OBVIOUS
  <1> HIDE DEF e, u, v
  <1>4. u \o e = v
    <2>1. /\ u \o e \in Seq(Nat) /\ Len(u \o e) = n + 1
          /\ \A i \in 1..n + 1 : (u \o e)[i] = IF i <= n THEN u[i] ELSE e[i - n]
      <3> DEFINE B == Nat
      <3>1. u \in Seq(B) /\ e \in Seq(B)
        BY <1>1, <1>3
      <3> HIDE DEF B
      <3>2. /\ u \o e \in Seq(B) /\ Len(u \o e) = Len(u) + Len(e)
            /\ \A i \in 1..Len(u) + Len(e) : (u \o e)[i] = IF i <= Len(u) THEN u[i]
                                                           ELSE e[i - Len(u)]
        BY <3>1, ConcatProperties
      <3> QED
        BY <1>1, <1>3, <3>2 DEF B
    <2>2. \A i \in 1..n + 1 : (u \o e)[i] = v[i]
      <3>1. \A i \in 1..n + 1 : i \in 1..n \/ (i = n + 1 /\ ~(i <= n) /\ i - n = 1)
        OBVIOUS
      <3> QED
        BY <1>1, <1>2, <1>3, <2>1, <3>1
    <2> DEFINE w == u \o e
    <2>3. w \in Seq(Nat) /\ Len(w) = Len(v) /\ \A i \in 1..Len(w) : w[i] = v[i]
      BY <1>2, <2>1, <2>2
    <2> HIDE DEF w
    <2>4. w = v
      BY <1>2, <2>3, SeqEqual
    <2> QED
      BY <2>4 DEF w
  <1> QED
    BY <1>1, <1>4 DEF e, u, v

\* How many messages have been sent and got, as far as they are compared.
SentCount == IF Compared THEN Len(sent) ELSE 0
GotCount == IF Compared THEN Len(got) ELSE 0

\* The messages got are the first ones sent.
Known ==
    /\ SentCount \in Nat /\ GotCount \in 0..SentCount
    /\ (IF Compared THEN Numbers ELSE <<>>) = Upto(GotCount)

LEMMA CountsKnown ==
    ASSUME IInv
    PROVE  Known
  <1>1. Len(sent) \in Nat /\ Len(got) \in Nat /\ DOMAIN got = 1..Len(got)
    BY DEF IInv, TypeOK
  <1>2. CASE Compared
    <2>1. /\ Len(got) <= Len(sent)
          /\ \A i \in 1..Len(got) : got[i] = sent[i]
      BY <1>2 DEF IInv, StreamInv, PrefixInv, Compared, Handover
    <2>2. \A i \in 1..Len(got) : i <= Len(sent)
      BY <1>1, <2>1
    <2>3. Numbers = Upto(Len(got))
      BY <1>1, <2>1, <2>2 DEF Numbers, Upto
    <2> QED
      BY <1>1, <1>2, <2>1, <2>3 DEF Known, SentCount, GotCount
  <1>3. CASE ~Compared
    BY <1>3 DEF Known, SentCount, GotCount, Upto
  <1> QED
    BY <1>2, <1>3

LEMMA CountsMove ==
    ASSUME TypeOK, [Next]_vars
    PROVE  \/ SentCount' = SentCount /\ GotCount' \in {GotCount, GotCount + 1}
           \/ SentCount' = SentCount + 1 /\ GotCount' = GotCount
  <1>1. /\ sent \in Seq(Message) /\ got \in Seq(Decoded)
        /\ Len(sent) \in Nat /\ Len(got) \in Nat
    BY DEF TypeOK
  <1>2. Compared' <=> Compared
    BY DEF Next, vars, Write, Read, DecodeLoop, DecodeAuth, DecodeAnswer, Compared
  <1>3. ASSUME NEW m \in Message, Write(m)
        PROVE  Len(sent') = Len(sent) + 1 /\ got' = got
    BY <1>1, <1>3 DEF Write
  <1>4. Len(got \o Decode(buffer).message) \in {Len(got), Len(got) + 1}
    <2> DEFINE t == Decode(buffer).message
    <2>1. t = <<>> \/ \E m \in Decoded : t = <<m>>
      BY DecodeType DEF TypeOK
    <2> HIDE DEF t
    <2>2. \A m \in Decoded : <<m>> \in Seq(Decoded) /\ Len(<<m>>) = 1
      OBVIOUS
    <2>3. <<>> \in Seq(Decoded) /\ Len(<<>>) = 0
      OBVIOUS
    <2>4. t \in Seq(Decoded) /\ Len(t) \in {0, 1}
      BY <2>1, <2>2, <2>3
    <2>5. Len(got \o t) = Len(got) + Len(t)
      BY <1>1, <2>4, ConcatProperties
    <2>6. Len(got \o t) \in {Len(got), Len(got) + 1}
      <3> DEFINE n == Len(got)
                 k == Len(t)
                 l == Len(got \o t)
      <3>1. n \in Nat /\ k \in {0, 1} /\ l = n + k
        BY <1>1, <2>4, <2>5
      <3> HIDE DEF n, k, l
      <3>2. l \in {n, n + 1}
        BY ONLY <3>1
      <3> QED
        BY <3>2 DEF n, l
    <2> QED
      BY <2>6 DEF t
  <1>5. ASSUME Read \/ DecodeLoop \/ DecodeAuth \/ DecodeAnswer \/ UNCHANGED vars
        PROVE  sent' = sent /\ Len(got') \in {Len(got), Len(got) + 1}
    BY <1>4, <1>5 DEF Read, DecodeLoop, DecodeAuth, DecodeAnswer, vars
  <1> QED
    BY <1>1, <1>2, <1>3, <1>5 DEF Next, SentCount, GotCount

\* Messages arrive in order, each once, if nobody writes behind a message that
\* changes the reader: the framing implements a pipe.
THEOREM PipeCorrect == Spec => MessagesArePipe
  <1>1. Init => Channel!Init
    <2> SUFFICES ASSUME Init PROVE Channel!Init
      OBVIOUS
    <2>1. SentCount = 0 /\ Len(sent) = 0
      BY DEF Init, SentCount
    <2>2. (IF Compared THEN Numbers ELSE <<>>) = <<>>
      BY DEF Init, Numbers
    <2> QED
      BY <2>1, <2>2 DEF Channel!Init
  <1>2. IInv => Known
    BY CountsKnown
  <1>3. ASSUME IInv, Known, Known', [Next]_vars PROVE [Channel!Next]_(Channel!vars)
    <2>1. /\ SentCount \in Nat /\ GotCount \in 0..SentCount
          /\ (IF Compared THEN Numbers ELSE <<>>) = Upto(GotCount)
      BY <1>3 DEF Known
    <2>2. /\ SentCount' \in Nat /\ GotCount' \in 0..SentCount'
          /\ (IF Compared THEN Numbers ELSE <<>>)' = Upto(GotCount)'
      BY <1>3 DEF Known
    <2>3. \/ SentCount' = SentCount /\ GotCount' \in {GotCount, GotCount + 1}
          \/ SentCount' = SentCount + 1 /\ GotCount' = GotCount
      BY <1>3, CountsMove DEF IInv
    <2>4. CASE SentCount' = SentCount /\ GotCount' = GotCount
      BY <2>1, <2>2, <2>4 DEF Channel!vars, SentCount, Upto
    <2>5. CASE SentCount' = SentCount + 1 /\ GotCount' = GotCount
      BY <2>1, <2>2, <2>5 DEF Channel!Next, Channel!Write, SentCount, Upto
    <2>6. CASE SentCount' = SentCount /\ GotCount' = GotCount + 1
      <3>1. Upto(GotCount)' = Upto(GotCount) \o [i \in 1..1 |-> Len(Upto(GotCount)) + i]
        BY <2>1, <2>6, UptoGrows DEF Upto
      <3>2. 1 \in 1..(SentCount - Len(Upto(GotCount)))
        BY <2>1, <2>2, <2>6, UptoGrows
      <3> QED
        BY <2>1, <2>2, <2>6, <3>1, <3>2 DEF Channel!Next, Channel!Read, SentCount
    <2> QED
      BY <2>3, <2>4, <2>5, <2>6
  <1> QED
    BY <1>1, <1>2, <1>3, InvHolds, PTL DEF Spec, MessagesArePipe, Channel!Spec
=============================================================================
