-------------------------- MODULE ServiceClientProofs --------------------------
(***************************************************************************)
(* Proofs about the user interface's end of the local channel, for every   *)
(* frame format (bytes per length and opcode, largest frame), every stream *)
(* and every way of cutting it up.  The parser that reads portions as they *)
(* come is compared with one that has the whole stream, a recursive        *)
(* function; that this function exists, and its type, take an induction,   *)
(* made here from the least-element principle.                             *)
(***************************************************************************)
EXTENDS ServiceClient, TLAPS, SequenceTheorems, WellFoundedInduction

(* Induction, and numbers read off bytes.                                  *)

\* Every nonempty set of naturals has a least element: the library's theorem on
\* well-founded relations, which is about sets and so within the provers' reach.
LEMMA LeastElement ==
    ASSUME NEW T \in SUBSET Nat, T # {}
    PROVE  \E n \in T : \A m \in T : n <= m
<1> DEFINE R == {ss \in Nat \X Nat : ss[1] < ss[2]}
<1>1. IsWellFoundedOn(R, Nat)
  BY NatLessThanWellFounded DEF OpToRel
<1>2. PICK n \in T : \A m \in T : ~ (<<m, n>> \in R)
  <2> HIDE DEF R
  <2> QED BY <1>1, WFMin
<1>3. \A m \in T : ~ (m < n)
  BY <1>2
<1>4. \A m \in T : m \in Nat
  OBVIOUS
<1>5. QED BY <1>2, <1>3, <1>4

\* Induction up to a bound, with a set for the predicate: the least element that
\* is not in the set would have a predecessor that is.
LEMMA IntervalInduction ==
    ASSUME NEW N \in Nat, NEW S, 0 \in S,
           \A k \in 0..(N - 1) : k \in S => k + 1 \in S
    PROVE  \A k \in 0..N : k \in S
<1> DEFINE T == {k \in 0..N : k \notin S}
<1>1. SUFFICES ASSUME T # {} PROVE FALSE
  OBVIOUS
<1>2. T \in SUBSET Nat
  OBVIOUS
<1>3. PICK n \in T : \A m \in T : n <= m
  <2> HIDE DEF T
  <2> QED BY <1>1, <1>2, LeastElement
<1>4. n \in 1..N /\ n - 1 \notin T
  BY <1>3
<1>5. QED BY <1>3, <1>4

\* The equation that BigEndian's function is chosen to satisfy.
ValueStep(bytes, f, k) == IF k = 0 THEN 0 ELSE f[k - 1] * Base + bytes[k]
Values(bytes) == CHOOSE f : f = [k \in 0..Len(bytes) |-> ValueStep(bytes, f, k)]

\* A length or opcode read off bytes is a natural number.  The function exists:
\* one that satisfies the equation up to k is extended to k + 1.
LEMMA BigEndianType ==
    ASSUME NEW bytes \in Seq(Byte)
    PROVE  BigEndian(bytes) \in Nat
<1> DEFINE N == Len(bytes)
           Approx(f, k) == f = [i \in 0..k |-> ValueStep(bytes, f, i)]
           S == {k \in 0..N : \E f : Approx(f, k)}
<1>1. N \in Nat /\ \A k \in 1..N : bytes[k] \in Nat
  BY FrameAssumption DEF Byte
<1>2. 0 \in S
  <2>1. Approx([i \in 0..0 |-> 0], 0)
    BY DEF ValueStep
  <2>2. QED BY <2>1, <1>1
<1>3. ASSUME NEW k \in 0..(N - 1), k \in S PROVE k + 1 \in S
  <2>1. PICK f : Approx(f, k)
    BY <1>3
  <2> DEFINE g == [i \in 0..(k + 1) |-> ValueStep(bytes, f, i)]
  <2>2. \A i \in 0..k : g[i] = f[i]
    BY <2>1
  <2>3. \A i \in 0..(k + 1) : ValueStep(bytes, f, i) = ValueStep(bytes, g, i)
    <3>1. \A i \in 0..(k + 1) : i # 0 => i - 1 \in 0..k
      OBVIOUS
    <3> HIDE DEF g
    <3> QED BY <2>2, <3>1, Zenon DEF ValueStep
  <2>4. Approx(g, k + 1)
    BY <2>3
  <2>5. k + 1 \in 0..N
    BY <1>1
  <2> HIDE DEF g, Approx
  <2>6. QED BY <2>4, <2>5
<1>4. N \in S
  <2>1. N \in Nat /\ N \in 0..N
    BY <1>1
  <2> HIDE DEF S, N
  <2>2. \A k \in 0..(N - 1) : k \in S => k + 1 \in S
    BY <1>3
  <2>3. \A k \in 0..N : k \in S
    BY <2>1, <2>2, <1>2, IntervalInduction
  <2>4. QED BY <2>1, <2>3
<1>5. Approx(Values(bytes), N)
  BY <1>4 DEF Values
<1>6. BigEndian(bytes) = Values(bytes)[N]
  BY DEF BigEndian, Values, ValueStep
<1> DEFINE V == Values(bytes)
           Typed == {k \in 0..N : V[k] \in Nat}
<1>7. \A k \in 0..N : V[k] = ValueStep(bytes, V, k)
  <2> HIDE DEF V
  <2> QED BY <1>5 DEF V
<1> HIDE DEF V
<1>8. 0 \in Typed
  BY <1>1, <1>7 DEF ValueStep
<1>9. ASSUME NEW k \in 0..(N - 1), k \in Typed PROVE k + 1 \in Typed
  <2>1. V[k + 1] = V[k] * Base + bytes[k + 1]
    BY <1>1, <1>7, k + 1 \in 0..N, k + 1 # 0, k + 1 - 1 = k DEF ValueStep
  <2>2. V[k] \in Nat /\ bytes[k + 1] \in Nat /\ Base \in Nat
    BY <1>9, <1>1, FrameAssumption
  <2>3. \A a, b, c \in Nat : a * b + c \in Nat
    OBVIOUS
  <2>4. V[k + 1] \in Nat
    BY <2>1, <2>2, <2>3
  <2>5. k + 1 \in 0..N
    BY <1>1
  <2>6. QED BY <2>4, <2>5
<1>10. N \in Typed
  <2>1. N \in Nat /\ N \in 0..N
    BY <1>1
  <2> HIDE DEF Typed, N
  <2>2. \A k \in 0..(N - 1) : k \in Typed => k + 1 \in Typed
    BY <1>9
  <2>3. \A k \in 0..N : k \in Typed
    BY <2>1, <2>2, <1>8, IntervalInduction
  <2>4. QED BY <2>1, <2>3
<1>11. QED BY <1>6, <1>10 DEF V

-----------------------------------------------------------------------------
(* The parser as a function of the stream.                                *)

\* What the reference parser returns at each offset.
Message == [opcode : Nat, payload : Seq(Byte)]
Result == [messages : Seq(Message), bad : BOOLEAN]

\* The frame at offset i of s: whether its length field, and all of it, is there.
LengthAt(s, i) == BigEndian(SubSeq(s, i + 1, i + LenBytes))
HasLength(s, i) == i + LenBytes <= Len(s)
BadAt(s, i) == HasLength(s, i) /\ ~InBounds(LengthAt(s, i))
FrameAt(s, i) ==
    HasLength(s, i) /\ InBounds(LengthAt(s, i)) /\ i + LenBytes + LengthAt(s, i) <= Len(s)
NextAt(s, i) == i + LenBytes + LengthAt(s, i)

\* The equation of the reference parser, f being the parser.
FrameStep(s, f, i) ==
    IF FrameAt(s, i)
    THEN [messages |-> <<MessageAt(s, i, LengthAt(s, i))>> \o f[NextAt(s, i)].messages,
          bad |-> f[NextAt(s, i)].bad]
    ELSE [messages |-> <<>>, bad |-> BadAt(s, i)]

\* A frame ends after it began and within the stream.
LEMMA NextFacts ==
    ASSUME NEW s \in Seq(Byte), NEW i \in 0..Len(s), FrameAt(s, i)
    PROVE  /\ NextAt(s, i) \in (i + 1)..Len(s)
           /\ LengthAt(s, i) \in OpBytes..MaxFrame
           /\ LengthAt(s, i) \in Nat
  BY FrameAssumption DEF FrameAt, NextAt, InBounds

\* ParseFrom is chosen to satisfy that equation.
LEMMA ParseFromIsStep ==
    ASSUME NEW s \in Seq(Byte)
    PROVE  ParseFrom(s) = CHOOSE f : f = [i \in 0..Len(s) |-> FrameStep(s, f, i)]
<1> DEFINE Body(f, i) ==
            LET n == BigEndian(SubSeq(s, i + 1, i + LenBytes)) IN
            IF i + LenBytes > Len(s) THEN [messages |-> <<>>, bad |-> FALSE]
            ELSE IF ~InBounds(n) THEN [messages |-> <<>>, bad |-> TRUE]
            ELSE IF i + LenBytes + n > Len(s) THEN [messages |-> <<>>, bad |-> FALSE]
            ELSE LET rest == f[i + LenBytes + n] IN
                 [messages |-> <<MessageAt(s, i, n)>> \o rest.messages, bad |-> rest.bad]
<1>1. ASSUME NEW f, NEW i \in 0..Len(s) PROVE Body(f, i) = FrameStep(s, f, i)
  <2> DEFINE n == LengthAt(s, i)
  <2>1. Len(s) \in Nat /\ LenBytes \in Nat
    BY FrameAssumption
  <2>2. CASE ~HasLength(s, i)
    <3>1. BadAt(s, i) = FALSE /\ ~FrameAt(s, i) /\ i + LenBytes > Len(s)
      BY <2>1, <2>2 DEF FrameAt, BadAt, HasLength
    <3>2. QED BY <3>1 DEF FrameStep
  <2>3. CASE HasLength(s, i) /\ ~InBounds(n)
    <3>1. BadAt(s, i) = TRUE /\ ~FrameAt(s, i) /\ ~(i + LenBytes > Len(s))
      BY <2>1, <2>3 DEF FrameAt, BadAt, HasLength
    <3>2. QED BY <2>3, <3>1 DEF FrameStep, LengthAt
  <2>4. CASE HasLength(s, i) /\ InBounds(n)
    <3>1. n \in Nat /\ BadAt(s, i) = FALSE /\ ~(i + LenBytes > Len(s))
      BY <2>1, <2>4, FrameAssumption DEF InBounds, BadAt, HasLength
    <3>2. CASE ~FrameAt(s, i)
      <4>1. i + LenBytes + n > Len(s)
        BY <2>1, <2>4, <3>1, <3>2 DEF FrameAt
      <4>2. QED BY <2>4, <3>1, <3>2, <4>1 DEF FrameStep, LengthAt
    <3>3. CASE FrameAt(s, i)
      <4>1. ~(i + LenBytes + n > Len(s))
        BY <2>1, <3>1, <3>3 DEF FrameAt
      <4>2. QED BY <2>4, <3>1, <3>3, <4>1 DEF FrameStep, LengthAt, NextAt
    <3>4. QED BY <3>2, <3>3
  <2>5. QED BY <2>2, <2>3, <2>4
<1>2. ParseFrom(s) = CHOOSE f : f = [i \in 0..Len(s) |-> Body(f, i)]
  BY DEF ParseFrom
<1> HIDE DEF Body
<1>3. QED BY <1>1, <1>2

LEMMA PieceType ==
    ASSUME NEW s \in Seq(Byte), NEW m \in Nat \ {0}, NEW n \in 0..Len(s)
    PROVE  SubSeq(s, m, n) \in Seq(Byte)
<1>1. \A i \in m..n : s[i] \in Byte
  OBVIOUS
<1>2. QED BY <1>1, SubSeqProperties

LEMMA MessageType ==
    ASSUME NEW s \in Seq(Byte), NEW i \in 0..Len(s), FrameAt(s, i)
    PROVE  MessageAt(s, i, LengthAt(s, i)) \in Message
<1> DEFINE n == LengthAt(s, i)
<1>1. n \in Nat /\ OpBytes <= n /\ i + LenBytes + n <= Len(s) /\ i + LenBytes + OpBytes <= Len(s)
  BY NextFacts, FrameAssumption DEF FrameAt, NextAt
<1>2. SubSeq(s, i + LenBytes + 1, i + LenBytes + OpBytes) \in Seq(Byte)
  BY <1>1, FrameAssumption, PieceType
<1>3. SubSeq(s, i + LenBytes + OpBytes + 1, i + LenBytes + n) \in Seq(Byte)
  BY <1>1, FrameAssumption, PieceType
<1> HIDE DEF n
<1>4. QED BY <1>2, <1>3, BigEndianType DEF MessageAt, Message, n

\* The reference parser exists and satisfies its equation: a parser of the last
\* k offsets is extended by one, as a frame refers to a later offset only.
LEMMA ParseUnfolds ==
    ASSUME NEW s \in Seq(Byte)
    PROVE  ParseFrom(s) = [i \in 0..Len(s) |-> FrameStep(s, ParseFrom(s), i)]
<1> DEFINE L == Len(s)
           Approx(f, k) == f = [i \in (L - k)..L |-> FrameStep(s, f, i)]
           S == {k \in 0..L : \E f : Approx(f, k)}
<1>1. L \in Nat
  OBVIOUS
<1>2. 0 \in S
  <2>1. ~FrameAt(s, L)
    BY NextFacts
  <2>2. Approx([i \in (L - 0)..L |-> FrameStep(s, <<>>, i)], 0)
    BY <2>1 DEF FrameStep
  <2> HIDE DEF Approx
  <2>3. QED BY <2>2, <1>1
<1>3. ASSUME NEW k \in 0..(L - 1), k \in S PROVE k + 1 \in S
  <2>1. PICK f : Approx(f, k)
    BY <1>3
  <2> DEFINE g == [i \in (L - (k + 1))..L |-> FrameStep(s, f, i)]
  <2>2. \A i \in (L - k)..L : g[i] = f[i]
    BY <2>1, <1>1
  <2>3. ASSUME NEW i \in (L - (k + 1))..L PROVE FrameStep(s, f, i) = FrameStep(s, g, i)
    <3>1. i \in 0..L
      BY <1>1
    <3>2. FrameAt(s, i) => NextAt(s, i) \in (L - k)..L
      BY <3>1, <1>1, NextFacts
    <3> HIDE DEF g
    <3>3. QED BY <2>2, <3>2, Zenon DEF FrameStep
  <2>4. Approx(g, k + 1)
    BY <2>3
  <2>5. k + 1 \in 0..L
    BY <1>1
  <2> HIDE DEF g, Approx
  <2>6. QED BY <2>4, <2>5
<1>4. \E f : Approx(f, L)
  <2>1. L \in 0..L
    BY <1>1
  <2> HIDE DEF Approx, L
  <2>2. \A k \in 0..(L - 1) : k \in S => k + 1 \in S
    BY <1>3
  <2> HIDE DEF S
  <2>3. L \in S
    BY <1>1, <2>1, <2>2, <1>2, IntervalInduction
  <2>4. QED BY <2>3 DEF S
<1>5. \E f : f = [i \in 0..L |-> FrameStep(s, f, i)]
  BY <1>4, <1>1
<1>6. QED BY <1>5, ParseFromIsStep

\* The same, for a frame that is there and for one that is not.
LEMMA ParseHere ==
    ASSUME NEW s \in Seq(Byte), NEW i \in 0..Len(s)
    PROVE  LET here == ParseFrom(s)[i]
               next == ParseFrom(s)[NextAt(s, i)] IN
           /\ FrameAt(s, i) =>
                 /\ here.messages = <<MessageAt(s, i, LengthAt(s, i))>> \o next.messages
                 /\ here.bad = next.bad
           /\ ~FrameAt(s, i) => here.messages = <<>> /\ here.bad = BadAt(s, i)
<1>1. ParseFrom(s)[i] = FrameStep(s, ParseFrom(s), i)
  BY ParseUnfolds
<1>2. QED BY <1>1 DEF FrameStep

\* Type of the parser, from the end of the stream backwards.
LEMMA ParseTyped ==
    ASSUME NEW s \in Seq(Byte)
    PROVE  \A i \in 0..Len(s) : ParseFrom(s)[i] \in Result
<1> DEFINE L == Len(s)
           S == {k \in 0..L : \A i \in (L - k)..L : ParseFrom(s)[i] \in Result}
<1>1. L \in Nat
  OBVIOUS
<1>2. ASSUME NEW i \in 0..L, \A j \in (i + 1)..L : ParseFrom(s)[j] \in Result
      PROVE  ParseFrom(s)[i] \in Result
  <2>1. ParseFrom(s)[i] = FrameStep(s, ParseFrom(s), i)
    BY ParseUnfolds
  <2>2. CASE FrameAt(s, i)
    <3> DEFINE m == MessageAt(s, i, LengthAt(s, i))
               next == ParseFrom(s)[NextAt(s, i)]
    <3>1. next \in Result
      BY <1>2, <2>2, NextFacts
    <3>2. m \in Message
      BY <2>2, MessageType
    <3> HIDE DEF m, next
    <3>3. <<m>> \in Seq(Message) /\ next.messages \in Seq(Message) /\ next.bad \in BOOLEAN
      BY <3>1, <3>2 DEF Result
    <3>4. <<m>> \o next.messages \in Seq(Message)
      BY <3>3, ConcatProperties
    <3>5. ParseFrom(s)[i] = [messages |-> <<m>> \o next.messages, bad |-> next.bad]
      BY <2>1, <2>2 DEF FrameStep, m, next
    <3>6. QED BY <3>3, <3>4, <3>5 DEF Result
  <2>3. CASE ~FrameAt(s, i)
    <3>1. BadAt(s, i) \in BOOLEAN
      BY DEF BadAt
    <3>2. <<>> \in Seq(Message)
      OBVIOUS
    <3>3. QED BY <2>1, <2>3, <3>1, <3>2 DEF FrameStep, Result
  <2>4. QED BY <2>2, <2>3
<1>3. 0 \in S
  <2>1. ParseFrom(s)[L] \in Result
    BY <1>1, <1>2
  <2>2. QED BY <1>1, <2>1
<1>4. ASSUME NEW k \in 0..(L - 1), k \in S PROVE k + 1 \in S
  <2>1. L - (k + 1) \in 0..L /\ \A j \in (L - (k + 1) + 1)..L : j \in (L - k)..L
    BY <1>1
  <2>2. ParseFrom(s)[L - (k + 1)] \in Result
    BY <1>2, <1>4, <2>1
  <2>3. \A i \in (L - (k + 1))..L : i = L - (k + 1) \/ i \in (L - k)..L
    BY <1>1
  <2>4. k + 1 \in 0..L
    BY <1>1
  <2>5. QED BY <1>4, <2>2, <2>3, <2>4
<1>5. L \in S
  <2>1. L \in 0..L
    BY <1>1
  <2>2. \A k \in 0..(L - 1) : k \in S => k + 1 \in S
    BY <1>4
  <2> HIDE DEF S, L
  <2>3. QED BY <1>1, <1>3, <2>1, <2>2, IntervalInduction
<1>6. L - L = 0
  BY <1>1
<1>7. QED BY <1>5, <1>6

-----------------------------------------------------------------------------
(* A buffer and the streams it is part of.                                 *)

\* The bytes of r are those of t after offset i.
Matches(r, t, i) == i + Len(r) <= Len(t) /\ \A j \in 1..Len(r) : r[j] = t[i + j]

LEMMA PieceMatches ==
    ASSUME NEW r \in Seq(Byte), NEW t \in Seq(Byte), NEW i \in Nat, Matches(r, t, i),
           NEW m \in Nat \ {0}, NEW n \in 0..Len(r)
    PROVE  SubSeq(t, i + m, i + n) = SubSeq(r, m, n)
<1>1. \A j \in m..n : r[j] \in Byte /\ t[i + j] = r[j]
  BY DEF Matches
<1>2. \A j \in (i + m)..(i + n) : t[j] \in Byte
  BY DEF Matches
<1> DEFINE a == SubSeq(t, i + m, i + n)
           b == SubSeq(r, m, n)
<1>3. /\ b \in Seq(Byte) /\ Len(b) = IF m <= n THEN n - m + 1 ELSE 0
      /\ \A j \in 1..(n - m + 1) : b[j] = r[m + j - 1]
  BY <1>1, SubSeqProperties
<1>4. /\ a \in Seq(Byte) /\ Len(a) = IF i + m <= i + n THEN i + n - (i + m) + 1 ELSE 0
      /\ \A j \in 1..(i + n - (i + m) + 1) : a[j] = t[i + m + j - 1]
  <2>1. i + m \in Int /\ i + n \in Int
    OBVIOUS
  <2>2. QED BY <1>2, <2>1, SubSeqProperties
<1> HIDE DEF a, b
<1>5. Len(a) = Len(b)
  BY <1>3, <1>4
<1>6. ASSUME NEW j \in 1..Len(b) PROVE a[j] = b[j]
  <2>1. j \in 1..(n - m + 1) /\ j \in 1..(i + n - (i + m) + 1) /\ m + j - 1 \in m..n
    BY <1>3
  <2>2. a[j] = t[i + m + j - 1] /\ b[j] = r[m + j - 1]
    BY <1>3, <1>4, <2>1
  <2>3. i + m + j - 1 = i + (m + j - 1)
    OBVIOUS
  <2>4. QED BY <1>1, <2>1, <2>2, <2>3
<1>7. QED BY <1>3, <1>4, <1>5, <1>6, SeqEqual DEF a, b

\* What the client sees of the first frame in its buffer is what the parser sees
\* of the frame at the buffer's place in any longer stream.
LEMMA FrameMatches ==
    ASSUME NEW r \in Seq(Byte), NEW t \in Seq(Byte), NEW i \in Nat, Matches(r, t, i)
    PROVE  /\ HasLength(r, 0) => HasLength(t, i) /\ LengthAt(t, i) = LengthAt(r, 0)
           /\ FrameAt(r, 0) =>
                 /\ FrameAt(t, i) /\ NextAt(t, i) = i + NextAt(r, 0)
                 /\ MessageAt(t, i, LengthAt(t, i)) = MessageAt(r, 0, LengthAt(r, 0))
           /\ BadAt(r, 0) => BadAt(t, i)
           /\ i + Len(r) = Len(t) =>
                 (FrameAt(t, i) <=> FrameAt(r, 0)) /\ (BadAt(t, i) <=> BadAt(r, 0))
<1>1. Len(r) \in Nat /\ Len(t) \in Nat /\ LenBytes \in Nat \ {0} /\ OpBytes \in Nat
      /\ i + Len(r) <= Len(t)
  BY FrameAssumption DEF Matches
<1>2. ASSUME HasLength(r, 0) PROVE HasLength(t, i) /\ LengthAt(t, i) = LengthAt(r, 0)
  <2>1. LenBytes \in 0..Len(r)
    BY <1>1, <1>2 DEF HasLength
  <2>2. SubSeq(t, i + 1, i + LenBytes) = SubSeq(r, 1, LenBytes)
    BY <2>1, PieceMatches
  <2>3. 0 + 1 = 1 /\ 0 + LenBytes = LenBytes
    BY <1>1
  <2>4. LengthAt(t, i) = LengthAt(r, 0)
    BY <2>2, <2>3, Zenon DEF LengthAt
  <2>5. HasLength(t, i)
    BY <1>1, <2>1 DEF HasLength
  <2>6. QED BY <2>4, <2>5
<1>3. ASSUME FrameAt(r, 0)
      PROVE  /\ FrameAt(t, i) /\ NextAt(t, i) = i + NextAt(r, 0)
             /\ MessageAt(t, i, LengthAt(t, i)) = MessageAt(r, 0, LengthAt(r, 0))
  <2> DEFINE n == LengthAt(r, 0)
  <2>1. n \in Nat /\ OpBytes <= n /\ LenBytes + n <= Len(r)
    BY <1>1, <1>3, NextFacts DEF FrameAt
  <2>2. HasLength(t, i) /\ LengthAt(t, i) = n
    BY <1>2, <1>3 DEF FrameAt
  <2> HIDE DEF n
  <2>3. FrameAt(t, i) /\ NextAt(t, i) = i + NextAt(r, 0)
    BY <1>1, <1>3, <2>1, <2>2 DEF FrameAt, NextAt, n
  <2>4. SubSeq(t, i + (LenBytes + 1), i + (LenBytes + OpBytes))
          = SubSeq(r, LenBytes + 1, LenBytes + OpBytes)
    <3>1. LenBytes + OpBytes \in 0..Len(r) /\ LenBytes + 1 \in Nat \ {0}
      BY <1>1, <2>1
    <3>2. QED BY <3>1, PieceMatches
  <2>5. SubSeq(t, i + (LenBytes + OpBytes + 1), i + (LenBytes + n))
          = SubSeq(r, LenBytes + OpBytes + 1, LenBytes + n)
    <3>1. LenBytes + n \in 0..Len(r) /\ LenBytes + OpBytes + 1 \in Nat \ {0}
      BY <1>1, <2>1
    <3>2. QED BY <3>1, PieceMatches
  <2>6. /\ i + LenBytes + 1 = i + (LenBytes + 1) /\ 0 + LenBytes + 1 = LenBytes + 1
        /\ i + LenBytes + OpBytes = i + (LenBytes + OpBytes)
        /\ 0 + LenBytes + OpBytes = LenBytes + OpBytes
        /\ i + LenBytes + OpBytes + 1 = i + (LenBytes + OpBytes + 1)
        /\ 0 + LenBytes + OpBytes + 1 = LenBytes + OpBytes + 1
        /\ i + LenBytes + n = i + (LenBytes + n) /\ 0 + LenBytes + n = LenBytes + n
    BY <1>1, <2>1
  <2>7. MessageAt(t, i, n) = MessageAt(r, 0, n)
    BY <2>4, <2>5, <2>6, Zenon DEF MessageAt
  <2>8. QED BY <2>2, <2>3, <2>7 DEF n
<1>4. BadAt(r, 0) => BadAt(t, i)
  BY <1>2 DEF BadAt
<1>5. ASSUME i + Len(r) = Len(t)
      PROVE  (FrameAt(t, i) <=> FrameAt(r, 0)) /\ (BadAt(t, i) <=> BadAt(r, 0))
  <2>1. HasLength(t, i) <=> HasLength(r, 0)
    BY <1>1, <1>5 DEF HasLength
  <2>2. BadAt(t, i) <=> BadAt(r, 0)
    BY <1>2, <2>1 DEF BadAt
  <2>3. ASSUME FrameAt(t, i) PROVE FrameAt(r, 0)
    <3>1. HasLength(r, 0) /\ LengthAt(r, 0) = LengthAt(t, i) /\ InBounds(LengthAt(r, 0))
      BY <1>2, <2>1, <2>3 DEF FrameAt
    <3>2. LengthAt(r, 0) \in Nat
      BY <3>1, FrameAssumption DEF InBounds
    <3>3. QED BY <1>1, <1>5, <2>3, <3>1, <3>2 DEF FrameAt
  <2>4. QED BY <1>3, <2>2, <2>3
<1>6. QED BY <1>2, <1>3, <1>4, <1>5

-----------------------------------------------------------------------------
(* The client's inductive invariant.                                       *)

\* The offset of the buffer in the stream, and all the streams that may still
\* come of what has been read.
Parsed == taken - Len(rx)
Ahead == {t \in Seq(Byte) : taken <= Len(t) /\ \A j \in 1..taken : t[j] = inbound[j]}

\* The buffer is what has been read and not parsed; whatever comes, the messages
\* emitted are what the parser finds before the buffer; and the loop does not
\* stop before a frame.  Quantifying over all continuations makes this inductive:
\* reading on only rules out some of them.
BufferOK == Len(rx) <= taken /\ Matches(rx, inbound, Parsed)
OutOK ==
    \A t \in Ahead :
        /\ Parse(t).messages = out \o ParseFrom(t)[Parsed].messages
        /\ Parse(t).bad = ParseFrom(t)[Parsed].bad
Settled == loop = "no" => ~FrameAt(rx, 0) /\ ~BadAt(rx, 0)
Live == BufferOK /\ OutOK /\ Settled
\* After a length out of bounds the messages stand, whatever might have come.
Rejected ==
    /\ rx = <<>> /\ loop = "no" /\ sock \in {"closing", "unconnected"}
    /\ \A t \in Ahead : Parse(t).messages = out

ClientInv == ClientTypeOK /\ StateTracksSocket /\ (Live \/ Rejected)

\* The model's tests on the buffer in the terms of the parser.
LEMMA FirstFrame ==
    ASSUME rx \in Seq(Byte)
    PROVE  /\ Malformed <=> BadAt(rx, 0)
           /\ Complete <=> FrameAt(rx, 0)
           /\ frameLen = LengthAt(rx, 0)
<1>1. 0 + 1 = 1 /\ 0 + LenBytes = LenBytes /\ Len(rx) \in Nat /\ LenBytes \in Nat
  BY FrameAssumption
<1>2. frameLen = LengthAt(rx, 0)
  BY <1>1, Zenon DEF frameLen, LengthAt
<1>3. HasLength(rx, 0) <=> Len(rx) >= LenBytes
  BY <1>1 DEF HasLength
<1>4. Malformed <=> BadAt(rx, 0)
  BY <1>2, <1>3 DEF Malformed, BadAt
<1>5. InBounds(frameLen) => frameLen \in Nat
  BY FrameAssumption DEF InBounds
<1>6. InBounds(frameLen) =>
        (Len(rx) >= LenBytes + frameLen <=> 0 + LenBytes + frameLen <= Len(rx))
  BY <1>1, <1>5
<1>7. Complete <=> FrameAt(rx, 0)
  BY <1>2, <1>3, <1>6 DEF Complete, FrameAt
<1>8. QED BY <1>2, <1>4, <1>7

LEMMA StateNext ==
    ClientTypeOK /\ StateTracksSocket /\ [ClientNext]_clientVars => StateTracksSocket'
<1> SUFFICES ASSUME ClientTypeOK, StateTracksSocket, [ClientNext]_clientVars
             PROVE  StateTracksSocket'
  OBVIOUS
<1> USE DEF StateTracksSocket
<1>1. ASSUME NEW tok \in BOOLEAN, connectToService(tok) PROVE StateTracksSocket'
  BY <1>1 DEF connectToService, connectToServer, Connected
<1>2. CASE disconnectFromService
  BY <1>2 DEF disconnectFromService, disconnectFromServer
<1>3. CASE onConnected
  BY <1>3 DEF onConnected, Connected, ClientTypeOK
<1>4. CASE onSocketError \/ onDisconnected
  BY <1>4 DEF onSocketError, onDisconnected
<1>5. CASE drainRejects
  BY <1>5 DEF drainRejects, disconnectFromServer
<1>6. CASE sendCommand \/ onReadyRead \/ drainWaits \/ drainEmits \/ Flushed
           \/ (\E b \in Byte : PeerSends(b)) \/ UNCHANGED clientVars
  BY <1>6 DEF sendCommand, onReadyRead, drainWaits, drainEmits, Flushed, PeerSends,
     client, socket, wire, clientVars
<1>7. QED BY <1>1, <1>2, <1>3, <1>4, <1>5, <1>6 DEF ClientNext, drainFrames

LEMMA TypeNext == ClientTypeOK /\ [ClientNext]_clientVars => ClientTypeOK'
<1> SUFFICES ASSUME ClientTypeOK, [ClientNext]_clientVars PROVE ClientTypeOK'
  OBVIOUS
<1> USE DEF ClientTypeOK, State
<1>0. MaxConnects \in Nat
  BY ClientBoundsAssumption
<1>1. ASSUME NEW tok \in BOOLEAN, connectToService(tok) PROVE ClientTypeOK'
  BY <1>0, <1>1 DEF connectToService, connectToServer, Connected
<1>2. CASE disconnectFromService
  BY <1>2 DEF disconnectFromService, disconnectFromServer, wire
<1>3. CASE onConnected
  BY <1>3 DEF onConnected, Connected, wire
<1>4. CASE onSocketError \/ onDisconnected
  BY <1>4 DEF onSocketError, onDisconnected, wire
<1>5. CASE drainRejects
  BY <1>5 DEF drainRejects, disconnectFromServer, wire
<1>6. CASE sendCommand \/ drainWaits \/ Flushed \/ UNCHANGED clientVars
  BY <1>6 DEF sendCommand, drainWaits, Flushed, client, socket, wire, clientVars
<1>7. CASE onReadyRead
  <2>1. PICK k \in (taken + 1)..Len(inbound) :
          rx' = rx \o SubSeq(inbound, taken + 1, k) /\ taken' = k
    BY <1>7 DEF onReadyRead
  <2>2. SubSeq(inbound, taken + 1, k) \in Seq(Byte)
    BY PieceType
  <2>3. rx' \in Seq(Byte)
    BY <2>1, <2>2, ConcatProperties
  <2>4. QED BY <1>7, <2>1, <2>3 DEF onReadyRead, socket
<1>8. CASE drainEmits
  <2>1. FrameAt(rx, 0) /\ frameLen = LengthAt(rx, 0) /\ frameLen \in Nat
    BY <1>8, FirstFrame, NextFacts DEF drainEmits
  <2>2. MessageAt(rx, 0, frameLen) \in Message
    BY <2>1, MessageType
  <2>3. out' \in Seq(Message)
    BY <1>8, <2>2 DEF drainEmits, Message
  <2>4. rx' \in Seq(Byte)
    <3>1. LenBytes + frameLen + 1 \in Nat \ {0} /\ Len(rx) \in 0..Len(rx)
      BY <2>1, FrameAssumption
    <3>2. QED BY <1>8, <3>1, PieceType DEF drainEmits
  <2>5. QED BY <1>8, <2>3, <2>4 DEF drainEmits, socket, Message
<1>9. ASSUME NEW b \in Byte, PeerSends(b) PROVE ClientTypeOK'
  BY <1>9 DEF PeerSends, client, socket
<1>10. QED BY <1>1, <1>2, <1>3, <1>4, <1>5, <1>6, <1>7, <1>8, <1>9
       DEF ClientNext, drainFrames

LEMMA ReadFacts ==
    ASSUME ClientTypeOK
    PROVE  Read \in Seq(Byte) /\ Read \in Ahead /\ Len(Read) = taken
<1>1. taken \in Nat /\ taken <= Len(inbound) /\ inbound \in Seq(Byte)
  BY DEF ClientTypeOK
<1>2. Read \in Seq(Byte) /\ Len(Read) = taken /\ \A j \in 1..taken : Read[j] = inbound[j]
  BY <1>1, SubSeqProperties DEF Read
<1>3. QED BY <1>1, <1>2 DEF Ahead

LEMMA BufferFacts ==
    ASSUME ClientTypeOK, BufferOK
    PROVE  /\ Parsed \in 0..taken /\ Parsed + Len(rx) = taken
           /\ \A t \in Ahead : t \in Seq(Byte) /\ Parsed \in 0..Len(t) /\ Matches(rx, t, Parsed)
<1>1. Len(rx) \in Nat /\ taken \in Nat /\ taken <= Len(inbound) /\ inbound \in Seq(Byte)
  BY DEF ClientTypeOK
<1>2. Parsed \in 0..taken /\ Parsed + Len(rx) = taken
  BY <1>1 DEF BufferOK, Parsed
<1>3. ASSUME NEW t \in Ahead
      PROVE  t \in Seq(Byte) /\ Parsed \in 0..Len(t) /\ Matches(rx, t, Parsed)
  <2>1. t \in Seq(Byte) /\ taken <= Len(t) /\ \A j \in 1..taken : t[j] = inbound[j]
    BY DEF Ahead
  <2>2. \A j \in 1..Len(rx) : Parsed + j \in 1..taken
    BY <1>1, <1>2
  <2>3. \A j \in 1..Len(rx) : rx[j] = t[Parsed + j]
    BY <2>1, <2>2 DEF BufferOK, Matches
  <2>4. QED BY <1>1, <1>2, <2>1, <2>3 DEF Matches
<1>4. QED BY <1>2, <1>3

\* Where the buffer holds no frame, the parser stops too.
LEMMA ParseEnds ==
    ASSUME ClientTypeOK, BufferOK, OutOK, ~FrameAt(rx, 0)
    PROVE  Parse(Read).messages = out /\ Parse(Read).bad = BadAt(rx, 0)
<1>1. /\ Read \in Seq(Byte) /\ Parsed \in 0..Len(Read) /\ Matches(rx, Read, Parsed)
      /\ Parsed + Len(rx) = Len(Read) /\ Parsed \in Nat /\ Read \in Ahead
  BY BufferFacts, ReadFacts
<1>2. ~FrameAt(Read, Parsed) /\ (BadAt(Read, Parsed) <=> BadAt(rx, 0))
  BY <1>1, FrameMatches DEF ClientTypeOK
<1>3. BadAt(Read, Parsed) = BadAt(rx, 0)
  BY <1>2 DEF BadAt
<1>4. ParseFrom(Read)[Parsed].messages = <<>> /\ ParseFrom(Read)[Parsed].bad = BadAt(rx, 0)
  BY <1>1, <1>2, <1>3, ParseHere
<1>5. out \in Seq(Message)
  BY DEF ClientTypeOK, Message
<1>6. out \o <<>> = out
  BY <1>5, ConcatEmptySeq
<1>7. QED BY <1>1, <1>4, <1>6 DEF OutOK

LEMMA EmptyBuffer == ~FrameAt(<<>>, 0) /\ ~BadAt(<<>>, 0)
  BY FrameAssumption DEF FrameAt, BadAt, HasLength

\* A message moves from the front of the buffer to the end of those emitted.
LEMMA EmitsLive ==
    ASSUME ClientTypeOK, ClientTypeOK', Live, drainEmits
    PROVE  Live'
<1> DEFINE n == LengthAt(rx, 0)
           m == MessageAt(rx, 0, n)
<1>1. FrameAt(rx, 0) /\ frameLen = n
  BY FirstFrame DEF drainEmits, ClientTypeOK
<1>2. rx \in Seq(Byte) /\ Len(rx) \in Nat /\ taken \in Nat /\ LenBytes \in Nat
  BY FrameAssumption DEF ClientTypeOK
<1>3. n \in Nat /\ LenBytes + n <= Len(rx) /\ m \in Message
  BY <1>1, <1>2, NextFacts, MessageType DEF FrameAt
<1>4. /\ out' = Append(out, m) /\ rx' = SubSeq(rx, LenBytes + n + 1, Len(rx))
      /\ loop' = "slot" /\ UNCHANGED <<inbound, taken>>
  BY <1>1 DEF drainEmits
<1> HIDE DEF n, m
<1>5. /\ Len(rx') = Len(rx) - (LenBytes + n)
      /\ \A j \in 1..Len(rx') : rx'[j] = rx[LenBytes + n + j]
  <2>1. \A j \in (LenBytes + n + 1)..Len(rx) : rx[j] \in Byte
    BY <1>2, <1>3
  <2>2. /\ Len(rx') = IF LenBytes + n + 1 <= Len(rx) THEN Len(rx) - (LenBytes + n + 1) + 1 ELSE 0
        /\ \A j \in 1..(Len(rx) - (LenBytes + n + 1) + 1) : rx'[j] = rx[(LenBytes + n + 1) + j - 1]
    BY <1>2, <1>3, <1>4, <2>1, SubSeqProperties
  <2>3. Len(rx') = Len(rx) - (LenBytes + n)
    BY <1>2, <1>3, <2>2
  <2>4. \A j \in 1..Len(rx') : (LenBytes + n + 1) + j - 1 = LenBytes + n + j
    BY <1>2, <1>3, <2>3
  <2>5. \A j \in 1..Len(rx') : j \in 1..(Len(rx) - (LenBytes + n + 1) + 1)
    BY <1>2, <1>3, <2>3
  <2>6. QED BY <2>2, <2>3, <2>4, <2>5
<1>6. Parsed' = Parsed + (LenBytes + n) /\ Parsed \in Nat /\ Parsed + Len(rx) = taken
  <2>1. Parsed \in Nat /\ Parsed + Len(rx) = taken
    BY <1>2, BufferFacts DEF Live
  <2>2. Parsed' = taken - Len(rx') /\ Parsed = taken - Len(rx)
    BY <1>4 DEF Parsed
  <2>3. taken - Len(rx') = taken - Len(rx) + (LenBytes + n)
    BY <1>2, <1>3, <1>5
  <2>4. QED BY <2>1, <2>2, <2>3
<1>7. BufferOK'
  <2>1. \A j \in 1..Len(rx') : LenBytes + n + j \in 1..Len(rx)
                               /\ Parsed + (LenBytes + n + j) = Parsed' + j
    BY <1>2, <1>3, <1>5, <1>6
  <2>2. \A j \in 1..Len(rx') : rx'[j] = inbound[Parsed' + j]
    BY <1>5, <2>1 DEF Live, BufferOK, Matches
  <2>3. Len(rx') <= taken /\ Parsed' + Len(rx') <= Len(inbound)
    <3>1. taken <= Len(inbound) /\ Len(inbound) \in Nat
      BY DEF ClientTypeOK
    <3> HIDE DEF Parsed
    <3>2. QED BY <1>2, <1>3, <1>5, <1>6, <3>1
  <2>4. QED BY <1>4, <2>2, <2>3 DEF BufferOK, Matches
<1>8. OutOK'
  <2>1. Ahead' = Ahead
    BY <1>4 DEF Ahead
  <2>2. SUFFICES ASSUME NEW t \in Ahead
                 PROVE  /\ Parse(t).messages = out' \o ParseFrom(t)[Parsed'].messages
                        /\ Parse(t).bad = ParseFrom(t)[Parsed'].bad
    BY <2>1 DEF OutOK
  <2>3. t \in Seq(Byte) /\ Parsed \in 0..Len(t) /\ Matches(rx, t, Parsed)
    BY BufferFacts DEF Live
  <2>4. /\ FrameAt(t, Parsed) /\ NextAt(t, Parsed) = Parsed + NextAt(rx, 0)
        /\ MessageAt(t, Parsed, LengthAt(t, Parsed)) = m
    BY <1>1, <1>2, <1>6, <2>3, FrameMatches DEF m, n
  <2>5. NextAt(t, Parsed) = Parsed'
    BY <1>2, <1>3, <1>6, <2>4 DEF NextAt, n
  <2> DEFINE rest == ParseFrom(t)[Parsed']
  <2>6. ParseFrom(t)[Parsed].messages = <<m>> \o rest.messages /\ ParseFrom(t)[Parsed].bad = rest.bad
    BY <2>3, <2>4, <2>5, ParseHere
  <2>7. rest \in Result
    BY <2>3, <2>4, <2>5, NextFacts, ParseTyped
  <2> HIDE DEF rest
  <2>8. out \in Seq(Message) /\ <<m>> \in Seq(Message) /\ rest.messages \in Seq(Message)
    BY <1>3, <2>7 DEF ClientTypeOK, Message, Result
  <2>9. out \o (<<m>> \o rest.messages) = out' \o rest.messages
    <3>1. out' = out \o <<m>>
      BY <1>4, <2>8, AppendIsConcat
    <3>2. (out \o <<m>>) \o rest.messages = out \o (<<m>> \o rest.messages)
      <4>1. \A x, y, z \in Seq(Message) : (x \o y) \o z = x \o (y \o z)
        BY ConcatAssociative
      <4>2. QED BY <2>8, <4>1, Zenon
    <3>3. QED BY <3>1, <3>2
  <2>10. QED BY <2>6, <2>9 DEF Live, OutOK, rest
<1>9. QED BY <1>4, <1>7, <1>8 DEF Live, Settled

\* A portion of any size is appended at the buffer's end.
LEMMA ReadLive ==
    ASSUME ClientTypeOK, ClientTypeOK', Live, onReadyRead
    PROVE  Live'
<1>1. PICK k \in (taken + 1)..Len(inbound) :
        rx' = rx \o SubSeq(inbound, taken + 1, k) /\ taken' = k
  BY DEF onReadyRead
<1>2. /\ rx \in Seq(Byte) /\ inbound \in Seq(Byte) /\ taken \in Nat /\ Len(rx) \in Nat
      /\ Len(inbound) \in Nat /\ k \in Nat /\ taken < k /\ k <= Len(inbound)
      /\ loop' = "frames" /\ UNCHANGED <<inbound, out>>
  BY <1>1 DEF ClientTypeOK, onReadyRead
<1> DEFINE piece == SubSeq(inbound, taken + 1, k)
<1>3. /\ piece \in Seq(Byte) /\ Len(piece) = k - taken
      /\ \A j \in 1..(k - taken) : piece[j] = inbound[taken + j]
  <2>1. \A j \in (taken + 1)..k : inbound[j] \in Byte
    BY <1>2
  <2>2. /\ piece \in Seq(Byte)
        /\ Len(piece) = IF taken + 1 <= k THEN k - (taken + 1) + 1 ELSE 0
        /\ \A j \in 1..(k - (taken + 1) + 1) : piece[j] = inbound[taken + 1 + j - 1]
    BY <1>2, <2>1, SubSeqProperties
  <2>3. k - (taken + 1) + 1 = k - taken /\ taken + 1 <= k
    BY <1>2
  <2>4. \A j \in 1..(k - taken) : taken + 1 + j - 1 = taken + j
    BY <1>2
  <2> HIDE DEF piece
  <2>5. QED BY <2>2, <2>3, <2>4
<1> HIDE DEF piece
<1>4. /\ Len(rx') = Len(rx) + (k - taken)
      /\ \A j \in 1..(Len(rx) + (k - taken)) :
            rx'[j] = IF j <= Len(rx) THEN rx[j] ELSE piece[j - Len(rx)]
  BY <1>1, <1>2, <1>3, ConcatProperties DEF piece
<1>5. Parsed \in Nat /\ Parsed + Len(rx) = taken
  BY <1>2, BufferFacts DEF Live
<1>6. Parsed' = Parsed
  BY <1>1, <1>2, <1>4, <1>5 DEF Parsed
<1>7. BufferOK'
  <2>1. ASSUME NEW j \in 1..Len(rx') PROVE rx'[j] = inbound[Parsed + j]
    <3>1. CASE j <= Len(rx)
      <4>1. j \in 1..Len(rx) /\ j \in 1..(Len(rx) + (k - taken))
        BY <1>2, <1>4, <3>1
      <4>2. QED BY <1>4, <3>1, <4>1 DEF Live, BufferOK, Matches
    <3>2. CASE ~(j <= Len(rx))
      <4>1. /\ j \in 1..(Len(rx) + (k - taken)) /\ j - Len(rx) \in 1..(k - taken)
            /\ taken + (j - Len(rx)) = Parsed + j
        <5> HIDE DEF Parsed
        <5>1. j \in Nat /\ j <= Len(rx) + (k - taken) /\ j > Len(rx) /\ j >= 1
          BY <1>2, <1>4, <3>2
        <5>2. QED BY <1>2, <1>5, <5>1
      <4>2. QED BY <1>3, <1>4, <3>2, <4>1
    <3>3. QED BY <3>1, <3>2
  <2>2. Len(rx') <= k /\ Parsed + Len(rx') <= Len(inbound)
    BY <1>2, <1>4, <1>5
  <2>3. QED BY <1>1, <1>2, <1>6, <2>1, <2>2 DEF BufferOK, Matches
<1>8. Ahead' \subseteq Ahead
  BY <1>1, <1>2 DEF Ahead
<1>9. OutOK'
  BY <1>2, <1>6, <1>8 DEF Live, OutOK
<1>10. QED BY <1>2, <1>7, <1>9 DEF Live, Settled

\* Bytes not yet read change nothing.
LEMMA SendsLive ==
    ASSUME ClientTypeOK, Live, NEW b \in Byte, PeerSends(b)
    PROVE  Live'
<1>1. /\ inbound' = Append(inbound, b) /\ UNCHANGED <<rx, loop, taken, out>>
      /\ inbound \in Seq(Byte) /\ taken <= Len(inbound) /\ taken \in Nat
  BY DEF PeerSends, client, ClientTypeOK
<1>2. Len(inbound') = Len(inbound) + 1 /\ \A j \in 1..taken : inbound'[j] = inbound[j]
  BY <1>1
<1>3. Parsed \in Nat /\ Parsed + Len(rx) = taken /\ Len(rx) \in Nat /\ Parsed' = Parsed
  <2>1. Parsed \in Nat /\ Parsed + Len(rx) = taken
    BY <1>1, BufferFacts DEF Live
  <2>2. QED BY <1>1, <2>1 DEF Parsed, ClientTypeOK
<1>4. Ahead' = Ahead
  BY <1>1, <1>2 DEF Ahead
<1>5. OutOK'
  BY <1>1, <1>3, <1>4 DEF Live, OutOK
<1>6. BufferOK'
  <2>1. \A j \in 1..Len(rx) : Parsed + j \in 1..taken
    BY <1>1, <1>3
  <2>2. \A j \in 1..Len(rx) : rx[j] = inbound'[Parsed + j]
    BY <1>2, <2>1 DEF Live, BufferOK, Matches
  <2>3. Parsed + Len(rx) <= Len(inbound')
    BY <1>1, <1>2, <1>3
  <2>4. QED BY <1>1, <1>3, <2>2, <2>3 DEF Live, BufferOK, Matches
<1>7. QED BY <1>1, <1>5, <1>6 DEF Live, Settled

\* A new connection starts with an empty buffer.
Fresh == rx = <<>> /\ inbound = <<>> /\ taken = 0 /\ out = <<>>

LEMMA FreshLive == Fresh => Live
<1>0. 0 - Len(<<>>) = 0
  <2>1. Len(<<>>) = 0
    OBVIOUS
  <2>2. \A n : n = 0 => 0 - n = 0
    OBVIOUS
  <2>3. QED BY <2>1, <2>2, Zenon
<1> SUFFICES ASSUME Fresh PROVE Live
  OBVIOUS
<1> USE DEF Fresh
<1>1. Parsed = 0
  BY <1>0, Zenon DEF Parsed
<1>2. BufferOK
  BY <1>1 DEF BufferOK, Matches
<1>3. OutOK
  <2>1. SUFFICES ASSUME NEW t \in Ahead
                 PROVE  Parse(t).messages = <<>> \o ParseFrom(t)[0].messages
    BY <1>1 DEF OutOK, Parse
  <2>2. t \in Seq(Byte) /\ 0 \in 0..Len(t)
    BY DEF Ahead
  <2>3. ParseFrom(t)[0].messages \in Seq(Message)
    BY <2>2, ParseTyped DEF Result
  <2>4. QED BY <2>3, ConcatEmptySeq DEF Parse
<1>4. Settled
  BY EmptyBuffer DEF Settled
<1>5. QED BY <1>2, <1>3, <1>4 DEF Live

LEMMA StreamNext ==
    ClientInv /\ ClientTypeOK' /\ [ClientNext]_clientVars => (Live \/ Rejected)'
<1> SUFFICES ASSUME ClientInv, ClientTypeOK', [ClientNext]_clientVars
             PROVE  Live' \/ Rejected'
  OBVIOUS
<1>0. ClientTypeOK /\ (Live \/ Rejected)
  BY DEF ClientInv
<1>1. ASSUME NEW tok \in BOOLEAN, connectToService(tok) PROVE Live'
  <2>1. Fresh'
    BY <1>1 DEF connectToService, connectToServer, Fresh
  <2>2. QED BY <2>1, FreshLive, PTL
<1>2. ASSUME UNCHANGED <<rx, loop, inbound, taken, out>>,
             sock \in {"closing", "unconnected"} => sock' \in {"closing", "unconnected"}
      PROVE  Live' \/ Rejected'
  <2>1. Live => Live'
    BY <1>2 DEF Live, BufferOK, OutOK, Settled, Parsed, Ahead
  <2>2. Rejected => Rejected'
    BY <1>2 DEF Rejected, Ahead
  <2>3. QED BY <1>0, <2>1, <2>2
<1>3. CASE disconnectFromService \/ onConnected \/ onSocketError \/ onDisconnected
           \/ sendCommand \/ Flushed \/ UNCHANGED clientVars
  BY <1>2, <1>3 DEF disconnectFromService, disconnectFromServer, onConnected, onSocketError,
     onDisconnected, sendCommand, Flushed, client, socket, wire, clientVars
<1>4. CASE onReadyRead
  BY <1>0, <1>4, ReadLive DEF Rejected, onReadyRead
<1>5. CASE drainWaits
  <2>1. Live /\ ~FrameAt(rx, 0) /\ ~BadAt(rx, 0) /\ UNCHANGED <<rx, inbound, taken, out>>
    BY <1>0, <1>5, FirstFrame DEF drainWaits, Rejected, wire, ClientTypeOK
  <2>2. QED BY <2>1 DEF Live, BufferOK, OutOK, Settled, Parsed, Ahead
<1>6. CASE drainRejects
  <2>1. /\ Live /\ BadAt(rx, 0) /\ rx' = <<>> /\ loop' = "no" /\ UNCHANGED <<inbound, taken, out>>
        /\ sock' \in {"closing", "unconnected"}
    BY <1>0, <1>6, FirstFrame
       DEF drainRejects, disconnectFromServer, Rejected, wire, ClientTypeOK
  <2>3. ASSUME NEW t \in Ahead PROVE Parse(t).messages = out
    <3>1. t \in Seq(Byte) /\ Parsed \in 0..Len(t) /\ Parsed \in Nat /\ Matches(rx, t, Parsed)
      BY <1>0, <2>1, BufferFacts DEF Live
    <3>2. BadAt(t, Parsed)
      BY <1>0, <2>1, <3>1, FrameMatches DEF ClientTypeOK
    <3>3. ParseFrom(t)[Parsed].messages = <<>>
      BY <3>1, <3>2, ParseHere DEF BadAt, FrameAt
    <3>4. out \in Seq(Message)
      BY <1>0 DEF ClientTypeOK, Message
    <3>5. QED BY <2>1, <3>3, <3>4, ConcatEmptySeq DEF Live, OutOK
  <2>4. Ahead' = Ahead
    BY <2>1 DEF Ahead
  <2>5. QED BY <2>1, <2>3, <2>4 DEF Rejected
<1>7. CASE drainEmits
  BY <1>0, <1>7, EmitsLive DEF Rejected, drainEmits
<1>8. ASSUME NEW b \in Byte, PeerSends(b) PROVE Live'
  BY <1>0, <1>8, SendsLive DEF Rejected, PeerSends
<1>9. QED BY <1>1, <1>3, <1>4, <1>5, <1>6, <1>7, <1>8 DEF ClientNext, drainFrames

LEMMA ClientInvariant == ClientSpec => []ClientInv
<1>1. ClientInit => ClientInv
  <2> SUFFICES ASSUME ClientInit PROVE ClientInv
    OBVIOUS
  <2>1. ClientTypeOK
    <3>1. <<>> \in Seq(Byte) /\ <<>> \in Seq([opcode : Nat, payload : Seq(Byte)])
      OBVIOUS
    <3>2. 0 \in 0..MaxConnects /\ 0 \in 0..Len(<<>>)
      BY ClientBoundsAssumption
    <3>3. QED BY <3>1, <3>2 DEF ClientInit, ClientTypeOK, State
  <2>2. StateTracksSocket
    BY DEF ClientInit, StateTracksSocket
  <2>3. Live
    BY FreshLive DEF ClientInit, Fresh
  <2>4. QED BY <2>1, <2>2, <2>3 DEF ClientInv
<1>2. ClientInv /\ [ClientNext]_clientVars => ClientInv'
  BY StateNext, TypeNext, StreamNext DEF ClientInv
<1>3. QED BY <1>1, <1>2, PTL DEF ClientSpec

\* The types of the client, its parser and the wire; no more is read than was sent.
THEOREM TypeCorrect == ClientSpec => []ClientTypeOK
<1>1. ClientInv => ClientTypeOK
  BY DEF ClientInv
<1>2. QED BY <1>1, ClientInvariant, PTL

\* ServiceClient.cpp:34-90: after every slot and every signal of the socket,
\* Ready and Authenticating mean a live socket, and a live socket one of them.
THEOREM StateAlwaysTracksSocket == ClientSpec => []StateTracksSocket
<1>1. ClientInv => StateTracksSocket
  BY DEF ClientInv
<1>2. QED BY <1>1, ClientInvariant, PTL

\* ServiceClient.cpp:120-126: a length out of bounds, once the loop is over, has
\* taken the connection down, for any frame format and any portions read.
THEOREM MalformedAlwaysFinal == ClientSpec => []MalformedIsFinal
<1>1. ClientInv => MalformedIsFinal
  <2> SUFFICES ASSUME ClientInv, loop = "no", Parse(Read).bad
               PROVE  sock # "connected" /\ rx = <<>>
    BY DEF MalformedIsFinal
  <2>1. CASE Live
    BY <2>1, ParseEnds DEF ClientInv, Live, Settled
  <2>2. CASE Rejected
    BY <2>2 DEF Rejected
  <2>3. QED BY <2>1, <2>2 DEF ClientInv
<1>2. QED BY <1>1, ClientInvariant, PTL

\* The messages emitted are the first of any stream that may still come.
LEMMA PrefixOfAhead ==
    ASSUME ClientInv, NEW t \in Ahead
    PROVE  IsPrefix(out, Parse(t).messages)
<1>1. ClientTypeOK /\ (Live \/ Rejected) /\ out \in Seq(Message)
  BY DEF ClientInv, ClientTypeOK, Message
<1>2. PICK rest \in Seq(Message) : Parse(t).messages = out \o rest
  <2>1. CASE Live
    <3>1. t \in Seq(Byte) /\ Parsed \in 0..Len(t)
      BY <1>1, <2>1, BufferFacts DEF Live
    <3>2. ParseFrom(t)[Parsed].messages \in Seq(Message)
      BY <3>1, ParseTyped DEF Result
    <3>3. QED BY <2>1, <3>2 DEF Live, OutOK
  <2>2. CASE Rejected
    BY <1>1, <2>2, ConcatEmptySeq, <<>> \in Seq(Message) DEF Rejected
  <2>3. QED BY <1>1, <2>1, <2>2
<1>3. /\ Len(out) \in Nat /\ Len(out) <= Len(out \o rest)
      /\ \A i \in 1..Len(out) : (out \o rest)[i] = out[i]
  BY <1>1, <1>2, ConcatProperties
<1>4. SubSeq(out, 1, Len(out)) = SubSeq(out \o rest, 1, Len(out))
  BY <1>1, <1>3
<1>5. QED BY <1>2, <1>3, <1>4 DEF IsPrefix

\* ServiceClient.cpp:101-144: for every stream of bytes, cut up in any way, with
\* slots that disconnect and reconnect in the middle of the loop, the messages
\* emitted are the first of those of the reference parser, and all of them
\* when an authenticated client is idle.
THEOREM StreamAlwaysIntact == ClientSpec => []StreamIntact
<1>1. ClientInv => StreamIntact
  <2> SUFFICES ASSUME ClientInv PROVE StreamIntact
    OBVIOUS
  <2>1. ClientTypeOK /\ (Live \/ Rejected) /\ Read \in Ahead
    BY ReadFacts DEF ClientInv
  <2>2. IsPrefix(out, Parse(Read).messages)
    BY <2>1, PrefixOfAhead
  <2>3. ASSUME loop = "no" PROVE out = Parse(Read).messages
    <3>1. CASE Rejected
      BY <2>1, <3>1 DEF Rejected
    <3>2. CASE Live
      BY <2>1, <2>3, <3>2, ParseEnds DEF Live, Settled
    <3>3. QED BY <2>1, <3>1, <3>2
  <2>4. QED BY <2>2, <2>3 DEF StreamIntact
<1>2. QED BY <1>1, ClientInvariant, PTL

\* ServiceClient.cpp:106-144: what has been emitted is right of the whole stream,
\* the bytes that have not been read included: no message depends on what
\* follows it.
THEOREM NothingTakenBack == ClientSpec => []IsPrefix(out, Parse(inbound).messages)
<1>1. ClientInv => IsPrefix(out, Parse(inbound).messages)
  <2> SUFFICES ASSUME ClientInv PROVE IsPrefix(out, Parse(inbound).messages)
    OBVIOUS
  <2>1. inbound \in Ahead
    BY DEF ClientInv, ClientTypeOK, Ahead
  <2>2. QED BY <2>1, PrefixOfAhead
<1>2. QED BY <1>1, ClientInvariant, PTL

==============================================================================
