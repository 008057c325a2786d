-------------------------- MODULE TransportProofs --------------------------
(***************************************************************************)
(* What TLAPS proves of one connection, for any number of requests, losses *)
(* and requests in flight, and however the bytes are cut.                  *)
(***************************************************************************)
EXTENDS Transport, FiniteSetTheorems, SequenceTheorems, TLAPS

\* A stream of whole frames.
Whole(s) == Len(s) % 2 = 0 /\ Aligned(s)

\* A stream without its first frame.
Rest(s) == SubSeq(s, 3, Len(s))

\* The stream to the server and the one to the client.
ToServer == serverBuf \o toServer
ToClient == clientBuf \o toClient

-----------------------------------------------------------------------------
(* Streams of frames.                                                      *)

\* Where the units of two streams stand in their concatenation.
LEMMA ConcatUnits ==
  ASSUME NEW U, NEW s \in Seq(U), NEW t \in Seq(U)
  PROVE  /\ s \o t \in Seq(U) /\ Len(s) \in Nat /\ Len(t) \in Nat
         /\ Len(s \o t) = Len(s) + Len(t) /\ DOMAIN (s \o t) = 1..(Len(s) + Len(t))
         /\ \A i \in 1..Len(s) : (s \o t)[i] = s[i]
         /\ \A i \in 1..Len(t) : (s \o t)[Len(s) + i] = t[i]
  OBVIOUS

\* A part of a stream.
LEMMA PartUnits ==
  ASSUME NEW U, NEW s \in Seq(U), NEW m \in Nat, m <= Len(s)
  PROVE  /\ SubSeq(s, m + 1, Len(s)) \in Seq(U) /\ Len(SubSeq(s, m + 1, Len(s))) = Len(s) - m
         /\ \A i \in 1..(Len(s) - m) : SubSeq(s, m + 1, Len(s))[i] = s[m + i]
         /\ SubSeq(s, 1, m) \in Seq(U) /\ Len(SubSeq(s, 1, m)) = m
         /\ \A i \in 1..m : SubSeq(s, 1, m)[i] = s[i]
  OBVIOUS

\* The first frame is taken from the first of two streams.
LEMMA RestOfConcat ==
  ASSUME NEW U, NEW s \in Seq(U), NEW t \in Seq(U), Len(s) >= 2
  PROVE  Rest(s) \in Seq(U) /\ Rest(s) \o t = Rest(s \o t)
<1>1. /\ s \o t \in Seq(U) /\ Len(s) \in Nat /\ Len(t) \in Nat
      /\ Len(s \o t) = Len(s) + Len(t)
      /\ \A i \in 1..Len(s) : (s \o t)[i] = s[i]
      /\ \A i \in 1..Len(t) : (s \o t)[Len(s) + i] = t[i]
  BY ConcatUnits
<1>2. /\ Rest(s) \in Seq(U) /\ Len(Rest(s)) = Len(s) - 2
      /\ \A i \in 1..(Len(s) - 2) : Rest(s)[i] = s[2 + i]
  <2>1. /\ SubSeq(s, 2 + 1, Len(s)) \in Seq(U) /\ Len(SubSeq(s, 2 + 1, Len(s))) = Len(s) - 2
        /\ \A i \in 1..(Len(s) - 2) : SubSeq(s, 2 + 1, Len(s))[i] = s[2 + i]
    BY 2 \in Nat, 2 <= Len(s), PartUnits
  <2>2. QED
    BY <2>1, 2 + 1 = 3 DEF Rest
<1>3. /\ Rest(s \o t) \in Seq(U) /\ Len(Rest(s \o t)) = Len(s) + Len(t) - 2
      /\ \A i \in 1..(Len(s) + Len(t) - 2) : Rest(s \o t)[i] = (s \o t)[2 + i]
  <2> DEFINE c == s \o t
  <2>1. c \in Seq(U) /\ 2 \in Nat /\ 2 <= Len(c) /\ 2 + 1 = 3 /\ Len(c) = Len(s) + Len(t)
    BY <1>1
  <2> HIDE DEF c
  <2>2. /\ Rest(c) \in Seq(U) /\ Len(Rest(c)) = Len(c) - 2
        /\ \A i \in 1..(Len(c) - 2) : Rest(c)[i] = c[2 + i]
    BY <2>1, PartUnits DEF Rest
  <2>3. QED
    BY <2>1, <2>2 DEF c
<1> DEFINE a == Rest(s)
           b == Rest(s \o t)
<1>4. /\ a \o t \in Seq(U) /\ Len(a \o t) = Len(a) + Len(t)
      /\ \A i \in 1..Len(a) : (a \o t)[i] = a[i]
      /\ \A i \in 1..Len(t) : (a \o t)[Len(a) + i] = t[i]
  <2> HIDE DEF a
  <2>1. a \in Seq(U)
    BY <1>2 DEF a
  <2>2. QED
    BY <2>1, ConcatUnits
<1> HIDE DEF a, b
<1>5. ASSUME NEW i \in 1..Len(a \o t)
      PROVE  (a \o t)[i] = b[i]
  <2>1. CASE i <= Len(s) - 2
    <3>1. (a \o t)[i] = a[i] /\ a[i] = s[2 + i]
      BY <1>1, <1>2, <1>4, <2>1 DEF a
    <3>2. b[i] = (s \o t)[2 + i] /\ (s \o t)[2 + i] = s[2 + i]
      BY <1>1, <1>2, <1>3, <1>4, <2>1 DEF a, b
    <3>3. QED
      BY <3>1, <3>2
  <2>2. CASE i > Len(s) - 2
    <3> DEFINE k == i + 2 - Len(s)
    <3>1. k \in 1..Len(t) /\ i = Len(s) - 2 + k
      <4>1. i \in Nat /\ i <= Len(s) - 2 + Len(t)
        BY <1>1, <1>2, <1>4 DEF a
      <4>2. QED
        BY <1>1, <2>2, <4>1
    <3> HIDE DEF k
    <3>2. (a \o t)[Len(a) + k] = t[k] /\ Len(a) + k = i
      BY <1>1, <1>2, <1>4, <3>1 DEF a
    <3>3. 2 + i = Len(s) + k
      BY <1>1, <3>1
    <3>4. b[i] = (s \o t)[2 + i]
      <4>1. i \in 1..(Len(s) + Len(t) - 2)
        BY <1>1, <1>2, <1>4 DEF a
      <4>2. QED
        BY <1>3, <4>1 DEF b
    <3>6. (s \o t)[Len(s) + k] = t[k]
      BY <1>1, <3>1
    <3>7. QED
      BY <3>2, <3>3, <3>4, <3>6
  <2>3. QED
    BY <1>1, <1>2, <1>4, <2>1, <2>2 DEF a
<1>6. a \o t = b
  <2>1. b \in Seq(U) /\ a \o t \in Seq(U) /\ Len(b) = Len(a \o t)
    BY <1>1, <1>2, <1>3, <1>4 DEF a, b
  <2>2. QED
    BY <1>5, <2>1, SeqEqual
<1>7. QED
  BY <1>2, <1>6 DEF a, b

\* Head and tail are those of the first stream.
LEMMA HeadTailOfConcat ==
  ASSUME NEW U, NEW s \in Seq(U), NEW t \in Seq(U), s # <<>>
  PROVE  s \o t # <<>> /\ Head(s \o t) = Head(s) /\ Tail(s \o t) = Tail(s) \o t
<1>1. /\ <<Head(s)>> \in Seq(U) /\ Tail(s) \in Seq(U) /\ s = <<Head(s)>> \o Tail(s)
  BY HeadTailProperties
<1> DEFINE h == Head(s)
           r == Tail(s)
<1>2. s \o t = <<h>> \o (r \o t)
  <2> HIDE DEF h, r
  <2>1. (<<h>> \o r) \o t = <<h>> \o (r \o t)
    BY <1>1, ConcatAssociative DEF h, r
  <2>2. QED
    BY <1>1, <2>1 DEF h, r
<1>3. r \o t \in Seq(U)
  BY <1>1, ConcatProperties
<1> DEFINE c == r \o t
<1>4. h \in U
  BY HeadTailProperties
<1> HIDE DEF h, c
<1>5. <<h>> \o c # <<>> /\ Head(<<h>> \o c) = h /\ Tail(<<h>> \o c) = c
  BY <1>3, <1>4 DEF c
<1>6. QED
  BY <1>2, <1>5 DEF h, c

\* What stands after the first of two streams.
LEMMA AfterConcat ==
  ASSUME NEW U, NEW s \in Seq(U), NEW t \in Seq(U), t # <<>>
  PROVE  LET i == Len(s) + 1
         IN  /\ i \in DOMAIN (s \o t) /\ (s \o t)[i] = Head(t)
             /\ SubSeq(s \o t, 1, i - 1) = s
             /\ SubSeq(s \o t, i + 1, Len(s \o t)) = Tail(t)
<1> DEFINE c == s \o t
           n == Len(s)
<1>1. /\ c \in Seq(U) /\ n \in Nat /\ Len(t) \in Nat /\ Len(c) = n + Len(t)
      /\ DOMAIN c = 1..(n + Len(t))
      /\ \A k \in 1..n : c[k] = s[k]
      /\ \A k \in 1..Len(t) : c[n + k] = t[k]
  BY ConcatUnits
<1>2. Len(t) >= 1
  BY <1>1, EmptySeq
<1>3. n + 1 \in DOMAIN c /\ c[n + 1] = Head(t)
  <2>1. 1 \in 1..Len(t) /\ Head(t) = t[1]
    BY <1>1, <1>2
  <2>2. QED
    BY <1>1, <2>1
<1> HIDE DEF c
<1>4. SubSeq(c, 1, n) = s
  <2>1. /\ SubSeq(c, 1, n) \in Seq(U) /\ Len(SubSeq(c, 1, n)) = n
        /\ \A k \in 1..n : SubSeq(c, 1, n)[k] = c[k]
    <3>1. n \in Nat /\ n <= Len(c)
      BY <1>1
    <3> HIDE DEF n
    <3>2. QED
      BY <1>1, <3>1, PartUnits
  <2>2. QED
    BY <1>1, <2>1, SeqEqual
<1>5. SubSeq(c, (n + 1) + 1, Len(c)) = Tail(t)
  <2> DEFINE r == SubSeq(c, (n + 1) + 1, Len(c))
  <2>1. /\ r \in Seq(U) /\ Len(r) = Len(c) - (n + 1)
        /\ \A k \in 1..(Len(c) - (n + 1)) : r[k] = c[(n + 1) + k]
    <3> DEFINE m == n + 1
    <3>1. m \in Nat /\ m <= Len(c)
      BY <1>1, <1>2
    <3> HIDE DEF m
    <3>2. /\ SubSeq(c, m + 1, Len(c)) \in Seq(U) /\ Len(SubSeq(c, m + 1, Len(c))) = Len(c) - m
          /\ \A k \in 1..(Len(c) - m) : SubSeq(c, m + 1, Len(c))[k] = c[m + k]
      BY <1>1, <3>1, PartUnits
    <3>3. QED
      BY <3>2 DEF m
  <2>2. /\ Tail(t) \in Seq(U) /\ Len(Tail(t)) = Len(t) - 1
        /\ \A k \in 1..(Len(t) - 1) : Tail(t)[k] = t[k + 1]
    BY <1>1, <1>2
  <2> HIDE DEF r, n
  <2>3. Len(r) = Len(t) - 1
    BY <1>1, <2>1
  <2>4. ASSUME NEW k \in 1..(Len(t) - 1) PROVE r[k] = Tail(t)[k]
    <3>1. k + 1 \in 1..Len(t) /\ (n + 1) + k = n + (k + 1) /\ k \in 1..(Len(c) - (n + 1))
      BY <1>1
    <3>2. QED
      BY <1>1, <2>1, <2>2, <3>1
  <2>5. r = Tail(t)
    BY <1>1, <2>1, <2>2, <2>3, <2>4, SeqEqual
  <2>6. QED
    BY <2>5 DEF r
<1>6. (n + 1) - 1 = n
  BY <1>1
<1>7. QED
  BY <1>3, <1>4, <1>5, <1>6 DEF c

\* One more element.
LEMMA AppendMade ==
  ASSUME NEW S, NEW s \in Seq(S), NEW m
  PROVE  Append(s, m) = [i \in 1..(Len(s) + 1) |-> IF i = Len(s) + 1 THEN m ELSE s[i]]
<1> DEFINE t == Append(s, m)
           T == S \cup {m}
<1>1. s \in Seq(T) /\ Len(s) \in Nat
  OBVIOUS
<1>2. /\ t \in Seq(T) /\ Len(t) = Len(s) + 1
      /\ \A i \in 1..Len(s) : t[i] = s[i]
      /\ t[Len(s) + 1] = m
  BY <1>1
<1> HIDE DEF t, T
<1>3. t = [i \in 1..Len(t) |-> t[i]]
  BY <1>2
<1>4. \A i \in 1..(Len(s) + 1) : t[i] = (IF i = Len(s) + 1 THEN m ELSE s[i])
  BY <1>1, <1>2
<1>5. QED
  BY <1>2, <1>3, <1>4 DEF t

\* All but the first.
LEMMA TailMade ==
  ASSUME NEW S, NEW s \in Seq(S), Len(s) >= 1
  PROVE  Tail(s) = [i \in 1..(Len(s) - 1) |-> s[i + 1]]
<1> DEFINE t == Tail(s)
<1>1. /\ t \in Seq(S) /\ Len(t) = Len(s) - 1 /\ \A i \in 1..Len(t) : t[i] = s[i + 1]
  OBVIOUS
<1> HIDE DEF t
<1>2. t = [i \in 1..Len(t) |-> t[i]]
  BY <1>1
<1>3. QED
  BY <1>1, <1>2 DEF t

\* Even numbers.
LEMMA Even ==
  ASSUME NEW a \in Nat, a % 2 = 0
  PROVE  /\ (a + 1) % 2 = 1 /\ (a + 2) % 2 = 0
         /\ a >= 2 => (a - 2) % 2 = 0
         /\ \E k \in Nat : a = 2 * k /\ a \div 2 = k /\ (a + 2) \div 2 = k + 1
  OBVIOUS

\* A frame is a header and a payload.
LEMMA FrameFacts ==
  ASSUME NEW M, NEW m \in M
  PROVE  /\ Frame(m) \in Seq(Units(M)) /\ Len(Frame(m)) = 2
         /\ Frame(m)[1].half = "header" /\ Frame(m)[1].msg = m
         /\ Frame(m)[2].half = "payload" /\ Frame(m)[2].msg = m
<1>1. [half |-> "header", msg |-> m] \in Units(M) /\ [half |-> "payload", msg |-> m] \in Units(M)
  BY DEF Units
<1>2. QED
  BY <1>1 DEF Frame

\* A frame written to a stream of frames is its last one.
LEMMA FrameAdded ==
  ASSUME NEW M, NEW s \in Seq(Units(M)), Whole(s), NEW m \in M
  PROVE  /\ s \o Frame(m) \in Seq(Units(M)) /\ Whole(s \o Frame(m))
         /\ FramesOf(s \o Frame(m)) = Append(FramesOf(s), m)
<1> DEFINE f == Frame(m)
           t == s \o f
<1>1. f \in Seq(Units(M)) /\ Len(f) = 2 /\ f[1].half = "header" /\ f[1].msg = m
      /\ f[2].half = "payload" /\ f[2].msg = m
  BY FrameFacts
<1> HIDE DEF f
<1>2. /\ t \in Seq(Units(M)) /\ Len(t) = Len(s) + 2 /\ Len(s) \in Nat
      /\ DOMAIN t = 1..(Len(s) + 2) /\ DOMAIN s = 1..Len(s)
      /\ \A i \in 1..Len(s) : t[i] = s[i]
      /\ t[Len(s) + 1] = f[1] /\ t[Len(s) + 2] = f[2]
  <2>1. /\ t \in Seq(Units(M)) /\ Len(t) = Len(s) + 2 /\ Len(s) \in Nat
        /\ DOMAIN t = 1..(Len(s) + 2) /\ \A i \in 1..Len(s) : t[i] = s[i]
        /\ \A i \in 1..2 : t[Len(s) + i] = f[i]
    BY <1>1, ConcatUnits
  <2>2. DOMAIN s = 1..Len(s) /\ 1 \in 1..2 /\ 2 \in 1..2
    OBVIOUS
  <2>3. QED
    BY <2>1, <2>2
<1> HIDE DEF t
<1>3. Len(s) % 2 = 0 /\ \A i \in 1..Len(s) :
          /\ s[i].half = (IF i % 2 = 1 THEN "header" ELSE "payload")
          /\ i % 2 = 0 => s[i].msg = s[i - 1].msg
  BY <1>2 DEF Whole, Aligned
<1>4. Len(t) % 2 = 0
  BY <1>2, <1>3
<1>5. ASSUME NEW i \in DOMAIN t
      PROVE  /\ t[i].half = (IF i % 2 = 1 THEN "header" ELSE "payload")
             /\ i % 2 = 0 => t[i].msg = t[i - 1].msg
  <2>1. CASE i \in 1..Len(s)
    <3>1. i % 2 = 0 => i - 1 \in 1..Len(s)
      BY <1>2, <2>1
    <3>2. QED
      BY <1>2, <1>3, <2>1, <3>1
  <2>2. CASE i = Len(s) + 1
    <3>1. i % 2 = 1
      BY Even, <1>2, <1>3, <2>2
    <3>2. QED
      BY <1>1, <1>2, <2>2, <3>1
  <2>3. CASE i = Len(s) + 2
    <3>1. i % 2 = 0 /\ i - 1 = Len(s) + 1
      BY Even, <1>2, <1>3, <2>3
    <3>2. QED
      BY <1>1, <1>2, <2>3, <3>1
  <2>4. QED
    BY <1>2, <2>1, <2>2, <2>3
<1>6. Whole(t)
  BY <1>4, <1>5 DEF Whole, Aligned
<1>7. FramesOf(t) = Append(FramesOf(s), m)
  <2>1. PICK k \in Nat : /\ Len(s) = 2 * k /\ Len(s) \div 2 = k
                         /\ (Len(s) + 2) \div 2 = k + 1
    BY <1>2, <1>3, Even
  <2>2. Len(s) \div 2 = k /\ Len(t) \div 2 = k + 1
    BY <1>2, <2>1
  <2>3. /\ FramesOf(s) = [i \in 1..k |-> s[2 * i].msg]
        /\ FramesOf(t) = [i \in 1..(k + 1) |-> t[2 * i].msg]
    BY <2>2 DEF FramesOf
  <2>4. \A i \in 1..k : 2 * i \in 1..Len(s) /\ t[2 * i] = s[2 * i]
    BY <1>2, <2>1
  <2>5. t[2 * (k + 1)].msg = m
    <3>1. 2 * (k + 1) = Len(s) + 2
      BY <2>1
    <3>2. QED
      BY <1>1, <1>2, <3>1
  <2>7. Append(FramesOf(s), m) = [i \in 1..(k + 1) |-> IF i = k + 1 THEN m ELSE s[2 * i].msg]
    <3>1. FramesOf(s) \in Seq(M) /\ Len(FramesOf(s)) = k
      <4>1. \A i \in 1..k : s[2 * i].msg \in M
        <5>1. \A i \in 1..k : s[2 * i] \in Units(M)
          BY <1>2, <2>1
        <5>2. \A u \in Units(M) : u.msg \in M
          BY DEF Units
        <5>3. QED
          BY <5>1, <5>2
      <4>2. QED
        BY <2>3, <4>1
    <3>2. Append(FramesOf(s), m) =
            [i \in 1..(k + 1) |-> IF i = k + 1 THEN m ELSE FramesOf(s)[i]]
      BY <3>1, AppendMade
    <3>3. \A i \in 1..k : FramesOf(s)[i] = s[2 * i].msg
      BY <2>3
    <3>4. QED
      BY <3>2, <3>3
  <2>8. QED
    BY <2>3, <2>4, <2>5, <2>7
<1>8. QED
  BY <1>2, <1>6, <1>7 DEF t, f

\* Reading takes the first frame, and the next one comes first.
LEMMA FrameTaken ==
  ASSUME NEW M, NEW s \in Seq(Units(M)), Whole(s), Len(s) >= 2
  PROVE  /\ Rest(s) \in Seq(Units(M)) /\ Whole(Rest(s))
         /\ s[1].msg \in M
         /\ FramesOf(s) # <<>> /\ Head(FramesOf(s)) = s[1].msg
         /\ FramesOf(Rest(s)) = Tail(FramesOf(s))
         /\ FramesOf(s) \in Seq(M)
<1> DEFINE t == Rest(s)
<1>1. /\ Len(s) \in Nat /\ DOMAIN s = 1..Len(s)
      /\ \A i \in 1..Len(s) : s[i].msg \in M
  <2>1. \A i \in 1..Len(s) : s[i] \in Units(M)
    OBVIOUS
  <2>2. \A u \in Units(M) : u.msg \in M
    BY DEF Units
  <2>3. QED
    BY <2>1, <2>2
<1>2. Len(s) % 2 = 0 /\ \A i \in 1..Len(s) :
          /\ s[i].half = (IF i % 2 = 1 THEN "header" ELSE "payload")
          /\ i % 2 = 0 => s[i].msg = s[i - 1].msg
  BY <1>1 DEF Whole, Aligned
<1>3. /\ t \in Seq(Units(M)) /\ Len(t) = Len(s) - 2 /\ DOMAIN t = 1..(Len(s) - 2)
      /\ \A i \in 1..(Len(s) - 2) : t[i] = s[i + 2]
  <2>1. /\ t \in Seq(Units(M)) /\ Len(t) = Len(s) - 2
        /\ \A i \in 1..(Len(s) - 2) : t[i] = s[2 + i]
    <3>1. 2 \in Nat /\ 2 <= Len(s) /\ 2 + 1 = 3
      OBVIOUS
    <3>2. t = SubSeq(s, 2 + 1, Len(s))
      BY DEF Rest
    <3> HIDE DEF t
    <3>3. QED
      BY <3>1, <3>2, PartUnits
  <2>2. DOMAIN t = 1..(Len(s) - 2)
    BY <2>1
  <2>3. \A i \in 1..(Len(s) - 2) : t[i] = s[i + 2]
    BY <1>1, <2>1
  <2>4. QED
    BY <2>1, <2>2, <2>3
<1> HIDE DEF t
<1>4. Whole(t)
  <2>1. Len(t) % 2 = 0
    BY <1>1, <1>2, <1>3, Even
  <2>2. ASSUME NEW i \in DOMAIN t
        PROVE  /\ t[i].half = (IF i % 2 = 1 THEN "header" ELSE "payload")
               /\ i % 2 = 0 => t[i].msg = t[i - 1].msg
    <3>1. i \in 1..(Len(s) - 2) /\ i + 2 \in 1..Len(s) /\ (i + 2) % 2 = i % 2
      BY <1>1, <1>3
    <3>2. i % 2 = 0 => i - 1 \in 1..(Len(s) - 2) /\ (i - 1) + 2 = (i + 2) - 1
      BY <3>1
    <3>3. /\ s[i + 2].half = (IF i % 2 = 1 THEN "header" ELSE "payload")
          /\ i % 2 = 0 => s[i + 2].msg = s[(i + 2) - 1].msg
      BY <1>2, <3>1
    <3>4. t[i] = s[i + 2] /\ (i % 2 = 0 => t[i - 1] = s[(i + 2) - 1])
      BY <1>3, <3>1, <3>2
    <3>5. QED
      BY <3>3, <3>4
  <2>3. QED
    BY <2>1, <2>2 DEF Whole, Aligned
<1>5. PICK k \in Nat : Len(s) = 2 * k
  BY <1>1, <1>2, Even
<1>6. Len(s) \div 2 = k /\ Len(t) \div 2 = k - 1 /\ k >= 1
  BY <1>3, <1>5
<1>7. /\ FramesOf(s) = [i \in 1..k |-> s[2 * i].msg]
      /\ FramesOf(t) = [i \in 1..(k - 1) |-> t[2 * i].msg]
  BY <1>6 DEF FramesOf
<1>8. \A i \in 1..k : s[2 * i].msg \in M
  BY <1>1, <1>5
<1>9. FramesOf(s) \in Seq(M) /\ Len(FramesOf(s)) = k
  BY <1>7, <1>8
<1>10. FramesOf(s) # <<>> /\ Head(FramesOf(s)) = s[1].msg
  <2>1. s[2].msg = s[1].msg
    BY <1>1, <1>2
  <2>2. FramesOf(s)[1] = s[2 * 1].msg
    BY <1>6, <1>7
  <2>3. QED
    BY <1>6, <1>9, <2>1, <2>2
<1>11. FramesOf(t) = Tail(FramesOf(s))
  <2>1. Tail(FramesOf(s)) = [i \in 1..(k - 1) |-> s[2 * (i + 1)].msg]
    BY <1>6, <1>7, <1>9
  <2>2. ASSUME NEW i \in 1..(k - 1)
        PROVE  t[2 * i] = s[2 * (i + 1)]
    <3>1. 2 * i \in 1..(Len(s) - 2) /\ 2 * i + 2 = 2 * (i + 1)
      BY <1>5
    <3>2. QED
      BY <1>3, <3>1
  <2>3. QED
    BY <1>7, <2>1, <2>2
<1>12. QED
  BY <1>1, <1>3, <1>4, <1>9, <1>10, <1>11 DEF t

\* n units arrive: the stream is the same, and what is read is its first frame.
LEMMA Arrival ==
  ASSUME NEW U, NEW buf \in Seq(U), NEW flight \in Seq(U), NEW n \in 1..Len(flight)
  PROVE  LET got == buf \o SubSeq(flight, 1, n)
             left == SubSeq(flight, n + 1, Len(flight))
         IN  /\ got \in Seq(U) /\ left \in Seq(U)
             /\ got \o left = buf \o flight
             /\ Len(got) >= 2 => /\ Len(buf \o flight) >= 2
                                 /\ got[1] = (buf \o flight)[1]
                                 /\ Rest(got) \in Seq(U)
                                 /\ Rest(got) \o left = Rest(buf \o flight)
<1> DEFINE first == SubSeq(flight, 1, n)
           left == SubSeq(flight, n + 1, Len(flight))
           got == buf \o first
           all == buf \o flight
<1>1. /\ Len(buf) \in Nat /\ Len(flight) \in Nat /\ n \in Nat
      /\ first \in Seq(U) /\ Len(first) = n /\ \A i \in 1..n : first[i] = flight[i]
      /\ left \in Seq(U) /\ Len(left) = Len(flight) - n
      /\ \A i \in 1..(Len(flight) - n) : left[i] = flight[n + i]
  BY PartUnits
<1>2. first \o left = flight
  BY ConcatAdjacentSubSeq
<1> HIDE DEF first, left
<1>3. got \in Seq(U) /\ all \in Seq(U) /\ Len(got) = Len(buf) + n
      /\ Len(all) = Len(buf) + Len(flight)
  BY <1>1, ConcatUnits
<1>4. got \o left = all
  <2>1. first \in Seq(U) /\ left \in Seq(U)
    BY <1>1
  <2>2. (buf \o first) \o left = buf \o (first \o left)
    BY <2>1, ConcatAssociative
  <2>3. QED
    BY <1>2, <2>2
<1> HIDE DEF got, all
<1>5. Len(got \o left) = Len(got) + Len(left) /\ Len(got) \in Nat /\ Len(left) \in Nat
      /\ \A i \in 1..Len(got) : (got \o left)[i] = got[i]
  <2>1. got \in Seq(U) /\ left \in Seq(U)
    BY <1>1, <1>3
  <2>2. QED
    BY <2>1, ConcatUnits
<1>6. ASSUME Len(got) >= 2
      PROVE  /\ Len(all) >= 2 /\ got[1] = all[1]
             /\ Rest(got) \in Seq(U) /\ Rest(got) \o left = Rest(all)
  <2>1. Len(all) >= 2 /\ got[1] = all[1]
    BY <1>4, <1>5, <1>6
  <2>2. got \in Seq(U) /\ left \in Seq(U)
    BY <1>1, <1>3
  <2>3. Rest(got) \in Seq(U) /\ Rest(got) \o left = Rest(got \o left)
    BY <2>2, <1>6, RestOfConcat
  <2>4. QED
    BY <1>4, <2>1, <2>3
<1>7. QED
  BY <1>1, <1>3, <1>4, <1>6 DEF got, all, left, first

-----------------------------------------------------------------------------
(* What a step does to the two streams.                                    *)

\* Types of what does not matter for the order of frames.
TypesOK == /\ connected \in BOOLEAN /\ busy \in BOOLEAN
           /\ toServer \in Seq(Units(Req)) /\ serverBuf \in Seq(Units(Req))
           /\ toClient \in Seq(Units(Rsp)) /\ clientBuf \in Seq(Units(Rsp))
           /\ sent \in Seq(Req) /\ answered \in Seq(Rsp)
           /\ Len(sent) <= MaxRequests
           /\ drops \in 0..MaxDrops /\ mark \in 0..Len(sent)
           /\ window \in 1..Window

\* The inductive invariant: streams of whole frames, none on a closed connection.
StreamInv == /\ TypesOK
             /\ Whole(ToServer) /\ Whole(ToClient)
             /\ ~connected => ToServer = <<>> /\ ToClient = <<>>

\* sendRequest() as the server's stream sees it,
Sends(msg) == /\ connected /\ connected'
              /\ msg \in Req /\ msg.id = Len(sent) + 1
              /\ Len(sent) < MaxRequests /\ Cardinality(Awaited) < window
              /\ ToServer' = ToServer \o Frame(msg) /\ ToClient' = ToClient
              /\ sent' = Append(sent, msg) /\ busy' = TRUE
              /\ UNCHANGED <<answered, mark, window>>

\* what the server takes off it, unread or answered,
Discards == /\ ToServer # <<>> /\ Len(ToServer) >= 2 /\ ToServer[1].msg.kind = "garbage"
         /\ ToServer' = Rest(ToServer) /\ ToClient' = ToClient
         /\ UNCHANGED <<sent, answered, busy, mark, window>>

Replied == /\ Len(ToServer) >= 2 /\ ToServer' = Rest(ToServer)
            /\ ToClient' = ToClient \o Frame(Response(ToServer[1].msg))
            /\ UNCHANGED <<sent, answered, busy, mark, window>>

\* and what the client takes off the other one.
Takes == /\ Len(ToClient) >= 2 /\ ToClient' = Rest(ToClient) /\ ToServer' = ToServer
         /\ answered' = Append(answered, ToClient[1].msg) /\ busy' = FALSE
         /\ UNCHANGED <<sent, mark, window>>

\* Bytes arrive, or a connection is made.
Waits == UNCHANGED <<ToServer, ToClient, sent, answered, busy, mark, window>>

\* The connection is lost.
Loses == /\ ToServer' = <<>> /\ ToClient' = <<>> /\ busy' = FALSE /\ mark' = Len(sent)
         /\ UNCHANGED <<sent, answered, window>>

\* A reply is one.
LEMMA ResponseIsReply ==
  ASSUME NEW msg \in Req
  PROVE  Response(msg) \in Rsp /\ Response(msg).to = msg
<1>1. msg.id \in 0..MaxRequests
  BY TransportAssumption DEF Req
<1>2. 0 \in 0..MaxRequests
  BY TransportAssumption
<1>3. Response(msg).to = msg
  BY DEF Response
<1>4. QED
  BY <1>1, <1>2, <1>3 DEF Response, Rsp

\* What sendRequest() writes is one frame.
LEMMA SendStep ==
  ASSUME StreamInv, NEW kind \in Kinds, SendRequest(kind)
  PROVE  TypesOK' /\ \E msg \in Req : Sends(msg)
<1> DEFINE msg == [id |-> Len(sent) + 1, kind |-> kind]
<1>1. /\ connected /\ Len(sent) < MaxRequests /\ Cardinality(Awaited) < window
      /\ toServer' = toServer \o Frame(msg) /\ sent' = Append(sent, msg) /\ busy' = TRUE
      /\ UNCHANGED <<connected, serverBuf, toClient, clientBuf, answered, drops, mark, window>>
  BY DEF SendRequest
<1>2. TypesOK /\ sent \in Seq(Req) /\ Len(sent) \in Nat
      /\ toServer \in Seq(Units(Req)) /\ serverBuf \in Seq(Units(Req))
  BY DEF StreamInv, TypesOK
<1>3. msg \in Req /\ msg.id = Len(sent) + 1
  BY <1>1, <1>2, TransportAssumption DEF Req
<1> HIDE DEF msg
<1>4. Frame(msg) \in Seq(Units(Req))
  BY <1>3, FrameFacts
<1>5. toServer' \in Seq(Units(Req)) /\ sent' \in Seq(Req) /\ Len(sent') = Len(sent) + 1
  BY <1>1, <1>2, <1>3, <1>4
<1>6. ToServer' = ToServer \o Frame(msg)
  <2>1. (serverBuf \o toServer) \o Frame(msg) = serverBuf \o (toServer \o Frame(msg))
    BY <1>2, <1>4, ConcatAssociative
  <2>2. QED
    BY <1>1, <2>1 DEF ToServer
<1>7. ToClient' = ToClient
  BY <1>1 DEF ToClient
<1>8. TypesOK'
  BY <1>1, <1>2, <1>5, TransportAssumption DEF TypesOK
<1>9. Sends(msg)
  BY <1>1, <1>3, <1>6, <1>7 DEF Sends
<1>10. QED
  BY <1>3, <1>8, <1>9

\* The server's slot takes nothing off its stream or one frame.
LEMMA ServerReads ==
  ASSUME StreamInv, NEW n, ServerReadyRead(n)
  PROVE  TypesOK' /\ connected' = connected /\ (Waits \/ Discards \/ Replied)
<1> DEFINE got == serverBuf \o SubSeq(toServer, 1, n)
           left == SubSeq(toServer, n + 1, Len(toServer))
           read == ObjectsRead(got)
<1>1. /\ n \in 1..Len(toServer) /\ toServer' = left /\ serverBuf' = AfterRead(got)
      /\ toClient' = IF read = <<>> THEN toClient ELSE toClient \o Frame(Response(Head(read)))
      /\ UNCHANGED <<connected, clientBuf, sent, answered, busy, drops, mark, window>>
  BY DEF ServerReadyRead
<1>2. TypesOK /\ toServer \in Seq(Units(Req)) /\ serverBuf \in Seq(Units(Req))
      /\ toClient \in Seq(Units(Rsp)) /\ clientBuf \in Seq(Units(Rsp))
      /\ Whole(ToServer) /\ Whole(ToClient)
  BY DEF StreamInv, TypesOK
<1>3. got \in Seq(Units(Req)) /\ left \in Seq(Units(Req)) /\ got \o left = ToServer
  BY <1>1, <1>2, Arrival DEF ToServer
<1>4. Len(got) >= 2 => /\ Len(ToServer) >= 2 /\ got[1] = ToServer[1]
                       /\ Rest(got) \in Seq(Units(Req)) /\ Rest(got) \o left = Rest(ToServer)
  BY <1>1, <1>2, Arrival DEF ToServer
<1>5. ASSUME Len(got) >= 2 PROVE ToServer[1].msg \in Req
  <2>1. ToServer \in Seq(Units(Req))
    BY <1>2, ConcatUnits DEF ToServer
  <2>2. QED
    BY <1>2, <1>4, <1>5, <2>1, FrameTaken
<1>r. FrameReady(got) <=> Len(got) >= 2 /\ got[1].msg.kind # "oversize"
  BY DEF FrameReady
<1>o. read = IF FrameReady(got) /\ got[1].msg.kind # "garbage" THEN <<got[1].msg>> ELSE <<>>
  BY DEF ObjectsRead
<1>f. AfterRead(got) = IF FrameReady(got) THEN Rest(got) ELSE got
  BY DEF AfterRead, Rest
<1> HIDE DEF got, left, read
<1>6. CASE ~FrameReady(got)
  <2>1. toServer' = left /\ serverBuf' = got /\ toClient' = toClient
    BY <1>1, <1>o, <1>f, <1>6
  <2>2. ToServer' = ToServer /\ ToClient' = ToClient
    BY <2>1, <1>1, <1>3 DEF ToServer, ToClient
  <2>3. TypesOK'
    BY <1>1, <1>2, <1>3, <2>1 DEF TypesOK
  <2>4. QED
    BY <1>1, <2>2, <2>3 DEF Waits
<1>7. CASE FrameReady(got)
  <2>1. Len(got) >= 2 /\ serverBuf' = Rest(got) /\ toServer' = left
    BY <1>1, <1>f, <1>r, <1>7
  <2>2. ToServer' = Rest(ToServer) /\ Len(ToServer) >= 2 /\ got[1] = ToServer[1]
        /\ Rest(got) \in Seq(Units(Req))
    BY <1>4, <2>1 DEF ToServer
  <2> DEFINE msg == ToServer[1].msg
  <2>3. msg \in Req
    BY <1>5, <2>1
  <2>4. CASE got[1].msg.kind = "garbage"
    <3>1. toClient' = toClient
      BY <1>1, <1>o, <2>4
    <3>2. TypesOK'
      BY <1>1, <1>2, <1>3, <2>1, <2>2, <3>1 DEF TypesOK
    <3>3. Discards
      <4>1. ToClient' = ToClient
        BY <1>1, <3>1 DEF ToClient
      <4>2. ToServer # <<>>
        BY <2>2
      <4>3. QED
        BY <1>1, <2>2, <2>4, <4>1, <4>2 DEF Discards
    <3>4. QED
      BY <1>1, <3>2, <3>3
  <2>5. CASE got[1].msg.kind # "garbage"
    <3>1. read = <<msg>>
      BY <1>o, <1>7, <2>2, <2>5
    <3>2. toClient' = toClient \o Frame(Response(msg))
      BY <1>1, <3>1
    <3>3. Frame(Response(msg)) \in Seq(Units(Rsp))
      BY <2>3, ResponseIsReply, FrameFacts
    <3>4. TypesOK'
      <4>1. toClient' \in Seq(Units(Rsp))
        BY <1>2, <3>2, <3>3
      <4>2. QED
        BY <1>1, <1>2, <1>3, <2>1, <2>2, <4>1 DEF TypesOK
    <3>5. ToClient' = ToClient \o Frame(Response(msg))
      <4>1. (clientBuf \o toClient) \o Frame(Response(msg)) =
              clientBuf \o (toClient \o Frame(Response(msg)))
        BY <1>2, <3>3, ConcatAssociative
      <4>2. QED
        BY <1>1, <3>2, <4>1 DEF ToClient
    <3>6. Replied
      BY <1>1, <2>2, <3>5 DEF Replied
    <3>7. QED
      BY <1>1, <3>4, <3>6
  <2>6. QED
    BY <2>4, <2>5
<1>8. QED
  BY <1>6, <1>7

\* So does the client's, and all it is sent are replies.
LEMMA ClientReads ==
  ASSUME StreamInv, NEW n, ClientReadyRead(n)
  PROVE  TypesOK' /\ connected' = connected /\ (Waits \/ Takes)
<1> DEFINE got == clientBuf \o SubSeq(toClient, 1, n)
           left == SubSeq(toClient, n + 1, Len(toClient))
           read == ObjectsRead(got)
<1>1. /\ n \in 1..Len(toClient) /\ toClient' = left /\ clientBuf' = AfterRead(got)
      /\ answered' = answered \o read /\ busy' = (busy /\ read = <<>>)
      /\ UNCHANGED <<connected, toServer, serverBuf, sent, drops, mark, window>>
  BY DEF ClientReadyRead
<1>2. TypesOK /\ toClient \in Seq(Units(Rsp)) /\ clientBuf \in Seq(Units(Rsp))
      /\ answered \in Seq(Rsp) /\ Whole(ToClient) /\ busy \in BOOLEAN
  BY DEF StreamInv, TypesOK
<1>3. got \in Seq(Units(Rsp)) /\ left \in Seq(Units(Rsp)) /\ got \o left = ToClient
  <2>1. n \in 1..Len(toClient) /\ toClient \in Seq(Units(Rsp)) /\ clientBuf \in Seq(Units(Rsp))
    BY <1>1, <1>2
  <2>2. QED
    BY <2>1, Arrival DEF ToClient
<1>4. Len(got) >= 2 => /\ Len(ToClient) >= 2 /\ got[1] = ToClient[1]
                       /\ Rest(got) \in Seq(Units(Rsp)) /\ Rest(got) \o left = Rest(ToClient)
  BY <1>1, <1>2, Arrival DEF ToClient
<1>5. ASSUME Len(got) >= 2 PROVE ToClient[1].msg \in Rsp
  <2>1. ToClient \in Seq(Units(Rsp))
    BY <1>2, ConcatUnits DEF ToClient
  <2>2. QED
    BY <1>2, <1>4, <1>5, <2>1, FrameTaken
<1>k. \A m \in Rsp : m.kind = "reply"
  BY DEF Rsp
<1>r. FrameReady(got) <=> Len(got) >= 2
  BY <1>4, <1>5, <1>k DEF FrameReady
<1>o. FrameReady(got) => read = <<got[1].msg>>
  BY <1>4, <1>5, <1>k, <1>r DEF ObjectsRead
<1>p. ~FrameReady(got) => read = <<>>
  BY DEF ObjectsRead
<1>f. AfterRead(got) = IF FrameReady(got) THEN Rest(got) ELSE got
  BY DEF AfterRead, Rest
<1> HIDE DEF got, left, read
<1>s. ToServer' = ToServer
  BY <1>1 DEF ToServer
<1>6. CASE ~FrameReady(got)
  <2>1. toClient' = left /\ clientBuf' = got /\ answered' = answered /\ busy' = busy
    BY <1>1, <1>2, <1>p, <1>f, <1>6
  <2>2. ToClient' = ToClient
    BY <2>1, <1>3 DEF ToClient
  <2>3. TypesOK'
    BY <1>1, <1>2, <1>3, <2>1 DEF TypesOK
  <2>4. QED
    BY <1>1, <1>s, <2>1, <2>2, <2>3 DEF Waits
<1>7. CASE FrameReady(got)
  <2>1. Len(got) >= 2 /\ clientBuf' = Rest(got) /\ toClient' = left /\ busy' = FALSE
        /\ answered' = answered \o <<got[1].msg>>
    <3>1. read = <<got[1].msg>> /\ Len(got) >= 2 /\ clientBuf' = Rest(got) /\ toClient' = left
          /\ answered' = answered \o read /\ busy' = (busy /\ read = <<>>)
      BY <1>1, <1>f, <1>o, <1>r, <1>7
    <3>2. <<got[1].msg>> # <<>>
      OBVIOUS
    <3>3. busy' = FALSE
      BY <3>1, <3>2, Zenon
    <3>4. QED
      BY <3>1, <3>3
  <2>2. ToClient' = Rest(ToClient) /\ Len(ToClient) >= 2 /\ got[1] = ToClient[1]
        /\ Rest(got) \in Seq(Units(Rsp))
    BY <1>4, <2>1 DEF ToClient
  <2> DEFINE msg == ToClient[1].msg
  <2>3. msg \in Rsp
    BY <1>5, <2>1
  <2>4. answered' = Append(answered, msg) /\ answered' \in Seq(Rsp)
    <3> HIDE DEF msg
    <3>1. answered' = answered \o <<msg>>
      BY <2>1, <2>2 DEF msg
    <3>2. QED
      BY <1>2, <2>3, <3>1, AppendIsConcat, AppendProperties
  <2>5. TypesOK'
    BY <1>1, <1>2, <1>3, <2>1, <2>2, <2>4 DEF TypesOK
  <2>6. Takes
    BY <1>1, <1>s, <2>1, <2>2, <2>4 DEF Takes
  <2>7. QED
    BY <1>1, <2>5, <2>6
<1>8. QED
  BY <1>6, <1>7

-----------------------------------------------------------------------------
(* Streams stay in step.                                                   *)

\* Nothing arrives without a connection.
LEMMA ArrivesConnected ==
  ASSUME StreamInv, NEW n, n \in 1..Len(toServer) \/ n \in 1..Len(toClient)
  PROVE  connected
<1> SUFFICES ASSUME ~connected PROVE FALSE
  OBVIOUS
<1>1. serverBuf \o toServer = <<>> /\ clientBuf \o toClient = <<>>
  BY DEF StreamInv, ToServer, ToClient
<1>2. /\ toServer \in Seq(Units(Req)) /\ serverBuf \in Seq(Units(Req))
      /\ toClient \in Seq(Units(Rsp)) /\ clientBuf \in Seq(Units(Rsp))
  BY DEF StreamInv, TypesOK
<1>3. toServer = <<>>
  BY <1>1, <1>2, ConcatEqualIffEmpty
<1>4. toClient = <<>>
  BY <1>1, <1>2, ConcatEqualIffEmpty
<1>5. Len(toServer) = 0 /\ Len(toClient) = 0
  BY <1>3, <1>4
<1>6. QED
  BY <1>5

\* Every step sends, discards, replies, takes, loses all, or leaves the streams.
LEMMA StepKinds ==
  ASSUME StreamInv, [Next]_vars
  PROVE  /\ TypesOK'
         /\ ~connected' => ToServer' = <<>> /\ ToClient' = <<>>
         /\ \/ \E msg \in Req : Sends(msg)
            \/ Discards \/ Replied \/ Takes \/ Waits \/ Loses
<1>1. CASE \E k \in Kinds : SendRequest(k)
  BY <1>1, SendStep DEF Sends
<1>2. CASE ServerStep
  <2>1. PICK n \in 1..Len(toServer) : ServerReadyRead(n)
    BY <1>2 DEF ServerStep
  <2>2. connected
    BY ArrivesConnected
  <2>3. QED
    BY <2>1, <2>2, ServerReads
<1>3. CASE ClientStep
  <2>1. PICK n \in 1..Len(toClient) : ClientReadyRead(n)
    BY <1>3 DEF ClientStep
  <2>2. connected
    BY ArrivesConnected
  <2>3. QED
    BY <2>1, <2>2, ClientReads
<1>4. CASE Disconnect
  <2>1. /\ toServer' = <<>> /\ serverBuf' = <<>> /\ toClient' = <<>> /\ clientBuf' = <<>>
        /\ connected' = FALSE /\ busy' = FALSE /\ mark' = Len(sent)
        /\ drops < MaxDrops /\ drops' = drops + 1
        /\ UNCHANGED <<sent, answered, window>>
    BY <1>4 DEF Disconnect
  <2>2. ToServer' = <<>> /\ ToClient' = <<>>
    <3>1. \A S : <<>> \in Seq(S) /\ <<>> \o <<>> = <<>>
      OBVIOUS
    <3>2. QED
      BY <2>1, <3>1 DEF ToServer, ToClient
  <2>3. TypesOK'
    <3>1. TypesOK /\ Len(sent) \in Nat /\ Len(sent) \in 0..Len(sent)
      BY DEF StreamInv, TypesOK
    <3>2. drops' \in 0..MaxDrops
      BY <2>1, <3>1, TransportAssumption DEF TypesOK
    <3>3. \A S : <<>> \in Seq(S)
      OBVIOUS
    <3>4. mark' \in 0..Len(sent)'
      BY <2>1, <3>1
    <3>5. QED
      BY <2>1, <3>1, <3>2, <3>3, <3>4 DEF TypesOK
  <2>4. QED
    BY <2>1, <2>2, <2>3 DEF Loses
<1>5. CASE Connect
  <2>1. /\ connected' = TRUE
        /\ UNCHANGED <<toServer, serverBuf, toClient, clientBuf, sent, answered, busy, drops,
                       mark, window>>
    BY <1>5 DEF Connect, streams
  <2>2. TypesOK'
    BY <2>1 DEF StreamInv, TypesOK
  <2>3. Waits
    BY <2>1 DEF Waits, ToServer, ToClient
  <2>4. QED
    BY <2>1, <2>2, <2>3
<1>6. CASE UNCHANGED vars
  <2>1. UNCHANGED <<connected, toServer, serverBuf, toClient, clientBuf, sent, answered, busy,
                    drops, mark, window>>
    BY <1>6 DEF vars
  <2>2. TypesOK'
    BY <2>1 DEF StreamInv, TypesOK
  <2>3. UNCHANGED <<ToServer, ToClient>>
    BY <2>1 DEF ToServer, ToClient
  <2>4. QED
    BY <2>1, <2>2, <2>3 DEF Waits, StreamInv
<1>7. QED
  BY <1>1, <1>2, <1>3, <1>4, <1>5, <1>6 DEF Next

\* The two streams hold what they should.
LEMMA StreamTypes ==
  ASSUME StreamInv
  PROVE  ToServer \in Seq(Units(Req)) /\ ToClient \in Seq(Units(Rsp))
<1>1. /\ toServer \in Seq(Units(Req)) /\ serverBuf \in Seq(Units(Req))
      /\ toClient \in Seq(Units(Rsp)) /\ clientBuf \in Seq(Units(Rsp))
  BY DEF StreamInv, TypesOK
<1>2. QED
  BY <1>1, ConcatUnits DEF ToServer, ToClient

\* No units, no frames.
LEMMA EmptyIsWhole == Whole(<<>>) /\ FramesOf(<<>>) = <<>>
<1>1. Len(<<>>) = 0 /\ 0 % 2 = 0 /\ DOMAIN <<>> = {} /\ 0 \div 2 = 0 /\ 1..0 = {}
  OBVIOUS
<1>2. Whole(<<>>)
  BY <1>1 DEF Whole, Aligned
<1>3. FramesOf(<<>>) \in Seq({}) /\ Len(FramesOf(<<>>)) = 0
  <2> DEFINE f == FramesOf(<<>>)
  <2>1. f = [i \in 1..0 |-> f[i]]
    <3>1. f = [i \in 1..0 |-> <<>>[2 * i].msg]
      BY <1>1 DEF FramesOf
    <3>2. DOMAIN f = {}
      BY <1>1, <3>1
    <3>3. QED
      BY <1>1, <3>1, <3>2
  <2> HIDE DEF f
  <2>2. f \in Seq({}) /\ Len(f) = 0
    BY <2>1
  <2>3. QED
    BY <2>2 DEF f
<1>4. QED
  BY <1>2, <1>3

\* The invariant of the streams holds at first,
LEMMA InitStreamInv == Init => StreamInv
<1> SUFFICES ASSUME Init PROVE StreamInv
  OBVIOUS
<1>1. /\ connected = TRUE /\ busy = FALSE /\ drops = 0 /\ mark = 0 /\ window \in 1..Window
      /\ toServer = <<>> /\ serverBuf = <<>> /\ toClient = <<>> /\ clientBuf = <<>>
      /\ sent = <<>> /\ answered = <<>>
  BY DEF Init
<1>2. Len(<<>>) = 0 /\ \A S : <<>> \in Seq(S) /\ <<>> \o <<>> = <<>>
  OBVIOUS
<1>3. TypesOK
  <2>1. /\ toServer \in Seq(Units(Req)) /\ serverBuf \in Seq(Units(Req))
        /\ toClient \in Seq(Units(Rsp)) /\ clientBuf \in Seq(Units(Rsp))
        /\ sent \in Seq(Req) /\ answered \in Seq(Rsp)
    BY <1>1, <1>2
  <2>2. Len(sent) = 0
    BY <1>1, <1>2
  <2>3. drops \in 0..MaxDrops /\ mark \in 0..Len(sent) /\ Len(sent) <= MaxRequests
    BY <1>1, <2>2, TransportAssumption
  <2>4. QED
    BY <1>1, <2>1, <2>3 DEF TypesOK
<1>4. ToServer = <<>> /\ ToClient = <<>>
  BY <1>1, <1>2 DEF ToServer, ToClient
<1>5. QED
  BY <1>3, <1>4, EmptyIsWhole DEF StreamInv

\* and every step keeps it.
LEMMA NextStreamInv == StreamInv /\ [Next]_vars => StreamInv'
<1> SUFFICES ASSUME StreamInv, [Next]_vars PROVE StreamInv'
  OBVIOUS
<1>1. /\ Whole(ToServer) /\ Whole(ToClient)
      /\ ToServer \in Seq(Units(Req)) /\ ToClient \in Seq(Units(Rsp))
  BY StreamTypes DEF StreamInv
<1>2. Whole(ToServer') /\ Whole(ToClient')
  <2>1. ASSUME NEW msg \in Req, Sends(msg) PROVE Whole(ToServer') /\ Whole(ToClient')
    BY <1>1, <2>1, FrameAdded DEF Sends
  <2>2. CASE Discards
    BY <1>1, <2>2, FrameTaken DEF Discards
  <2>3. CASE Replied
    <3>1. ToServer[1].msg \in Req /\ Whole(Rest(ToServer))
      BY <1>1, <2>3, FrameTaken DEF Replied
    <3>2. Response(ToServer[1].msg) \in Rsp
      BY <3>1, ResponseIsReply
    <3>3. Whole(ToClient \o Frame(Response(ToServer[1].msg)))
      BY <1>1, <3>2, FrameAdded
    <3>4. QED
      BY <2>3, <3>1, <3>3 DEF Replied
  <2>4. CASE Takes
    BY <1>1, <2>4, FrameTaken DEF Takes
  <2>5. CASE Waits
    BY <1>1, <2>5 DEF Waits
  <2>6. CASE Loses
    BY <2>6, EmptyIsWhole DEF Loses
  <2>7. QED
    BY <2>1, <2>2, <2>3, <2>4, <2>5, <2>6, StepKinds
<1>3. TypesOK' /\ (~connected' => ToServer' = <<>> /\ ToClient' = <<>>)
  BY StepKinds
<1>4. QED
  BY <1>2, <1>3 DEF StreamInv, Whole, Aligned

\* The names of the streams.
LEMMA StreamsAre == Stream("toServer") = ToServer /\ Stream("toClient") = ToClient
  BY DEF Stream, ToServer, ToClient

\* Streams hold what they should, and none is left without a connection.
THEOREM TransportTypeCorrect == Spec => []TypeOK
<1>1. StreamInv => TypeOK
  <2> SUFFICES ASSUME StreamInv PROVE TypeOK
    OBVIOUS
  <2>1. mark \in 0..MaxRequests
    <3>1. mark \in 0..Len(sent) /\ Len(sent) \in Nat /\ Len(sent) <= MaxRequests
      BY DEF StreamInv, TypesOK
    <3>2. QED
      BY <3>1, TransportAssumption
  <2>2. ~connected => Stream("toServer") = <<>> /\ Stream("toClient") = <<>>
    BY StreamsAre DEF StreamInv
  <2>3. QED
    BY <2>1, <2>2 DEF StreamInv, TypesOK, TypeOK
<1>2. QED
  BY <1>1, InitStreamInv, NextStreamInv, PTL DEF Spec

\* Both ends stand at a frame boundary, however the bytes are cut.
THEOREM FramesStayInStep == Spec => []InStep
<1>1. StreamInv => InStep
  BY StreamsAre DEF StreamInv, Whole, InStep
<1>2. QED
  BY <1>1, InitStreamInv, NextStreamInv, PTL DEF Spec

-----------------------------------------------------------------------------
(* A client with one request at a time.                                    *)

\* Where its request or the reply to it is.
OneInv ==
    window = 1 =>
      /\ \A i \in DOMAIN sent : sent[i].id = i
      /\ \A j \in DOMAIN answered : answered[j].to.id <= Len(sent)
      /\ Awaited \subseteq {Len(sent)}
      /\ busy <=> Awaited # {}
      /\ ToServer # <<>> => /\ ToServer = Frame(sent[Len(sent)]) /\ ToClient = <<>>
                            /\ Awaited = {Len(sent)}
      /\ ToClient # <<>> => /\ ToClient = Frame(Response(sent[Len(sent)]))
                            /\ Awaited = {Len(sent)}

\* After its only frame a stream is empty.
LEMMA RestOfFrame ==
  ASSUME NEW m
  PROVE  Rest(Frame(m)) = <<>> /\ Frame(m)[1].msg = m
<1>1. Frame(m) \in Seq(Units({m})) /\ Len(Frame(m)) = 2 /\ Frame(m)[1].msg = m
  BY FrameFacts
<1>2. Rest(Frame(m)) = <<>>
  BY <1>1, SubSeqEmpty DEF Rest
<1>3. QED
  BY <1>1, <1>2

\* It sends when nothing is awaited.
LEMMA OneSends ==
  ASSUME StreamInv, OneInv, window = 1, NEW msg \in Req, Sends(msg)
  PROVE  OneInv'
<1>1. /\ msg.id = Len(sent) + 1 /\ Cardinality(Awaited) < 1
      /\ ToServer' = ToServer \o Frame(msg) /\ ToClient' = ToClient
      /\ sent' = Append(sent, msg) /\ busy' = TRUE
      /\ answered' = answered /\ mark' = mark /\ window' = window
  BY DEF Sends
<1>2. sent \in Seq(Req) /\ Len(sent) \in Nat /\ mark \in 0..Len(sent) /\ answered \in Seq(Rsp)
  BY DEF StreamInv, TypesOK
<1>3. Awaited = {}
  <2>1. Awaited \subseteq {Len(sent)}
    BY DEF OneInv
  <2>2. Cardinality({Len(sent)}) = 1
    BY FS_Singleton
  <2>3. Awaited = {} \/ Awaited = {Len(sent)}
    BY <2>1
  <2>4. Awaited # {Len(sent)}
    <3> SUFFICES ASSUME Awaited = {Len(sent)} PROVE FALSE
      OBVIOUS
    <3>1. Cardinality(Awaited) = 1
      BY <2>2
    <3>2. Cardinality(Awaited) < 1
      BY <1>1
    <3>3. QED
      BY <3>1, <3>2
  <2>5. QED
    BY <2>3, <2>4
<1>4. ToServer = <<>> /\ ToClient = <<>>
  BY <1>3 DEF OneInv
<1>5. ToServer' = Frame(msg)
  <2>1. Frame(msg) \in Seq(Units(Req))
    BY FrameFacts
  <2>2. QED
    BY <1>1, <1>4, <2>1, ConcatEmptySeq
<1>6. /\ Len(sent') = Len(sent) + 1 /\ DOMAIN sent' = 1..(Len(sent) + 1)
      /\ DOMAIN sent = 1..Len(sent)
      /\ \A i \in 1..Len(sent) : sent'[i] = sent[i]
      /\ sent'[Len(sent) + 1] = msg
  BY <1>1, <1>2
<1>7. \A i \in DOMAIN sent' : sent'[i].id = i
  BY <1>1, <1>6 DEF OneInv
<1>8. \A j \in DOMAIN answered : answered[j].to.id <= Len(sent)
  BY DEF OneInv
<1>9. \A j \in DOMAIN answered : answered[j].to.id \in Nat
  <2>1. \A r \in Rsp : r.to \in Req
    BY DEF Rsp
  <2>2. \A r \in Req : r.id \in Nat
    BY TransportAssumption DEF Req
  <2>3. QED
    BY <1>2, <2>1, <2>2
<1>10. ~Answered(Len(sent) + 1)
  BY <1>2, <1>8, <1>9 DEF Answered
<1>11. \A i : Answered(i)' <=> Answered(i)
  BY <1>1 DEF Answered
<1>12. Awaited' = {Len(sent')}
  <2>1. \A i \in mark + 1..Len(sent) : Answered(i)
    BY <1>3 DEF Awaited
  <2>2. \A i \in mark + 1..Len(sent) + 1 : i \in mark + 1..Len(sent) \/ i = Len(sent) + 1
    BY <1>2
  <2>3. Len(sent) + 1 \in mark + 1..Len(sent) + 1
    BY <1>2
  <2>4. Awaited' = {i \in mark + 1..Len(sent) + 1 : ~Answered(i)}
    BY <1>1, <1>6, <1>11 DEF Awaited
  <2>5. QED
    BY <1>6, <1>10, <2>1, <2>2, <2>3, <2>4
<1>13. \A j \in DOMAIN answered' : answered'[j].to.id <= Len(sent')
  BY <1>1, <1>2, <1>6, <1>8, <1>9
<1>14. ToServer' = Frame(sent'[Len(sent')]) /\ ToClient' = <<>>
  BY <1>1, <1>4, <1>5, <1>6
<1>15. QED
  BY <1>1, <1>7, <1>12, <1>13, <1>14 DEF OneInv

\* The reply to the last request is awaited no more.
LEMMA OneTakes ==
  ASSUME StreamInv, OneInv, window = 1, Takes
  PROVE  OneInv'
<1>1. /\ Len(ToClient) >= 2 /\ ToClient' = Rest(ToClient) /\ ToServer' = ToServer
      /\ answered' = Append(answered, ToClient[1].msg) /\ busy' = FALSE
      /\ sent' = sent /\ mark' = mark /\ window' = window
  BY DEF Takes
<1>2. sent \in Seq(Req) /\ Len(sent) \in Nat /\ mark \in 0..Len(sent) /\ answered \in Seq(Rsp)
  BY DEF StreamInv, TypesOK
<1>3. ToClient # <<>>
  BY <1>1
<1> DEFINE last == sent[Len(sent)]
<1>4. ToClient = Frame(Response(last)) /\ Awaited = {Len(sent)} /\ ToServer = <<>>
  BY <1>3 DEF OneInv
<1>5. ToClient' = <<>> /\ ToClient[1].msg = Response(last)
  BY <1>1, <1>4, RestOfFrame
<1>6. Len(sent) \in DOMAIN sent /\ last \in Req /\ last.id = Len(sent)
  <2>1. Len(sent) \in mark + 1..Len(sent)
    BY <1>4 DEF Awaited
  <2>2. Len(sent) \in 1..Len(sent)
    BY <1>2, <2>1
  <2>3. QED
    BY <1>2, <2>2 DEF OneInv
<1>7. Response(last).to = last
  BY <1>6, ResponseIsReply
<1> HIDE DEF last
<1>8. answered' = Append(answered, Response(last))
  BY <1>1, <1>5
<1>9. /\ DOMAIN answered' = 1..(Len(answered) + 1) /\ DOMAIN answered = 1..Len(answered)
      /\ Len(answered) \in Nat
      /\ \A j \in 1..Len(answered) : answered'[j] = answered[j]
      /\ answered'[Len(answered) + 1] = Response(last)
  BY <1>2, <1>8
<1>10. \A j \in DOMAIN answered' : answered'[j].to.id <= Len(sent')
  <2>1. \A j \in DOMAIN answered : answered[j].to.id <= Len(sent)
    BY DEF OneInv
  <2>2. \A j \in DOMAIN answered' : j \in 1..Len(answered) \/ j = Len(answered) + 1
    BY <1>9
  <2>3. Response(last).to.id <= Len(sent)
    BY <1>2, <1>6, <1>7
  <2>4. QED
    BY <1>1, <1>9, <2>1, <2>2, <2>3
<1>11. \A i : Answered(i)' <=> Answered(i) \/ i = Len(sent)
  <2>1. answered'[Len(answered) + 1].to.id = Len(sent)
    BY <1>6, <1>7, <1>9
  <2>2. \A j : j \in DOMAIN answered' <=> j \in DOMAIN answered \/ j = Len(answered) + 1
    BY <1>9
  <2>3. QED
    BY <1>9, <2>1, <2>2 DEF Answered
<1>12. Awaited' = {}
  <2>1. \A i \in mark + 1..Len(sent) : ~Answered(i) => i = Len(sent)
    BY <1>4 DEF Awaited
  <2>2. QED
    BY <1>1, <1>11, <2>1 DEF Awaited
<1>13. \A i \in DOMAIN sent' : sent'[i].id = i
  BY <1>1 DEF OneInv
<1>14. QED
  BY <1>1, <1>4, <1>5, <1>10, <1>12, <1>13 DEF OneInv

\* At first nothing is awaited,
LEMMA InitOneInv == Init => OneInv
<1> SUFFICES ASSUME Init PROVE OneInv
  OBVIOUS
<1>1. /\ busy = FALSE /\ mark = 0 /\ sent = <<>> /\ answered = <<>>
      /\ toServer = <<>> /\ serverBuf = <<>> /\ toClient = <<>> /\ clientBuf = <<>>
  BY DEF Init
<1>2. Len(<<>>) = 0 /\ DOMAIN <<>> = {} /\ <<>> \o <<>> = <<>> /\ 0 + 1..0 = {}
  OBVIOUS
<1>3. ToServer = <<>> /\ ToClient = <<>> /\ Awaited = {}
  BY <1>1, <1>2 DEF ToServer, ToClient, Awaited
<1>4. QED
  BY <1>1, <1>2, <1>3 DEF OneInv

\* and every step keeps track of the one request.
LEMMA NextOneInv == StreamInv /\ OneInv /\ [Next]_vars => OneInv'
<1> SUFFICES ASSUME StreamInv, OneInv, [Next]_vars PROVE OneInv'
  OBVIOUS
<1>1. window' = window
  BY StepKinds DEF Sends, Discards, Replied, Takes, Waits, Loses
<1>2. CASE window # 1
  BY <1>1, <1>2 DEF OneInv
<1>3. CASE window = 1
  <2>1. ASSUME UNCHANGED <<sent, answered, busy, mark, window>>,
               ToServer' # <<>> => ToServer' = ToServer,
               ToServer' # <<>> => ToClient' = ToClient,
               ToClient' # <<>> => \/ ToClient' = ToClient
                                   \/ /\ ToServer # <<>>
                                      /\ ToClient' = Frame(Response(sent[Len(sent)]))
        PROVE  OneInv'
    <3>1. Awaited' = Awaited
      BY <2>1 DEF Awaited, Answered
    <3>2. QED
      BY <2>1, <3>1, <1>3 DEF OneInv
  <2>2. ASSUME NEW msg \in Req, Sends(msg) PROVE OneInv'
    BY <1>3, <2>2, OneSends
  <2>3. CASE Discards
    <3>1. ToServer # <<>> /\ ToServer' = Rest(ToServer) /\ ToClient' = ToClient
          /\ UNCHANGED <<sent, answered, busy, mark, window>>
      BY <2>3 DEF Discards
    <3>2. ToServer' = <<>>
      BY <1>3, <3>1, RestOfFrame DEF OneInv
    <3>3. QED
      BY <2>1, <3>1, <3>2
  <2>4. CASE Replied
    <3>1. /\ Len(ToServer) >= 2 /\ ToServer' = Rest(ToServer)
          /\ ToClient' = ToClient \o Frame(Response(ToServer[1].msg))
          /\ UNCHANGED <<sent, answered, busy, mark, window>>
      BY <2>4 DEF Replied
    <3>2. ToServer # <<>>
      BY <3>1
    <3>3. ToServer = Frame(sent[Len(sent)]) /\ ToClient = <<>>
      BY <1>3, <3>2 DEF OneInv
    <3>4. ToServer' = <<>> /\ ToServer[1].msg = sent[Len(sent)]
      BY <3>1, <3>3, RestOfFrame
    <3> DEFINE f == Frame(Response(sent[Len(sent)]))
    <3>5. ToClient' = f
      <4>1. f \in Seq(Units({Response(sent[Len(sent)])}))
        BY FrameFacts
      <4>2. ToClient' = <<>> \o f
        BY <3>1, <3>3, <3>4
      <4> HIDE DEF f
      <4>3. QED
        BY <4>1, <4>2, ConcatEmptySeq
    <3>6. QED
      BY <2>1, <3>1, <3>2, <3>4, <3>5
  <2>5. CASE Takes
    BY <1>3, <2>5, OneTakes
  <2>6. CASE Waits
    BY <2>1, <2>6 DEF Waits
  <2>7. CASE Loses
    <3>1. /\ ToServer' = <<>> /\ ToClient' = <<>> /\ busy' = FALSE /\ mark' = Len(sent)
          /\ sent' = sent /\ answered' = answered
      BY <2>7 DEF Loses
    <3>2. Len(sent) \in Nat
      BY DEF StreamInv, TypesOK
    <3>3. Awaited' = {}
      BY <3>1, <3>2 DEF Awaited
    <3>4. QED
      BY <3>1, <3>3, <1>3 DEF OneInv
  <2>8. QED
    BY <2>2, <2>3, <2>4, <2>5, <2>6, <2>7, StepKinds
<1>4. QED
  BY <1>2, <1>3

\* busy says that an answer is due.
THEOREM BusyMeansAwaiting == Spec => []BusyWhileAwaiting
<1>1. OneInv => BusyWhileAwaiting
  BY DEF OneInv, BusyWhileAwaiting
<1>2. QED
  BY <1>1, InitStreamInv, NextStreamInv, InitOneInv, NextOneInv, PTL DEF Spec

-----------------------------------------------------------------------------
(* One reply for each request, in order.                                   *)

\* What replies tell of.
Told(q) == [i \in DOMAIN q |-> q[i].to]

\* It keeps its order when a reply is added or taken.
LEMMA ToldFacts ==
  ASSUME NEW q \in Seq(Rsp)
  PROVE  /\ Told(q) \in Seq(Req) /\ Len(Told(q)) = Len(q)
         /\ \A r \in Rsp : Told(Append(q, r)) = Append(Told(q), r.to)
         /\ q # <<>> => /\ Told(Tail(q)) = Tail(Told(q)) /\ Told(q) # <<>>
                        /\ Head(Told(q)) = Head(q).to
<1>1. /\ Len(q) \in Nat /\ DOMAIN q = 1..Len(q) /\ \A i \in 1..Len(q) : q[i] \in Rsp
  OBVIOUS
<1>2. \A r \in Rsp : r.to \in Req
  BY DEF Rsp
<1>3. Told(q) = [i \in 1..Len(q) |-> q[i].to]
  BY <1>1 DEF Told
<1>4. \A i \in 1..Len(q) : q[i].to \in Req
  BY <1>1, <1>2
<1>5. Told(q) \in Seq(Req) /\ Len(Told(q)) = Len(q) /\ \A i \in 1..Len(q) : Told(q)[i] = q[i].to
  BY <1>1, <1>3, <1>4
<1>6. ASSUME NEW r \in Rsp PROVE Told(Append(q, r)) = Append(Told(q), r.to)
  <2> DEFINE a == Append(q, r)
             b == Append(Told(q), r.to)
  <2>1. /\ DOMAIN a = 1..(Len(q) + 1) /\ \A i \in 1..Len(q) : a[i] = q[i]
        /\ a[Len(q) + 1] = r
    BY <1>1
  <2>2. b = [i \in 1..(Len(q) + 1) |-> IF i = Len(q) + 1 THEN r.to ELSE Told(q)[i]]
    BY <1>5, AppendMade
  <2>3. Told(a) = [i \in 1..(Len(q) + 1) |-> a[i].to]
    BY <2>1 DEF Told
  <2> HIDE DEF a, b
  <2>4. \A i \in 1..(Len(q) + 1) :
           a[i].to = (IF i = Len(q) + 1 THEN r.to ELSE Told(q)[i])
    BY <1>1, <1>5, <2>1
  <2>5. QED
    BY <2>2, <2>3, <2>4 DEF a, b
<1>7. ASSUME q # <<>>
      PROVE  /\ Told(Tail(q)) = Tail(Told(q)) /\ Told(q) # <<>>
             /\ Head(Told(q)) = Head(q).to
  <2>1. Len(q) >= 1
    BY <1>1, <1>7, EmptySeq
  <2>2. /\ Tail(q) = [i \in 1..(Len(q) - 1) |-> q[i + 1]]
        /\ Tail(Told(q)) = [i \in 1..(Len(q) - 1) |-> Told(q)[i + 1]]
    BY <1>1, <1>5, <2>1, TailMade
  <2>3. Told(Tail(q)) = [i \in 1..(Len(q) - 1) |-> q[i + 1].to]
    BY <2>2 DEF Told
  <2>4. \A i \in 1..(Len(q) - 1) : Told(q)[i + 1] = q[i + 1].to
    BY <1>1, <1>5
  <2>5. Told(q) # <<>> /\ Head(Told(q)) = Head(q).to
    BY <1>1, <1>5, <2>1
  <2>6. QED
    BY <2>2, <2>3, <2>4, <2>5
<1>8. QED
  BY <1>5, <1>6, <1>7

\* The requests not yet answered, by way of the streams.
Owed(replies, requests) == Told(replies) \o requests

\* pendingMap is what is owed.
LEMMA PendingIsOwed ==
  ASSUME StreamInv
  PROVE  /\ FramesOf(ToClient) \in Seq(Rsp) /\ FramesOf(ToServer) \in Seq(Req)
         /\ pendingMap = Owed(FramesOf(ToClient), FramesOf(ToServer))
<1>1. pendingMap = Owed(FramesOf(ToClient), FramesOf(ToServer))
  BY StreamsAre DEF pendingMap, Replies, Owed, Told
<1>2. ASSUME NEW M, NEW s \in Seq(Units(M)), Whole(s) PROVE FramesOf(s) \in Seq(M)
  <2>1. CASE Len(s) >= 2
    BY <1>2, <2>1, FrameTaken
  <2>2. CASE ~(Len(s) >= 2)
    <3>1. Len(s) = 0
      BY <1>2, <2>2 DEF Whole
    <3>2. s = <<>>
      BY <3>1, EmptySeq
    <3>3. <<>> \in Seq(M)
      OBVIOUS
    <3>4. QED
      BY <3>2, <3>3, EmptyIsWhole
  <2>3. QED
    BY <2>1, <2>2
<1>3. QED
  BY <1>1, <1>2, StreamTypes DEF StreamInv

\* A reply moves its request, which stays owed, from one stream to the other.
LEMMA OwedFacts ==
  ASSUME NEW replies \in Seq(Rsp), NEW requests \in Seq(Req)
  PROVE  /\ \A m \in Req : Owed(replies, Append(requests, m)) = Append(Owed(replies, requests), m)
         /\ requests # <<>> =>
              \A r \in Rsp : r.to = Head(requests) =>
                 Owed(Append(replies, r), Tail(requests)) = Owed(replies, requests)
         /\ replies # <<>> => /\ Owed(replies, requests) # <<>>
                              /\ Head(Owed(replies, requests)) = Head(replies).to
                              /\ Owed(Tail(replies), requests) = Tail(Owed(replies, requests))
<1> DEFINE t == Told(replies)
<1>1. t \in Seq(Req)
  BY ToldFacts
<1>2. ASSUME NEW m \in Req
      PROVE  Owed(replies, Append(requests, m)) = Append(Owed(replies, requests), m)
  <2> HIDE DEF t
  <2>1. Append(requests, m) = requests \o <<m>> /\ <<m>> \in Seq(Req)
    BY AppendIsConcat
  <2>2. t \o (requests \o <<m>>) = (t \o requests) \o <<m>> /\ t \o requests \in Seq(Req)
    BY <1>1, <2>1, ConcatAssociative, ConcatProperties
  <2>3. Append(t \o requests, m) = (t \o requests) \o <<m>>
    BY <2>2, AppendIsConcat
  <2>4. QED
    BY <2>1, <2>2, <2>3 DEF Owed, t
<1>3. ASSUME requests # <<>>, NEW r \in Rsp, r.to = Head(requests)
      PROVE  Owed(Append(replies, r), Tail(requests)) = Owed(replies, requests)
  <2> DEFINE h == Head(requests)
             rest == Tail(requests)
  <2>1. h \in Req /\ rest \in Seq(Req) /\ requests = <<h>> \o rest /\ <<h>> \in Seq(Req)
    BY <1>3, HeadTailProperties
  <2>2. Told(Append(replies, r)) = Append(t, h)
    BY <1>3, ToldFacts
  <2> HIDE DEF h, rest, t
  <2>3. Append(t, h) = t \o <<h>>
    BY <1>1, <2>1, AppendIsConcat
  <2>4. (t \o <<h>>) \o rest = t \o (<<h>> \o rest)
    BY <1>1, <2>1, ConcatAssociative
  <2>5. QED
    BY <2>1, <2>2, <2>3, <2>4 DEF Owed, t, rest
<1>4. ASSUME replies # <<>>
      PROVE  /\ Owed(replies, requests) # <<>>
             /\ Head(Owed(replies, requests)) = Head(replies).to
             /\ Owed(Tail(replies), requests) = Tail(Owed(replies, requests))
  <2>1. t # <<>> /\ Head(t) = Head(replies).to /\ Told(Tail(replies)) = Tail(t)
    BY <1>4, ToldFacts
  <2> HIDE DEF t
  <2>2. /\ t \o requests # <<>> /\ Head(t \o requests) = Head(t)
        /\ Tail(t \o requests) = Tail(t) \o requests
    BY <1>1, <2>1, HeadTailOfConcat
  <2>3. QED
    BY <2>1, <2>2 DEF Owed, t
<1>5. QED
  BY <1>2, <1>3, <1>4

\* At first nothing is owed.
LEMMA InitOwed == Init => Promise!Init
<1> SUFFICES ASSUME Init PROVE Promise!Init
  OBVIOUS
<1>1. StreamInv
  BY InitStreamInv
<1>2. ToServer = <<>> /\ ToClient = <<>> /\ answered = <<>>
  <2>1. /\ toServer = <<>> /\ serverBuf = <<>> /\ toClient = <<>> /\ clientBuf = <<>>
        /\ answered = <<>>
    BY DEF Init
  <2>2. <<>> \o <<>> = <<>>
    OBVIOUS
  <2>3. QED
    BY <2>1, <2>2 DEF ToServer, ToClient
<1>3. Told(<<>>) = <<>> /\ doneMap = Told(answered)
  <2>1. <<>> \in Seq(Rsp) /\ Len(<<>>) = 0
    OBVIOUS
  <2>2. Told(<<>>) \in Seq(Req) /\ Len(Told(<<>>)) = 0
    BY <2>1, ToldFacts
  <2>3. Told(<<>>) = <<>>
    BY <2>2, EmptySeq
  <2>4. QED
    BY <2>3 DEF doneMap, Told
<1>4. pendingMap = <<>>
  <2>1. <<>> \o <<>> = <<>>
    OBVIOUS
  <2>2. QED
    BY <1>1, <1>2, <1>3, <2>1, PendingIsOwed, EmptyIsWhole DEF Owed
<1>5. QED
  BY <1>2, <1>3, <1>4 DEF Promise!Init

\* A step sends, answers, skips what is no JSON, loses all, or is not seen.
LEMMA StepOwed ==
  ASSUME StreamInv, [Next]_vars
  PROVE  [Promise!Next]_<<pendingMap, doneMap>>
<1> DEFINE requests == FramesOf(ToServer)
           replies == FramesOf(ToClient)
<1>1. /\ StreamInv' /\ Whole(ToServer) /\ Whole(ToClient)
      /\ ToServer \in Seq(Units(Req)) /\ ToClient \in Seq(Units(Rsp))
      /\ answered \in Seq(Rsp)
  BY NextStreamInv, StreamTypes DEF StreamInv, TypesOK
<1>2. requests \in Seq(Req) /\ replies \in Seq(Rsp) /\ pendingMap = Owed(replies, requests)
  BY PendingIsOwed
<1>3. pendingMap' = Owed(FramesOf(ToClient'), FramesOf(ToServer'))
  <2>1. StreamInv => pendingMap = Owed(FramesOf(ToClient), FramesOf(ToServer))
    BY PendingIsOwed
  <2>2. (pendingMap = Owed(FramesOf(ToClient), FramesOf(ToServer)))'
    BY <1>1 DEF pendingMap, Replies, Owed, Told, Stream, ToServer, ToClient, FramesOf
  <2>3. QED
    BY <2>2 DEF Owed, Told, FramesOf
<1>4. doneMap = Told(answered) /\ doneMap' = Told(answered')
  BY DEF doneMap, Told
<1>5. ASSUME NEW msg \in Req, Sends(msg) PROVE Promise!Next
  <2>1. ToServer' = ToServer \o Frame(msg) /\ ToClient' = ToClient /\ answered' = answered
    BY <1>5 DEF Sends
  <2>2. FramesOf(ToServer') = Append(requests, msg)
    BY <1>1, <2>1, FrameAdded
  <2> HIDE DEF requests, replies
  <2>3. pendingMap' = Append(pendingMap, msg)
    BY <1>2, <1>3, <2>1, <2>2, OwedFacts DEF replies
  <2>4. QED
    BY <1>4, <2>1, <2>3 DEF Promise!Next, Promise!Send
<1>6. CASE Discards
  <2>1. /\ Len(ToServer) >= 2 /\ ToServer[1].msg.kind = "garbage"
        /\ ToServer' = Rest(ToServer) /\ ToClient' = ToClient /\ answered' = answered
    BY <1>6 DEF Discards
  <2>2. /\ requests # <<>> /\ Head(requests) = ToServer[1].msg
        /\ FramesOf(ToServer') = Tail(requests)
    BY <1>1, <2>1, FrameTaken
  <2> DEFINE t == Told(replies)
             i == Len(t) + 1
  <2>3. t \in Seq(Req) /\ pendingMap = t \o requests /\ pendingMap' = t \o Tail(requests)
    BY <1>2, <1>3, <2>1, <2>2, ToldFacts DEF Owed
  <2> HIDE DEF requests, replies, t
  <2>4. /\ i \in DOMAIN (t \o requests) /\ (t \o requests)[i] = Head(requests)
        /\ SubSeq(t \o requests, 1, i - 1) = t
        /\ SubSeq(t \o requests, i + 1, Len(t \o requests)) = Tail(requests)
    BY <1>2, <2>2, <2>3, AfterConcat
  <2>5. /\ i \in DOMAIN pendingMap /\ pendingMap[i].kind = "garbage"
        /\ pendingMap' = SubSeq(pendingMap, 1, i - 1) \o SubSeq(pendingMap, i + 1, Len(pendingMap))
    BY <2>1, <2>2, <2>3, <2>4
  <2>6. doneMap' = doneMap
    BY <1>4, <2>1
  <2>7. QED
    BY <2>5, <2>6 DEF Promise!Next, Promise!Skip
<1>7. CASE Replied
  <2> DEFINE r == Response(ToServer[1].msg)
  <2>1. /\ Len(ToServer) >= 2 /\ ToServer' = Rest(ToServer)
        /\ ToClient' = ToClient \o Frame(r) /\ answered' = answered
    BY <1>7 DEF Replied
  <2>2. /\ requests # <<>> /\ Head(requests) = ToServer[1].msg /\ ToServer[1].msg \in Req
        /\ FramesOf(ToServer') = Tail(requests)
    BY <1>1, <2>1, FrameTaken
  <2>3. r \in Rsp /\ r.to = Head(requests)
    BY <2>2, ResponseIsReply
  <2> HIDE DEF r
  <2>4. FramesOf(ToClient') = Append(replies, r)
    BY <1>1, <2>1, <2>3, FrameAdded
  <2> HIDE DEF requests, replies
  <2>5. pendingMap' = pendingMap
    BY <1>2, <1>3, <2>2, <2>3, <2>4, OwedFacts
  <2>6. QED
    BY <1>4, <2>1, <2>5
<1>8. CASE Takes
  <2>1. /\ Len(ToClient) >= 2 /\ ToClient' = Rest(ToClient) /\ ToServer' = ToServer
        /\ answered' = Append(answered, ToClient[1].msg)
    BY <1>8 DEF Takes
  <2>2. /\ replies # <<>> /\ Head(replies) = ToClient[1].msg /\ ToClient[1].msg \in Rsp
        /\ FramesOf(ToClient') = Tail(replies)
    BY <1>1, <2>1, FrameTaken
  <2>3. Told(answered') = Append(Told(answered), Head(replies).to)
    BY <1>1, <2>1, <2>2, ToldFacts
  <2>4. pendingMap' = Owed(Tail(replies), requests)
    BY <1>3, <2>1, <2>2
  <2> HIDE DEF requests, replies
  <2>5. /\ pendingMap # <<>> /\ Head(pendingMap) = Head(replies).to
        /\ pendingMap' = Tail(pendingMap)
    BY <1>2, <2>2, <2>4, OwedFacts
  <2>6. QED
    BY <1>4, <2>3, <2>5 DEF Promise!Next, Promise!Answer
<1>9. CASE Waits
  <2>1. ToServer' = ToServer /\ ToClient' = ToClient /\ answered' = answered
    BY <1>9 DEF Waits
  <2>2. QED
    BY <1>2, <1>3, <1>4, <2>1
<1>10. CASE Loses
  <2>1. ToServer' = <<>> /\ ToClient' = <<>> /\ answered' = answered
    BY <1>10 DEF Loses
  <2>2. pendingMap' = <<>>
    <3>1. <<>> \in Seq(Rsp) /\ Len(<<>>) = 0 /\ <<>> \o <<>> = <<>>
      OBVIOUS
    <3>2. Told(<<>>) \in Seq(Req) /\ Len(Told(<<>>)) = 0
      BY <3>1, ToldFacts
    <3>3. Told(<<>>) = <<>>
      BY <3>2, EmptySeq
    <3>4. QED
      BY <1>3, <2>1, <3>1, <3>3, EmptyIsWhole DEF Owed
  <2>3. QED
    BY <1>4, <2>1, <2>2 DEF Promise!Next, Promise!Lose
<1>11. QED
  BY <1>5, <1>6, <1>7, <1>8, <1>9, <1>10, StepKinds

(* The connection keeps the promise of RequestReply, however many requests *)
(* are in flight and however their bytes arrive.                           *)
THEOREM ConnectionKeepsPromise == Spec => RefinesRequestReply
  BY InitOwed, StepOwed, InitStreamInv, NextStreamInv, PTL
     DEF Spec, RefinesRequestReply, Promise!Spec
=============================================================================
