-------------------------- MODULE ConnectionProofs --------------------------
(***************************************************************************)
(* The exchange over one connection, for every script of requests, every    *)
(* way the reads split the stream, a death of either process at any point   *)
(* and one damaged cell.                                                    *)
(***************************************************************************)
EXTENDS Connection, SequenceTheorems, TLAPS

-----------------------------------------------------------------------------
(* Streams of cells *)

\* What is appended follows what was there.
LEMMA Joined ==
  ASSUME NEW s \in Seq(Nat), NEW t \in Seq(Nat)
  PROVE  /\ s \o t \in Seq(Nat) /\ Len(s \o t) = Len(s) + Len(t)
         /\ \A i \in 1..Len(s) : (s \o t)[i] = s[i]
         /\ \A i \in 1..Len(t) : (s \o t)[Len(s) + i] = t[i]
<1>1. Len(s) \in Nat /\ Len(t) \in Nat
  BY LenProperties
<1>2. /\ s \o t \in Seq(Nat) /\ Len(s \o t) = Len(s) + Len(t)
      /\ \A i \in 1..(Len(s) + Len(t)) :
           (s \o t)[i] = IF i <= Len(s) THEN s[i] ELSE t[i - Len(s)]
  BY Zenon, ConcatProperties
<1>3. \A i \in 1..Len(s) : (s \o t)[i] = s[i]
  BY SMTT(30), <1>1, <1>2
<1>4. ASSUME NEW i \in 1..Len(t) PROVE (s \o t)[Len(s) + i] = t[i]
  <2>1. /\ Len(s) + i \in 1..(Len(s) + Len(t)) /\ ~(Len(s) + i <= Len(s))
        /\ Len(s) + i - Len(s) = i
    BY SMTT(30), <1>1
  <2> QED BY SMTT(30), <1>2, <2>1
<1> QED
  BY ZenonT(40), <1>2, <1>3, <1>4

\* A part of a stream.
LEMMA Part ==
  ASSUME NEW s \in Seq(Nat), NEW a \in Nat, NEW b \in Nat, a <= b, b <= Len(s)
  PROVE  /\ SubSeq(s, a + 1, b) \in Seq(Nat) /\ Len(SubSeq(s, a + 1, b)) = b - a
         /\ \A i \in 1..(b - a) : SubSeq(s, a + 1, b)[i] = s[a + i]
<1>1. Len(s) \in Nat /\ \A i \in 1..Len(s) : s[i] \in Nat
  BY SMTT(30), LenProperties
<1>2. \A i \in (a + 1)..b : s[i] \in Nat
  BY SMTT(30), <1>1
<1>3. a + 1 \in Int /\ b \in Int
  OBVIOUS
<1>4. /\ SubSeq(s, a + 1, b) \in Seq(Nat)
      /\ Len(SubSeq(s, a + 1, b)) = IF a + 1 <= b THEN b - (a + 1) + 1 ELSE 0
      /\ \A i \in 1..(b - (a + 1) + 1) : SubSeq(s, a + 1, b)[i] = s[a + 1 + i - 1]
  BY SMTT(30), <1>2, <1>3, SubSeqProperties
<1>5. b - (a + 1) + 1 = b - a
  OBVIOUS
<1>6. Len(SubSeq(s, a + 1, b)) = b - a
  BY SMTT(30), <1>4
<1>7. ASSUME NEW i \in 1..(b - a) PROVE SubSeq(s, a + 1, b)[i] = s[a + i]
  <2>1. a + 1 + i - 1 = a + i
    OBVIOUS
  <2> QED BY SMTT(30), <1>4, <1>5, <2>1
<1> QED
  BY Zenon, <1>4, <1>6, <1>7

-----------------------------------------------------------------------------
(* Frames *)

\* Where the parts of a frame and of what its checksum covers lie.
LEMMA FrameLayout ==
  ASSUME NEW m \in Sent
  PROVE  LET f == EncodeFrame(m)
             c == Covered(m)
             k == Len(Encode(m))
         IN  /\ k \in 0..MaxFrame /\ Encode(m) \in Seq(Nat)
             /\ f \in Seq(Nat) /\ Len(f) = 6 + k
             /\ f[1] = Magic /\ f[2] = Version /\ f[3] = Tag(m.type) /\ f[4] = k
             /\ f[5] = Checksum(c)
             /\ \A i \in 1..k : f[6 + i] = Encode(m)[i]
             /\ c \in Seq(Nat) /\ Len(c) = 4 + k
             /\ \A i \in 1..4 : c[i] = f[i]
             /\ \A i \in 5..(4 + k) : c[i] = f[i + 2]
<1> DEFINE b == Encode(m)
           p == Prefix(m)
           h == <<Checksum(Covered(m)), 0>>
<1>1. b \in Seq(Nat) /\ Len(b) \in Nat /\ Len(b) <= MaxFrame /\ MaxFrame \in Nat
  BY CodecAssumption, ExchangeAssumption
<1>2. Tag(m.type) \in Nat
  <2>1. \E t \in DOMAIN MsgType : MsgType[t] = m.type
    BY SMTT(30), CodecAssumption
  <2>2. Tag(m.type) \in DOMAIN MsgType
    BY Zenon, <2>1 DEF Tag
  <2>3. DOMAIN MsgType = 1..16
    BY DEF MsgType
  <2> QED BY SMTT(30), <2>2, <2>3
<1>3. Checksum(Covered(m)) \in Nat
  BY ChecksumAssumption
<1>4. p \in Seq(Nat) /\ Len(p) = 4
      /\ p[1] = Magic /\ p[2] = Version /\ p[3] = Tag(m.type) /\ p[4] = Len(b)
  BY SMTT(30), <1>1, <1>2 DEF Prefix, Magic, Version
<1>5. h \in Seq(Nat) /\ Len(h) = 2 /\ h[1] = Checksum(Covered(m))
  BY <1>3
<1>6. Covered(m) = p \o b /\ EncodeFrame(m) = (p \o h) \o b
  BY Zenon DEF Covered, EncodeFrame
<1> HIDE DEF b, p, h
<1>7. /\ p \o h \in Seq(Nat) /\ Len(p \o h) = 6
      /\ \A i \in 1..4 : (p \o h)[i] = p[i]
      /\ (p \o h)[5] = h[1]
  <2>1. /\ p \o h \in Seq(Nat) /\ Len(p \o h) = Len(p) + Len(h)
        /\ \A i \in 1..Len(p) : (p \o h)[i] = p[i]
        /\ \A i \in 1..Len(h) : (p \o h)[Len(p) + i] = h[i]
    BY Zenon, <1>4, <1>5, Joined
  <2>2. 1 \in 1..Len(h)
    BY <1>5
  <2>3. (p \o h)[Len(p) + 1] = h[1]
    BY Zenon, <2>1, <2>2
  <2>4. Len(p) = 4 /\ Len(p) + 1 = 5 /\ Len(p) + Len(h) = 6
    BY SMTT(30), <1>4, <1>5
  <2> QED BY Zenon, <2>1, <2>3, <2>4
<1> DEFINE q == p \o h
<1> HIDE DEF q
<1>8. /\ q \o b \in Seq(Nat) /\ Len(q \o b) = 6 + Len(b)
      /\ \A i \in 1..6 : (q \o b)[i] = q[i]
      /\ \A i \in 1..Len(b) : (q \o b)[6 + i] = b[i]
  <2>1. q \in Seq(Nat) /\ Len(q) = 6
    BY Zenon, <1>7 DEF q
  <2>2. /\ q \o b \in Seq(Nat) /\ Len(q \o b) = Len(q) + Len(b)
        /\ \A i \in 1..Len(q) : (q \o b)[i] = q[i]
        /\ \A i \in 1..Len(b) : (q \o b)[Len(q) + i] = b[i]
    BY ZenonT(40), <1>1, <2>1, Joined
  <2> QED BY Zenon, <2>1, <2>2
<1>9. /\ p \o b \in Seq(Nat) /\ Len(p \o b) = 4 + Len(b)
      /\ \A i \in 1..4 : (p \o b)[i] = p[i]
      /\ \A i \in 1..Len(b) : (p \o b)[4 + i] = b[i]
  <2>1. /\ p \o b \in Seq(Nat) /\ Len(p \o b) = Len(p) + Len(b)
        /\ \A i \in 1..Len(p) : (p \o b)[i] = p[i]
        /\ \A i \in 1..Len(b) : (p \o b)[Len(p) + i] = b[i]
    BY ZenonT(40), <1>1, <1>4, Joined
  <2> QED BY ZenonT(40), <1>4, <2>1
<1>10. ASSUME NEW i \in 5..(4 + Len(b)) PROVE (p \o b)[i] = (q \o b)[i + 2]
  <2>1. i - 4 \in 1..Len(b) /\ 4 + (i - 4) = i /\ 6 + (i - 4) = i + 2
    BY <1>1
  <2>2. (p \o b)[4 + (i - 4)] = b[i - 4] /\ (q \o b)[6 + (i - 4)] = b[i - 4]
    BY Zenon, <1>8, <1>9, <2>1
  <2> QED BY Zenon, <2>1, <2>2
<1>11. q[1] = p[1] /\ q[2] = p[2] /\ q[3] = p[3] /\ q[4] = p[4] /\ q[5] = h[1]
  <2>1. 1 \in 1..4 /\ 2 \in 1..4 /\ 3 \in 1..4 /\ 4 \in 1..4
    OBVIOUS
  <2> QED BY Zenon, <1>7, <2>1 DEF q
<1>12. \A i \in 1..4 : (p \o b)[i] = (q \o b)[i]
  <2> SUFFICES ASSUME NEW i \in 1..4 PROVE (p \o b)[i] = (q \o b)[i]
    OBVIOUS
  <2>1. i \in 1..6
    OBVIOUS
  <2> QED BY ZenonT(40), <1>7, <1>8, <1>9, <2>1 DEF q
<1>13. /\ (q \o b)[1] = Magic /\ (q \o b)[2] = Version /\ (q \o b)[3] = Tag(m.type)
       /\ (q \o b)[4] = Len(b) /\ (q \o b)[5] = Checksum(Covered(m))
  <2>1. 1 \in 1..6 /\ 2 \in 1..6 /\ 3 \in 1..6 /\ 4 \in 1..6 /\ 5 \in 1..6
    OBVIOUS
  <2> QED BY Zenon, <1>4, <1>5, <1>8, <1>11, <2>1
<1>14. EncodeFrame(m) = q \o b /\ Len(b) \in 0..MaxFrame
  BY SMTT(30), <1>1, <1>6 DEF q
<1> QED
  BY Zenon, <1>1, <1>6, <1>8, <1>9, <1>10, <1>12, <1>13, <1>14 DEF b

\* The tag of a type is read as the type.
LEMMA TagRead ==
  ASSUME NEW m \in Sent
  PROVE  FromTag(Tag(m.type)) = m.type
<1>1. \E t \in DOMAIN MsgType : MsgType[t] = m.type
  BY SMTT(30), CodecAssumption
<1>2. Tag(m.type) \in DOMAIN MsgType /\ MsgType[Tag(m.type)] = m.type
  BY Zenon, <1>1 DEF Tag
<1> QED
  BY ZenonT(40), <1>2 DEF FromTag

\* What has been read of a frame whose length is known is never beyond its end.
NotBeyond(b) == Len(b) > HeaderLen => HeaderGood(b) /\ Len(b) <= HeaderLen + b[4]

\* s is the beginning of g.
Begins(s, g) == Len(s) <= Len(g) /\ \A i \in 1..Len(s) : s[i] = g[i]

\* A complete frame that is intact: its length, and what its checksum was compared with.
LEMMA WholeRead ==
  ASSUME NEW s \in Seq(Nat), NotBeyond(s), ~Incomplete(s), Intact(s)
  PROVE  LET x == SubSeq(s, 1, 4) \o Body(s)
         IN  /\ Len(s) = 6 + s[4] /\ s[4] \in Nat
             /\ Body(s) \in Seq(Nat) /\ Len(Body(s)) = s[4]
             /\ \A i \in 1..s[4] : Body(s)[i] = s[6 + i]
             /\ s[5] = Checksum(x)
             /\ x \in Seq(Nat) /\ Len(x) = 4 + s[4]
             /\ \A i \in 1..4 : x[i] = s[i]
             /\ \A i \in 1..s[4] : x[4 + i] = s[6 + i]
<1> DEFINE a == SubSeq(s, 1, 4)
           b == Body(s)
<1>1. Len(s) \in Nat /\ ~(Len(s) < 6) /\ HeaderGood(s) /\ ~(Missing(s) > 0)
  BY SMTT(30), LenProperties DEF Incomplete, Intact, HeaderLen
<1>2. s[4] \in Nat
  <2>1. 4 \in 1..Len(s)
    BY <1>1
  <2> QED BY Zenon, <2>1, ElementOfSeq
<1>3. Len(s) = 6 + s[4]
  BY SMTT(30), <1>1, <1>2 DEF NotBeyond, Missing, HeaderLen
<1>4. /\ a \in Seq(Nat) /\ Len(a) = 4
      /\ \A i \in 1..4 : a[i] = s[i]
  <2>1. 0 <= 4 /\ 4 <= Len(s) /\ 0 + 1 = 1 /\ 4 - 0 = 4 /\ \A i \in 1..4 : 0 + i = i
    BY <1>1
  <2>2. 0 \in Nat /\ 4 \in Nat
    OBVIOUS
  <2>3. /\ SubSeq(s, 0 + 1, 4) \in Seq(Nat) /\ Len(SubSeq(s, 0 + 1, 4)) = 4 - 0
        /\ \A i \in 1..(4 - 0) : SubSeq(s, 0 + 1, 4)[i] = s[0 + i]
    BY ZenonT(40), <2>1, <2>2, Part
  <2> QED BY Zenon, <2>1, <2>3
<1>5. /\ b \in Seq(Nat) /\ Len(b) = s[4]
      /\ \A i \in 1..s[4] : b[i] = s[6 + i]
  <2>1. 6 \in Nat /\ 6 <= Len(s) /\ Len(s) <= Len(s) /\ Len(s) - 6 = s[4]
    BY SMTT(30), <1>1, <1>2, <1>3
  <2>2. /\ SubSeq(s, 6 + 1, Len(s)) \in Seq(Nat) /\ Len(SubSeq(s, 6 + 1, Len(s))) = Len(s) - 6
        /\ \A i \in 1..(Len(s) - 6) : SubSeq(s, 6 + 1, Len(s))[i] = s[6 + i]
    BY ZenonT(40), <1>1, <2>1, Part
  <2> QED BY Zenon, <2>1, <2>2 DEF Body, HeaderLen
<1>6. s[5] = Checksum(a \o b)
  BY Zenon DEF Intact
<1> HIDE DEF a, b
<1>7. /\ a \o b \in Seq(Nat) /\ Len(a \o b) = Len(a) + Len(b)
      /\ \A i \in 1..Len(a) : (a \o b)[i] = a[i]
      /\ \A i \in 1..Len(b) : (a \o b)[Len(a) + i] = b[i]
  BY ZenonT(40), <1>4, <1>5, Joined
<1>8. /\ Len(a \o b) = 4 + s[4]
      /\ \A i \in 1..4 : (a \o b)[i] = s[i]
      /\ \A i \in 1..s[4] : (a \o b)[4 + i] = s[6 + i]
  BY ZenonT(40), <1>4, <1>5, <1>7
<1> QED
  BY ZenonT(40), <1>2, <1>3, <1>5, <1>6, <1>7, <1>8 DEF a, b

\* A complete frame whose type, length and body are those that were sent.
LEMMA SameMessage ==
  ASSUME NEW m \in Sent, NEW s \in Seq(Nat), NotBeyond(s), ~Incomplete(s), Intact(s),
         s[3] = EncodeFrame(m)[3], s[4] = EncodeFrame(m)[4],
         \A i \in 7..Len(s) : s[i] = EncodeFrame(m)[i]
  PROVE  Message(s) = m /\ Len(s) = Len(EncodeFrame(m))
<1> DEFINE f == EncodeFrame(m)
           b == Encode(m)
           t == Body(s)
<1>1. /\ Len(b) \in 0..MaxFrame /\ b \in Seq(Nat) /\ Len(f) = 6 + Len(b)
      /\ f[3] = Tag(m.type) /\ f[4] = Len(b)
      /\ \A i \in 1..Len(b) : f[6 + i] = b[i]
  BY Zenon, FrameLayout
<1>2. /\ Len(s) = 6 + s[4] /\ s[4] \in Nat
      /\ t \in Seq(Nat) /\ Len(t) = s[4]
      /\ \A i \in 1..s[4] : t[i] = s[6 + i]
  BY Zenon, WholeRead
<1>3. s[3] = f[3] /\ s[4] = f[4] /\ \A i \in 7..Len(s) : s[i] = f[i]
  OBVIOUS
<1>4. Decode(m.type, b) = m
  BY SMTT(30), CodecAssumption
<1>5. Message(s) = Decode(FromTag(s[3]), t)
  BY Zenon DEF Message
<1>6. FromTag(Tag(m.type)) = m.type
  BY Zenon, TagRead
<1> HIDE DEF f, b, t
<1>7. Len(t) = Len(b) /\ Len(s) = Len(f)
  BY ZenonT(40), <1>1, <1>2, <1>3
<1>8. ASSUME NEW i \in 1..Len(t) PROVE t[i] = b[i]
  <2>1. 6 + i \in 7..Len(s) /\ i \in 1..Len(b) /\ i \in 1..s[4]
    BY SMTT(30), <1>2, <1>7
  <2> QED BY ZenonT(40), <1>1, <1>2, <1>3, <2>1
<1>9. t = b
  BY ZenonT(40), <1>1, <1>2, <1>7, <1>8, SeqEqual
<1> QED
  BY Zenon, <1>1, <1>3, <1>4, <1>5, <1>6, <1>7, <1>9 DEF f

\* A frame with one cell changed that the checksum covers is not intact.
LEMMA ChangeNoticed ==
  ASSUME NEW m \in Sent, NEW j \in DOMAIN Covered(m),
         NEW v \in (0..(MaxFrame + 1)) \ {Covered(m)[j]},
         NEW s \in Seq(Nat), NotBeyond(s), ~Incomplete(s), Intact(s),
         Len(s) <= Len(EncodeFrame(m)), s[5] = EncodeFrame(m)[5],
         \A i \in 1..4 : s[i] = [Covered(m) EXCEPT ![j] = v][i],
         \A i \in 7..Len(s) : s[i] = [Covered(m) EXCEPT ![j] = v][i - 2]
  PROVE  FALSE
<1> DEFINE f == EncodeFrame(m)
           c == Covered(m)
           d == [Covered(m) EXCEPT ![j] = v]
           x == SubSeq(s, 1, 4) \o Body(s)
           y == SubSeq(d, 1, 4 + d[4])
<1>1. /\ Len(Encode(m)) \in 0..MaxFrame
      /\ Len(f) = 6 + Len(Encode(m)) /\ f[5] = Checksum(c)
      /\ c \in Seq(Nat) /\ Len(c) = 4 + Len(Encode(m))
  BY Zenon, FrameLayout
<1>2. /\ Len(s) = 6 + s[4] /\ s[4] \in Nat
      /\ s[5] = Checksum(x)
      /\ x \in Seq(Nat) /\ Len(x) = 4 + s[4]
      /\ \A i \in 1..4 : x[i] = s[i]
      /\ \A i \in 1..s[4] : x[4 + i] = s[6 + i]
  BY Zenon, WholeRead
<1>3. d \in Seq(Nat) /\ Len(d) = Len(c)
  <2>1. j \in 1..Len(c) /\ v \in Nat
    BY SMTT(30), <1>1, LenProperties
  <2> QED BY ZenonT(40), <1>1, <2>1, ExceptSeq
<1>4. 4 + d[4] <= Len(d) => Checksum(y) # Checksum(c)
  BY Zenon, ChecksumAssumption
<1>5. /\ s[5] = f[5] /\ Len(s) <= Len(f)
      /\ \A i \in 1..4 : s[i] = d[i]
      /\ \A i \in 7..Len(s) : s[i] = d[i - 2]
  OBVIOUS
<1> HIDE DEF f, c, d, x
<1>6. d[4] = s[4] /\ 4 + d[4] <= Len(d)
  <2>1. d[4] = s[4]
    BY SMTT(30), <1>5
  <2> DEFINE k == Len(Encode(m))
  <2>2. k \in Nat /\ Len(f) = 6 + k /\ Len(d) = 4 + k /\ Len(s) = 6 + s[4] /\ Len(s) <= Len(f)
    BY SMTT(30), <1>1, <1>2, <1>3, <1>5
  <2> HIDE DEF k
  <2>3. s[4] <= k
    BY SMTT(30), <1>2, <2>2
  <2> QED BY SMTT(30), <1>2, <2>1, <2>2, <2>3
<1>7. y \in Seq(Nat) /\ Len(y) = 4 + s[4] /\ \A i \in 1..(4 + s[4]) : y[i] = d[i]
  <2>1. /\ 0 \in Nat /\ 4 + s[4] \in Nat /\ 0 <= 4 + s[4] /\ 4 + s[4] <= Len(d)
        /\ 0 + 1 = 1 /\ (4 + s[4]) - 0 = 4 + s[4] /\ \A i \in 1..(4 + s[4]) : 0 + i = i
    <3>1. s[4] \in Nat /\ 4 + s[4] <= Len(d)
      BY Zenon, <1>2, <1>6
    <3> QED BY ONLY SMTT(30), <3>1
  <2>2. LET z == SubSeq(d, 0 + 1, 4 + s[4])
        IN  /\ z \in Seq(Nat) /\ Len(z) = (4 + s[4]) - 0
            /\ \A i \in 1..((4 + s[4]) - 0) : z[i] = d[0 + i]
    BY ZenonT(40), <1>3, <2>1, Part
  <2> QED BY Zenon, <1>6, <2>1, <2>2
<1> HIDE DEF y
<1>8. ASSUME NEW i \in 1..Len(x) PROVE x[i] = y[i]
  <2>1. i \in 1..(4 + s[4])
    BY Zenon, <1>2
  <2>2. CASE i \in 1..4
    BY ZenonT(40), <1>2, <1>5, <1>7, <2>1, <2>2
  <2>3. CASE i \notin 1..4
    <3>1. /\ i - 4 \in 1..s[4] /\ 4 + (i - 4) = i /\ 6 + (i - 4) = i + 2
          /\ i + 2 \in 7..Len(s) /\ (i + 2) - 2 = i
      <4>1. s[4] \in Nat /\ Len(s) = 6 + s[4]
        BY Zenon, <1>2
      <4> QED BY ONLY SMTT(30), <2>1, <2>3, <4>1
    <3>2. x[4 + (i - 4)] = s[6 + (i - 4)]
      BY Zenon, <1>2, <3>1
    <3>3. s[i + 2] = d[(i + 2) - 2]
      BY Zenon, <1>5, <3>1
    <3> QED BY ZenonT(40), <1>7, <2>1, <3>1, <3>2, <3>3
  <2> QED BY ZenonT(40), <2>2, <2>3
<1>9. x = y
  <2>1. x \in Seq(Nat) /\ y \in Seq(Nat) /\ Len(x) = Len(y)
    BY ZenonT(40), <1>2, <1>7
  <2> QED BY ONLY SMTT(30), <1>8, <2>1, SeqEqual
<1> QED
  BY ZenonT(40), <1>1, <1>2, <1>4, <1>5, <1>6, <1>9

\* The frames with one cell changed, and what may be on the way.
Altered(m) ==
  {[EncodeFrame(m) EXCEPT ![i] = v] : i \in DOMAIN EncodeFrame(m), v \in 0..(MaxFrame + 1)}

Variants(m, d) == {EncodeFrame(m)} \cup (IF d = 0 THEN {} ELSE Altered(m))

\* A changed cell leaves a frame a stream of the same length.
LEMMA VariantTyped ==
  ASSUME NEW m \in Sent, NEW d, NEW g \in Variants(m, d)
  PROVE  g \in Seq(Nat) /\ Len(g) = Len(EncodeFrame(m)) /\ Len(g) \in Nat /\ Len(g) >= 6
<1> DEFINE f == EncodeFrame(m)
<1>1. f \in Seq(Nat) /\ Len(f) = 6 + Len(Encode(m)) /\ Len(Encode(m)) \in 0..MaxFrame
  BY Zenon, FrameLayout
<1>2. Len(f) \in Nat /\ Len(f) >= 6 /\ DOMAIN f = 1..Len(f)
  BY SMTT(30), <1>1, LenProperties
<1>3. CASE g = f
  BY ZenonT(40), <1>1, <1>2, <1>3
<1>4. CASE g \in Altered(m)
  <2>1. PICK i \in DOMAIN f, v \in 0..(MaxFrame + 1) : g = [f EXCEPT ![i] = v]
    BY SMTT(30), <1>4 DEF Altered
  <2>2. i \in 1..Len(f) /\ v \in Nat
    BY SMTT(30), <1>2
  <2>3. g \in Seq(Nat) /\ Len(g) = Len(f)
    BY ZenonT(40), <1>1, <2>1, <2>2, ExceptSeq
  <2> QED BY ZenonT(40), <1>2, <2>3
<1> QED
  BY Zenon, <1>3, <1>4 DEF Variants

\* Where a covered cell lies in the frame: the fifth and the sixth are left out of
\* the checksum, and those after them move up.
LEMMA FrameCell ==
  ASSUME NEW k \in Nat, NEW i \in 1..(4 + k), i \notin 1..4
  PROVE  /\ i - 4 \in 1..k /\ 4 + (i - 4) = i /\ 6 + (i - 4) = i + 2
         /\ i + 2 \in 1..(6 + k) /\ i + 2 # 5 /\ i \in 5..(4 + k)
  BY SMTT(30)

\* What is read from a frame, damaged in at most one cell, and passes the checks of
\* read_frame is the whole of it and the message that was sent.
LEMMA FrameNoticed ==
  ASSUME NEW m \in Sent, NEW d, NEW g \in Variants(m, d),
         NEW s \in Seq(Nat), Begins(s, g), NotBeyond(s), ~Incomplete(s), Intact(s)
  PROVE  Len(s) = Len(g) /\ Message(s) = m
<1> DEFINE f == EncodeFrame(m)
           c == Covered(m)
           k == Len(Encode(m))
<1>1. /\ k \in 0..MaxFrame /\ f \in Seq(Nat) /\ Len(f) = 6 + k
      /\ f[5] = Checksum(c)
      /\ c \in Seq(Nat) /\ Len(c) = 4 + k
      /\ \A i \in 1..4 : c[i] = f[i]
      /\ \A i \in 5..(4 + k) : c[i] = f[i + 2]
  BY Zenon, FrameLayout
<1>2. Len(g) = Len(f)
  BY ZenonT(40), VariantTyped
<1>3. Len(s) = 6 + s[4] /\ s[4] \in Nat
  BY ZenonT(40), WholeRead
<1>4. Len(s) <= Len(g) /\ \A i \in 1..Len(s) : s[i] = g[i]
  BY Zenon DEF Begins
<1> HIDE DEF f, c, k
<1>a. /\ k \in Nat /\ s[4] \in Nat
      /\ Len(f) = 6 + k /\ Len(c) = 4 + k /\ Len(s) = 6 + s[4] /\ Len(s) <= 6 + k
  BY SMTT(30), <1>1, <1>2, <1>3, <1>4
<1>5. ASSUME \A i \in 1..Len(s) : i \in {3, 4} \cup 7..Len(s) => g[i] = f[i]
      PROVE  Len(s) = Len(g) /\ Message(s) = m
  <2>1. 3 \in 1..Len(s) /\ 4 \in 1..Len(s) /\ \A i \in 7..Len(s) : i \in 1..Len(s)
    BY ONLY SMTT(30), <1>a
  <2>2. s[3] = f[3] /\ s[4] = f[4]
    BY SMTT(30), <1>4, <1>5, <2>1
  <2>3. \A i \in 7..Len(s) : s[i] = f[i]
    BY SMTT(30), <1>4, <1>5, <2>1
  <2> QED BY ZenonT(40), <1>2, <2>2, <2>3, SameMessage DEF f
<1>6. CASE g = f
  BY ZenonT(40), <1>5, <1>6
<1>7. CASE g \in Altered(m)
  <2>1. PICK e \in DOMAIN f, v \in 0..(MaxFrame + 1) : g = [f EXCEPT ![e] = v]
    BY SMTT(30), <1>7 DEF Altered, f
  <2>2. /\ DOMAIN f = 1..Len(f) /\ e \in 1..Len(f)
        /\ g[e] = v /\ \A i \in 1..Len(f) : i # e => g[i] = f[i]
    BY SMTT(30), <1>1, <2>1, LenProperties
  <2>3. \A i \in 1..Len(s) : i \in 1..Len(f)
    BY ONLY SMTT(30), <1>a
  <2>4. CASE e = 6 \/ v = f[e]
    <3>1. \A i \in 1..Len(s) : i \in {3, 4} \cup 7..Len(s) => g[i] = f[i]
      BY SMTT(30), <2>2, <2>3, <2>4
    <3> QED BY Zenon, <1>5, <3>1
  <2>5. CASE e = 5 /\ v # f[5]
    <3>1. \A i \in 1..Len(s) : i \in {3, 4} \cup 7..Len(s) => g[i] = f[i]
      BY SMTT(30), <2>2, <2>3, <2>5
    <3>2. Len(s) = Len(g)
      BY ZenonT(40), <1>5, <3>1
    <3> DEFINE x == SubSeq(s, 1, 4) \o Body(s)
    <3>3. /\ s[5] = Checksum(x)
          /\ x \in Seq(Nat) /\ Len(x) = 4 + s[4]
          /\ \A i \in 1..4 : x[i] = s[i]
          /\ \A i \in 1..s[4] : x[4 + i] = s[6 + i]
      BY Zenon, WholeRead
    <3> HIDE DEF x
    <3>4. s[4] = k /\ Len(x) = Len(c)
      <4>1. Len(s) = Len(f) /\ Len(x) = 4 + s[4]
        BY Zenon, <1>2, <3>2, <3>3
      <4> QED BY ONLY SMTT(30), <1>a, <4>1
    <3>5. ASSUME NEW i \in 1..Len(x) PROVE x[i] = c[i]
      <4>1. i \in 1..(4 + k)
        BY ZenonT(40), <1>1, <3>4
      <4>2. CASE i \in 1..4
        <5>1. i \in 1..Len(s) /\ i \in 1..Len(f) /\ i # 5
          BY ONLY SMTT(30), <1>a, <4>2
        <5> QED BY ZenonT(40), <1>1, <1>4, <2>2, <2>5, <3>3, <4>2, <5>1
      <4>3. CASE i \notin 1..4
        <5>1. /\ i - 4 \in 1..k /\ 4 + (i - 4) = i /\ 6 + (i - 4) = i + 2
              /\ i + 2 \in 1..(6 + k) /\ i + 2 # 5 /\ i \in 5..(4 + k)
          BY Zenon, <1>a, <4>1, <4>3, FrameCell
        <5>2. x[4 + (i - 4)] = s[6 + (i - 4)]
          BY ZenonT(40), <3>3, <3>4, <5>1
        <5>3. i + 2 \in 1..Len(s) /\ i + 2 \in 1..Len(f)
          BY ZenonT(40), <1>1, <1>2, <3>2, <5>1
        <5>4. s[i + 2] = f[i + 2]
          BY ZenonT(40), <1>4, <2>2, <2>5, <5>1, <5>3
        <5> QED BY Zenon, <1>1, <5>1, <5>2, <5>4
      <4> QED BY ZenonT(40), <4>2, <4>3
    <3>6. x = c
      BY ONLY SMTT(30), <1>1, <3>3, <3>4, <3>5, SeqEqual
    <3>7. s[5] = v
      <4>1. 5 \in 1..Len(s)
        BY ONLY SMTT(30), <1>a
      <4> QED BY ZenonT(40), <1>4, <2>2, <2>5, <4>1
    <3> QED BY ZenonT(40), <1>1, <2>5, <3>3, <3>6, <3>7
  <2>6. CASE e \notin {5, 6} /\ v # f[e]
    <3> DEFINE j == IF e <= 4 THEN e ELSE e - 2
               h == [c EXCEPT ![j] = v]
    <3>1. /\ j \in 1..(4 + k) /\ (e <= 4 \/ e > 4)
          /\ e <= 4 => j = e /\ e \in 1..4
          /\ e > 4 => j + 2 = e /\ j \in 5..(4 + k)
          /\ \A i \in 1..4 : i = e <=> i = j
          /\ \A i \in 7..(6 + k) : i = e <=> i - 2 = j
      <4>1. e \in 1..(6 + k) /\ e # 5 /\ e # 6
        BY ZenonT(40), <1>a, <2>2, <2>6
      <4>2. k \in Nat
        BY Zenon, <1>a
      <4> QED BY ONLY SMTT(30), <4>1, <4>2
    <3> HIDE DEF j
    <3>a. e \in 1..Len(f) /\ e # 5 /\ e # 6
      BY ZenonT(40), <2>2, <2>6
    <3>2. DOMAIN c = 1..(4 + k) /\ j \in DOMAIN c
      BY SMTT(30), <1>1, <3>1, LenProperties
    <3>3. c[j] = f[e]
      BY Zenon, <1>1, <3>1
    <3>4. v \in (0..(MaxFrame + 1)) \ {c[j]}
      BY Zenon, <2>6, <3>3
    <3>5. h[j] = v /\ \A i \in 1..(4 + k) : i # j => h[i] = c[i]
      BY SMTT(30), <3>2
    <3> HIDE DEF h
    <3>6. ASSUME NEW i \in 1..4 PROVE s[i] = h[i]
      <4>1. i \in 1..Len(s) /\ i \in 1..(4 + k) /\ i \in 1..Len(f)
        BY ONLY SMTT(30), <1>a
      <4> QED BY ZenonT(40), <1>1, <1>4, <2>2, <3>1, <3>5, <4>1
    <3>7. ASSUME NEW i \in 7..Len(s) PROVE s[i] = h[i - 2]
      <4>1. /\ i \in 1..Len(s) /\ i - 2 \in 5..(4 + k) /\ i - 2 \in 1..(4 + k)
            /\ i \in 1..Len(f) /\ i \in 7..(6 + k) /\ (i - 2) + 2 = i
        BY ONLY SMTT(30), <1>a
      <4>2. s[i] = g[i] /\ c[i - 2] = f[i]
        BY ZenonT(40), <1>1, <1>4, <4>1
      <4>3. CASE i = e
        BY ZenonT(40), <2>2, <3>1, <3>5, <4>1, <4>2, <4>3
      <4>4. CASE i # e
        BY ZenonT(40), <2>2, <3>1, <3>5, <4>1, <4>2, <4>4
      <4> QED BY ZenonT(40), <4>3, <4>4
    <3>8. s[5] = f[5]
      <4>1. 5 \in 1..Len(s) /\ 5 \in 1..Len(f) /\ 5 # e
        BY ONLY SMTT(30), <1>a, <3>a
      <4> QED BY ZenonT(40), <1>4, <2>2, <4>1
    <3>9. Len(s) <= Len(f)
      BY ZenonT(40), <1>2, <1>4
    <3> QED BY ZenonT(40), <3>2, <3>4, <3>6, <3>7, <3>8, <3>9, ChangeNoticed DEF h, c, f
  <2> QED BY ZenonT(40), <2>4, <2>5, <2>6
<1> QED
  BY ZenonT(40), <1>6, <1>7 DEF Variants, f

-----------------------------------------------------------------------------
(* One frame on its way: s has been read of it and u is still to be read *)

Carries(s, u, g) ==
  /\ Begins(s, g) /\ Len(s) + Len(u) <= Len(g)
  /\ \A i \in 1..Len(u) : u[i] = g[Len(s) + i]

\* Of message m, damaged if d is not 0; all of it when full.
Flow(s, u, m, d, full) ==
  /\ NotBeyond(s)
  /\ \E g \in Variants(m, d) :
       /\ Carries(s, u, g)
       /\ full => Len(s) + Len(u) = Len(g)

\* A frame that was just written.
LEMMA FlowStart ==
  ASSUME NEW m \in Sent, NEW d
  PROVE  Flow(<<>>, EncodeFrame(m), m, d, TRUE)
<1> DEFINE f == EncodeFrame(m)
<1>1. f \in Variants(m, d)
  BY Zenon DEF Variants
<1>2. Len(f) \in Nat
  BY ZenonT(40), <1>1, VariantTyped
<1> HIDE DEF f
<1>3. Len(<<>>) = 0
  OBVIOUS
<1>4. Begins(<<>>, f)
  BY SMTT(30), <1>2, <1>3 DEF Begins
<1>5. Len(<<>>) + Len(f) = Len(f) /\ Len(f) <= Len(f) /\ \A i \in 1..Len(f) : Len(<<>>) + i = i
  BY SMTT(30), <1>2, <1>3
<1>6. Carries(<<>>, f, f)
  BY ZenonT(40), <1>4, <1>5 DEF Carries
<1>7. NotBeyond(<<>>)
  BY SMTT(30), <1>3 DEF NotBeyond, HeaderLen
<1> QED
  BY ZenonT(40), <1>1, <1>5, <1>6, <1>7 DEF Flow, f

\* An answer that is not yet written.
LEMMA FlowNone ==
  ASSUME NEW m \in Sent, NEW d
  PROVE  Flow(<<>>, <<>>, m, d, FALSE)
<1> DEFINE f == EncodeFrame(m)
<1>1. f \in Variants(m, d)
  BY Zenon DEF Variants
<1>2. Len(f) \in Nat
  BY Zenon, <1>1, VariantTyped
<1> HIDE DEF f
<1>3. Len(<<>>) = 0
  OBVIOUS
<1>4. Carries(<<>>, <<>>, f)
  BY SMTT(30), <1>2, <1>3 DEF Begins, Carries
<1>5. NotBeyond(<<>>)
  BY SMTT(30), <1>3 DEF NotBeyond, HeaderLen
<1> QED
  BY ZenonT(40), <1>1, <1>4, <1>5 DEF Flow

\* A read takes a part of what is there, and never beyond the end of the frame.
LEMMA FlowRead ==
  ASSUME NEW s \in Seq(Nat), NEW u \in Seq(Nat), NEW m \in Sent, NEW d, NEW full \in BOOLEAN,
         Flow(s, u, m, d, full), Incomplete(s), NEW n \in 1..Missing(s), n <= Len(u)
  PROVE  /\ s \o SubSeq(u, 1, n) \in Seq(Nat) /\ SubSeq(u, n + 1, Len(u)) \in Seq(Nat)
         /\ Flow(s \o SubSeq(u, 1, n), SubSeq(u, n + 1, Len(u)), m, d, full)
<1> DEFINE a == SubSeq(u, 1, n)
           t == s \o a
           w == SubSeq(u, n + 1, Len(u))
<1>1. Len(s) \in Nat /\ Len(u) \in Nat
  BY Zenon, LenProperties
<1>2. PICK g \in Variants(m, d) : Carries(s, u, g) /\ (full => Len(s) + Len(u) = Len(g))
  BY Zenon DEF Flow
<1>3. NotBeyond(s)
  BY Zenon DEF Flow
<1>4. /\ Len(s) <= Len(g) /\ Len(s) + Len(u) <= Len(g)
      /\ \A i \in 1..Len(s) : s[i] = g[i]
      /\ \A i \in 1..Len(u) : u[i] = g[Len(s) + i]
  BY Zenon, <1>2 DEF Carries, Begins
<1>5. Len(g) \in Nat
  BY Zenon, VariantTyped
<1>6. n \in Nat /\ n >= 1
  BY SMTT(30)
<1>7. a \in Seq(Nat) /\ Len(a) = n /\ \A i \in 1..n : a[i] = u[i]
  <2>1. 0 \in Nat /\ 0 <= n /\ 0 + 1 = 1 /\ n - 0 = n /\ \A i \in 1..n : 0 + i = i
    BY ONLY SMTT(30), <1>6
  <2>2. /\ SubSeq(u, 0 + 1, n) \in Seq(Nat) /\ Len(SubSeq(u, 0 + 1, n)) = n - 0
        /\ \A i \in 1..(n - 0) : SubSeq(u, 0 + 1, n)[i] = u[0 + i]
    BY ZenonT(40), <1>6, <2>1, Part
  <2> QED BY ZenonT(40), <2>1, <2>2
<1>8. w \in Seq(Nat) /\ Len(w) = Len(u) - n /\ \A i \in 1..(Len(u) - n) : w[i] = u[n + i]
  <2>1. Len(u) <= Len(u)
    BY ONLY SMTT(30), <1>1
  <2> QED BY ZenonT(40), <1>1, <1>6, <2>1, Part
<1> HIDE DEF a, w
<1>9. /\ t \in Seq(Nat) /\ Len(t) = Len(s) + n
      /\ \A i \in 1..Len(s) : t[i] = s[i]
      /\ \A i \in 1..n : t[Len(s) + i] = a[i]
  BY ZenonT(40), <1>7, Joined
<1> HIDE DEF t
<1>10. Begins(t, g)
  <2>1. Len(t) <= Len(g)
    BY ONLY SMTT(30), <1>1, <1>4, <1>5, <1>6, <1>9, n <= Len(u)
  <2>2. ASSUME NEW i \in 1..Len(t) PROVE t[i] = g[i]
    <3>1. CASE i \in 1..Len(s)
      BY ZenonT(40), <1>4, <1>9, <3>1
    <3>2. CASE i \notin 1..Len(s)
      <4>1. Len(t) = Len(s) + n
        BY Zenon, <1>9
      <4>2. i - Len(s) \in 1..n /\ i - Len(s) \in 1..Len(u) /\ Len(s) + (i - Len(s)) = i
        BY ONLY SMTT(30), <1>1, <1>6, <3>2, <4>1, i \in 1..Len(t), n <= Len(u)
      <4>3. t[Len(s) + (i - Len(s))] = u[i - Len(s)]
        BY ZenonT(40), <1>7, <1>9, <4>2
      <4>4. u[i - Len(s)] = g[Len(s) + (i - Len(s))]
        BY ZenonT(40), <1>4, <4>2
      <4> QED BY ZenonT(40), <4>2, <4>3, <4>4
    <3> QED BY ZenonT(40), <3>1, <3>2
  <2> QED BY ZenonT(40), <2>1, <2>2 DEF Begins
<1>11. Len(t) + Len(w) = Len(s) + Len(u)
  <2>1. Len(t) = Len(s) + n /\ Len(w) = Len(u) - n
    BY ZenonT(40), <1>8, <1>9
  <2> QED BY ONLY SMTT(30), <1>1, <1>6, <2>1
<1>12. ASSUME NEW i \in 1..Len(w) PROVE w[i] = g[Len(t) + i]
  <2>1. Len(t) = Len(s) + n /\ Len(w) = Len(u) - n
    BY ZenonT(40), <1>8, <1>9
  <2>2. i \in 1..(Len(u) - n) /\ n + i \in 1..Len(u) /\ Len(s) + (n + i) = Len(t) + i
    BY ONLY SMTT(30), <1>1, <1>6, <2>1, i \in 1..Len(w)
  <2>3. u[n + i] = g[Len(s) + (n + i)] /\ w[i] = u[n + i]
    BY ZenonT(40), <1>4, <1>8, <2>2
  <2> QED BY ZenonT(40), <2>2, <2>3
<1>13. NotBeyond(t)
  <2>1. CASE Len(s) < 6
    <3>1. Missing(s) = 6 - Len(s)
      BY Zenon, <2>1 DEF Missing, HeaderLen
    <3>2. Len(t) = Len(s) + n
      BY Zenon, <1>9
    <3>3. ~(Len(t) > 6)
      BY ONLY SMTT(30), <1>1, <3>1, <3>2, n \in 1..Missing(s)
    <3> QED BY Zenon, <3>3 DEF NotBeyond, HeaderLen
  <2>2. CASE ~(Len(s) < 6)
    <3>1. HeaderGood(s) /\ Missing(s) = 6 + s[4] - Len(s)
      BY Zenon, <2>2 DEF Missing, HeaderLen, Incomplete
    <3>2. 1 \in 1..Len(s) /\ 2 \in 1..Len(s) /\ 3 \in 1..Len(s) /\ 4 \in 1..Len(s)
      BY ONLY SMTT(30), <1>1, <2>2
    <3>3. t[1] = s[1] /\ t[2] = s[2] /\ t[3] = s[3] /\ t[4] = s[4] /\ s[4] \in Nat
      BY ZenonT(40), <1>9, <3>2, ElementOfSeq
    <3>4. HeaderGood(t)
      BY ZenonT(40), <3>1, <3>3 DEF HeaderGood
    <3>5. Len(t) = Len(s) + n /\ s[4] \in Nat /\ Missing(s) = 6 + s[4] - Len(s)
      BY ZenonT(40), <1>9, <3>1, <3>3
    <3>6. Len(t) <= 6 + s[4]
      BY ONLY SMTT(30), <1>1, <3>5, n \in 1..Missing(s)
    <3> QED BY ZenonT(40), <3>3, <3>4, <3>6 DEF NotBeyond, HeaderLen
  <2> QED BY ZenonT(40), <2>1, <2>2
<1>14. Carries(t, w, g)
  BY ZenonT(40), <1>4, <1>10, <1>11, <1>12 DEF Carries
<1>15. full => Len(t) + Len(w) = Len(g)
  BY Zenon, <1>2, <1>11
<1>16. Flow(t, w, m, d, full)
  BY ZenonT(40), <1>13, <1>14, <1>15 DEF Flow
<1> QED
  BY ZenonT(40), <1>8, <1>9, <1>16 DEF t, w, a

\* The writer dies: the rest of the frame never comes.
LEMMA FlowCut ==
  ASSUME NEW s \in Seq(Nat), NEW u \in Seq(Nat), NEW m \in Sent, NEW d, NEW full \in BOOLEAN,
         Flow(s, u, m, d, full), NEW n \in 0..Len(u)
  PROVE  SubSeq(u, 1, n) \in Seq(Nat) /\ Flow(s, SubSeq(u, 1, n), m, d, FALSE)
<1> DEFINE a == SubSeq(u, 1, n)
<1>1. Len(s) \in Nat /\ Len(u) \in Nat
  BY Zenon, LenProperties
<1>2. PICK g \in Variants(m, d) : Carries(s, u, g)
  BY Zenon DEF Flow
<1>3. Begins(s, g) /\ Len(s) + Len(u) <= Len(g) /\ \A i \in 1..Len(u) : u[i] = g[Len(s) + i]
  BY Zenon, <1>2 DEF Carries
<1>4. Len(g) \in Nat
  BY Zenon, VariantTyped
<1>5. n \in Nat /\ n <= Len(u)
  BY SMTT(30), <1>1
<1>6. a \in Seq(Nat) /\ Len(a) = n /\ \A i \in 1..n : a[i] = u[i]
  <2>1. 0 \in Nat /\ 0 <= n /\ 0 + 1 = 1 /\ n - 0 = n /\ \A i \in 1..n : 0 + i = i
    BY ONLY SMTT(30), <1>5
  <2>2. /\ SubSeq(u, 0 + 1, n) \in Seq(Nat) /\ Len(SubSeq(u, 0 + 1, n)) = n - 0
        /\ \A i \in 1..(n - 0) : SubSeq(u, 0 + 1, n)[i] = u[0 + i]
    BY ZenonT(40), <1>5, <2>1, Part
  <2> QED BY ZenonT(40), <2>1, <2>2
<1> HIDE DEF a
<1>7. Len(s) + Len(a) <= Len(g) /\ \A i \in 1..n : i \in 1..Len(u)
  <2>1. Len(s) + Len(u) <= Len(g) /\ Len(a) = n
    BY ZenonT(40), <1>3, <1>6
  <2> QED BY ONLY SMTT(30), <1>1, <1>4, <1>5, <2>1
<1>8. \A i \in 1..Len(a) : a[i] = g[Len(s) + i]
  BY ZenonT(40), <1>3, <1>6, <1>7
<1>9. Carries(s, a, g)
  BY ZenonT(40), <1>3, <1>7, <1>8 DEF Carries
<1>10. Flow(s, a, m, d, FALSE)
  BY Zenon, <1>9 DEF Flow
<1> QED
  BY Zenon, <1>6, <1>10 DEF a

\* A cell of it is changed.
LEMMA FlowDamage ==
  ASSUME NEW s \in Seq(Nat), NEW u \in Seq(Nat), NEW m \in Sent, NEW full \in BOOLEAN,
         Flow(s, u, m, 0, full), NEW i \in DOMAIN u, NEW v \in 0..(MaxFrame + 1),
         NEW d \in Nat \ {0}
  PROVE  /\ [u EXCEPT ![i] = v] \in Seq(Nat)
         /\ Flow(s, [u EXCEPT ![i] = v], m, d, full)
<1> DEFINE f == EncodeFrame(m)
           w == [u EXCEPT ![i] = v]
           e == Len(s) + i
           g == [f EXCEPT ![e] = v]
<1>1. Len(s) \in Nat /\ Len(u) \in Nat /\ i \in 1..Len(u)
  BY Zenon, LenProperties
<1>2. Carries(s, u, f) /\ (full => Len(s) + Len(u) = Len(f)) /\ NotBeyond(s)
  BY Zenon DEF Flow, Variants
<1>3. /\ Len(s) <= Len(f) /\ Len(s) + Len(u) <= Len(f)
      /\ \A j \in 1..Len(s) : s[j] = f[j]
      /\ \A j \in 1..Len(u) : u[j] = f[Len(s) + j]
  BY Zenon, <1>2 DEF Carries, Begins
<1>4. f \in Seq(Nat) /\ Len(f) \in Nat /\ DOMAIN f = 1..Len(f)
  <2>1. f \in Variants(m, d)
    BY Zenon DEF Variants
  <2> QED BY ZenonT(40), <2>1, VariantTyped, LenProperties
<1>5. v \in Nat
  BY SMTT(30)
<1>6. g \in Variants(m, d)
  <2>1. e \in 1..Len(f)
    BY SMTT(30), <1>1, <1>3, <1>4
  <2>2. g \in Altered(m)
    <3>1. Altered(m) = {[f EXCEPT ![j] = x] : j \in DOMAIN f, x \in 0..(MaxFrame + 1)}
      BY SMTT(30) DEF Altered
    <3>2. e \in DOMAIN f /\ v \in 0..(MaxFrame + 1)
      BY ZenonT(40), <1>4, <2>1
    <3> HIDE DEF e, f
    <3> QED BY SMTT(30), <3>1, <3>2
  <2>3. d # 0
    BY SMTT(30)
  <2> QED BY ZenonT(40), <2>2, <2>3 DEF Variants
<1>7. e \in 1..Len(f)
  BY SMTT(30), <1>1, <1>3, <1>4
<1> HIDE DEF f
<1>8. Len(g) = Len(f) /\ \A j \in 1..Len(f) : g[j] = IF j = e THEN v ELSE f[j]
  BY ZenonT(40), <1>4, <1>5, <1>7, ExceptSeq
<1>9. w \in Seq(Nat) /\ Len(w) = Len(u) /\ \A j \in 1..Len(u) : w[j] = IF j = i THEN v ELSE u[j]
  BY ONLY SMTT(30), u \in Seq(Nat), <1>1, <1>5, ExceptSeq
<1> HIDE DEF g, w
<1>10. ASSUME NEW j \in 1..Len(s) PROVE s[j] = g[j]
  <2>1. Len(s) <= Len(f) /\ e = Len(s) + i
    BY Zenon, <1>3
  <2>2. j \in 1..Len(f) /\ j # e
    BY ONLY SMTT(30), <1>1, <1>4, <2>1, j \in 1..Len(s)
  <2> QED BY ZenonT(40), <1>3, <1>8, <2>2
<1>11. ASSUME NEW j \in 1..Len(w) PROVE w[j] = g[Len(s) + j]
  <2>1. Len(s) + Len(u) <= Len(f) /\ j \in 1..Len(u)
    BY ZenonT(40), <1>3, <1>9
  <2>2. Len(s) + j \in 1..Len(f)
    BY ONLY SMTT(30), <1>1, <1>4, <2>1
  <2>3. Len(s) + j = Len(s) + i => j = i
    <3>1. Len(s) \in Int /\ i \in Int /\ j \in Int
      BY ONLY SMTT(30), <1>1, <2>1
    <3> QED BY ONLY SMTT(30), <3>1
  <2> QED BY ZenonT(40), <1>3, <1>8, <1>9, <2>1, <2>2, <2>3
<1>12. Carries(s, w, g) /\ (full => Len(s) + Len(w) = Len(g))
  BY ZenonT(40), <1>2, <1>3, <1>8, <1>9, <1>10, <1>11 DEF Carries, Begins
<1>13. Flow(s, w, m, d, full)
  BY ZenonT(40), <1>2, <1>6, <1>12 DEF Flow
<1> QED
  BY ZenonT(40), <1>9, <1>13 DEF w

\* What is on the way is no longer than the frame.
LEMMA FlowLength ==
  ASSUME NEW s \in Seq(Nat), NEW u \in Seq(Nat), NEW m \in Sent, NEW d, NEW full \in BOOLEAN,
         Flow(s, u, m, d, full)
  PROVE  Len(EncodeFrame(m)) \in Nat /\ Len(u) <= Len(EncodeFrame(m))
<1>1. Len(s) \in Nat /\ Len(u) \in Nat
  BY Zenon, LenProperties
<1>2. PICK g \in Variants(m, d) : Carries(s, u, g)
  BY Zenon DEF Flow
<1>3. Len(s) + Len(u) <= Len(g) /\ Len(g) = Len(EncodeFrame(m)) /\ Len(g) \in Nat
  BY ZenonT(40), <1>2, VariantTyped DEF Carries
<1> QED
  BY ONLY SMTT(30), <1>1, <1>3

\* What holds of an undamaged frame holds when another is damaged.
LEMMA FlowWeaken ==
  ASSUME NEW s, NEW u, NEW m, NEW d, NEW full \in BOOLEAN, Flow(s, u, m, 0, full)
  PROVE  Flow(s, u, m, d, full)
  BY Zenon DEF Flow, Variants

\* A frame that passes the checks was read to its end and is the message.
LEMMA FlowWhole ==
  ASSUME NEW s \in Seq(Nat), NEW u \in Seq(Nat), NEW m \in Sent, NEW d, NEW full \in BOOLEAN,
         Flow(s, u, m, d, full), ~Incomplete(s), Intact(s)
  PROVE  u = <<>> /\ Message(s) = m
<1>1. Len(s) \in Nat /\ Len(u) \in Nat
  BY Zenon, LenProperties
<1>2. PICK g \in Variants(m, d) : Carries(s, u, g)
  BY Zenon DEF Flow
<1>3. NotBeyond(s) /\ Begins(s, g) /\ Len(s) + Len(u) <= Len(g)
  BY ZenonT(40), <1>2 DEF Flow, Carries
<1>4. Len(s) = Len(g) /\ Message(s) = m
  BY ZenonT(40), <1>3, FrameNoticed
<1>5. Len(u) = 0
  BY ONLY SMTT(30), <1>1, <1>3, <1>4
<1>6. u = <<>>
  BY SMTT(30), <1>5, EmptySeq
<1> QED
  BY ZenonT(40), <1>4, <1>6

\* A whole frame is not empty.
LEMMA FlowSome ==
  ASSUME NEW m \in Sent, NEW d, Flow(<<>>, <<>>, m, d, TRUE)
  PROVE  FALSE
<1>1. PICK g \in Variants(m, d) : Len(<<>>) + Len(<<>>) = Len(g)
  BY Zenon DEF Flow
<1>2. Len(g) \in Nat /\ Len(g) >= 6
  BY ZenonT(40), VariantTyped
<1> QED
  BY SMTT(30), <1>1, <1>2

-----------------------------------------------------------------------------
(* The inductive invariant *)

\* A frame of which a part or the whole is still there.
Arriving(s, u, m, d) == Flow(s, u, m, d, FALSE)

Entire(s, u, m, d) == Flow(s, u, m, d, TRUE)

ExchangeTyped ==
  /\ client \in {"idle", "waiting", "done", "dead"}
  /\ server \in {"reading", "answering", "closed", "dead"}
  /\ next \in 0..Len(Script) /\ damaged \in Nat /\ clean \in BOOLEAN
  /\ up \in Seq(Nat) /\ sin \in Seq(Nat) /\ down \in Seq(Nat) /\ cin \in Seq(Nat)
  /\ handled \in Seq(Sent) /\ answers \in Seq(Sent)
  /\ server = "answering" => answer \in Sent

\* Between two requests nothing is on its way.
AtRest ==
  client = "idle" =>
    /\ next < Len(Script) /\ Len(answers) = next /\ Len(handled) = next
    /\ down = <<>> /\ cin = <<>> /\ server # "answering"

\* The last request was handled, or is on its way to the server, entire unless the
\* client died.
RequestUnderWay ==
  \/ Len(handled) = next /\ up = <<>> /\ sin = <<>>
  \/ /\ next >= 1 /\ Len(handled) = next - 1 /\ server # "answering"
     /\ Arriving(sin, up, Script[next], damaged)
     /\ client # "dead" => Entire(sin, up, Script[next], damaged)

\* A client that waits: its request is not handled, or the answer is still to be
\* written or on its way.
AnswerUnderWay ==
  client = "waiting" =>
    /\ next >= 1 /\ Len(answers) = next - 1
    /\ \/ Len(handled) = next - 1 /\ cin = <<>> /\ down = <<>>
       \/ /\ Len(handled) = next /\ answer = Handle[Script[next]]
          /\ server = "answering" => cin = <<>> /\ down = <<>>
          /\ Arriving(cin, down, answer, damaged)

EndSeen == clean => server = "closed" /\ Ended /\ (client # "dead" => Len(handled) = next)

ExchangeInv ==
  ExchangeTyped /\ ExchangeFaithful /\ AtRest /\ RequestUnderWay /\ AnswerUnderWay /\ EndSeen

\* A request of the script is one the server knows, and it and its answer are sent.
LEMMA ScriptSent ==
  ASSUME NEW i \in 1..Len(Script)
  PROVE  /\ Script[i] \in Sent /\ Script[i] \in DOMAIN Handle
         /\ Handle[Script[i]] \in Sent /\ Script[i] # None
<1>1. DOMAIN Script = 1..Len(Script)
  BY SMTT(30), ExchangeAssumption, LenProperties
<1>2. Script[i] \in Sent /\ Handle[Script[i]] \in Sent
  BY SMTT(30), <1>1 DEF Sent
<1>3. Script[i] \in DOMAIN Handle
  BY SMTT(30), <1>1, ExchangeAssumption
<1>4. Script[i] # None
  BY ZenonT(40), <1>2, CodecAssumption
<1> QED
  BY ZenonT(40), <1>2, <1>3, <1>4

\* There is at least one request.
LEMMA ScriptLength == Len(Script) \in Nat /\ Len(Script) >= 1
<1>1. Script \in Seq(Sent) /\ Script # <<>>
  BY ZenonT(40), ExchangeAssumption
<1> QED
  BY SMTT(30), <1>1, EmptySeq

\* The invariant holds before anything is written.
LEMMA InitExchange == Init => ExchangeInv
<1> SUFFICES ASSUME Init PROVE ExchangeInv
  OBVIOUS
<1>1. ExchangeTyped
  <2>1. 0 \in 0..Len(Script) /\ 0 \in Nat /\ <<>> \in Seq(Nat) /\ <<>> \in Seq(Sent)
    BY SMTT(30), ScriptLength
  <2> QED BY Zenon, <2>1 DEF Init, ExchangeTyped
<1>2. ExchangeFaithful /\ AtRest
  BY SMTT(30), ScriptLength DEF Init, ExchangeFaithful, AtRest
<1>3. RequestUnderWay /\ AnswerUnderWay /\ EndSeen
  BY SMTT(30) DEF Init, RequestUnderWay, AnswerUnderWay, EndSeen
<1> QED
  BY ZenonT(40), <1>1, <1>2, <1>3 DEF ExchangeInv

\* A request is written only after the answer to the one before was read, so
\* nothing else is on its way.
LEMMA ClientWriteKeeps == ASSUME ExchangeInv, ClientWrite PROVE ExchangeInv'
<1> DEFINE m == Script[next + 1]
<1>1. /\ client = "idle" /\ next' = next + 1 /\ up' = up \o EncodeFrame(m)
      /\ client' \in {"done", "waiting"}
      /\ UNCHANGED <<server, down, sin, cin, answer, handled, answers, clean, damaged>>
  BY Zenon DEF ClientWrite
<1>2. /\ next \in Nat /\ next < Len(Script) /\ Len(answers) = next /\ Len(handled) = next
      /\ down = <<>> /\ cin = <<>> /\ server # "answering"
  BY SMTT(30), <1>1 DEF ExchangeInv, ExchangeTyped, AtRest
<1>3. next' \in 1..Len(Script) /\ next' - 1 = next /\ next # next - 1
  BY SMTT(30), <1>1, <1>2, ScriptLength
<1>4. up = <<>> /\ sin = <<>>
  BY ZenonT(40), <1>2, <1>3 DEF ExchangeInv, RequestUnderWay
<1>5. m \in Sent /\ m = Script[next']
  BY ZenonT(40), <1>1, <1>3, ScriptSent
<1>6. EncodeFrame(m) \in Seq(Nat)
  BY ZenonT(40), <1>5, FrameLayout
<1>7. up' = EncodeFrame(m)
  BY ZenonT(40), <1>1, <1>4, <1>6, ConcatEmptySeq
<1>8. Entire(sin', up', Script[next'], damaged')
  BY ZenonT(40), <1>1, <1>4, <1>5, <1>7, FlowStart DEF Entire
<1>9. Arriving(sin', up', Script[next'], damaged')
  BY ZenonT(40), <1>8 DEF Entire, Arriving, Flow
<1> HIDE DEF m
<1>10. ExchangeTyped'
  BY SMTT(30), <1>1, <1>3, <1>6, <1>7, ScriptLength DEF ExchangeInv, ExchangeTyped
<1>11. ExchangeFaithful'
  BY SMTT(30), <1>1, <1>2 DEF ExchangeInv, ExchangeFaithful
<1>12. AtRest'
  BY Zenon, <1>1 DEF AtRest
<1>13. RequestUnderWay'
  <2>1. next' >= 1 /\ Len(handled') = next' - 1
    BY SMTT(30), <1>1, <1>2
  <2> QED BY ZenonT(40), <1>1, <1>2, <1>8, <1>9, <2>1 DEF RequestUnderWay
<1>14. AnswerUnderWay'
  <2>1. next' >= 1 /\ Len(handled') = next' - 1 /\ Len(answers') = next' - 1
    BY SMTT(30), <1>1, <1>2
  <2> QED BY ZenonT(40), <1>1, <1>2, <2>1 DEF AnswerUnderWay
<1>15. EndSeen'
  BY Zenon, <1>1 DEF ExchangeInv, EndSeen, Ended
<1> QED
  BY ZenonT(40), <1>10, <1>11, <1>12, <1>13, <1>14, <1>15 DEF ExchangeInv

\* read_frame on the client: cells move from the stream into what was read.
LEMMA ClientReadKeeps == ASSUME ExchangeInv, ClientRead PROVE ExchangeInv'
<1>1. /\ client = "waiting" /\ Incomplete(cin)
      /\ UNCHANGED <<client, server, next, up, sin, answer, handled, answers, clean, damaged>>
  BY Zenon DEF ClientRead
<1>2. PICK n \in 1..Missing(cin) :
        /\ n <= Len(down) /\ cin' = cin \o SubSeq(down, 1, n)
        /\ down' = SubSeq(down, n + 1, Len(down))
  BY Zenon DEF ClientRead
<1>3. cin \in Seq(Nat) /\ down \in Seq(Nat) /\ next \in 0..Len(Script) /\ next >= 1
  BY ZenonT(40), <1>1 DEF ExchangeInv, ExchangeTyped, AnswerUnderWay
<1>4. down # <<>>
  BY SMTT(30), <1>2
<1>5. /\ Len(answers) = next - 1 /\ Len(handled) = next /\ answer = Handle[Script[next]]
      /\ server # "answering" /\ Arriving(cin, down, answer, damaged)
  BY ZenonT(40), <1>1, <1>4 DEF ExchangeInv, AnswerUnderWay
<1>6. answer \in Sent
  <2>1. next \in 1..Len(Script)
    BY SMTT(30), <1>3, ScriptLength
  <2> QED BY ZenonT(40), <1>5, <2>1, ScriptSent
<1>7. cin' \in Seq(Nat) /\ down' \in Seq(Nat) /\ Arriving(cin', down', answer, damaged)
  BY ZenonT(40), <1>1, <1>2, <1>3, <1>5, <1>6, FlowRead DEF Arriving
<1>8. ExchangeTyped'
  BY ZenonT(40), <1>1, <1>7 DEF ExchangeInv, ExchangeTyped
<1>9. ExchangeFaithful' /\ RequestUnderWay' /\ EndSeen'
  BY ZenonT(40), <1>1 DEF ExchangeInv, ExchangeFaithful, RequestUnderWay, EndSeen, Ended
<1>10. AtRest' /\ AnswerUnderWay'
  BY ZenonT(40), <1>1, <1>3, <1>5, <1>7 DEF AtRest, AnswerUnderWay
<1> QED
  BY ZenonT(40), <1>8, <1>9, <1>10 DEF ExchangeInv

\* A frame that passes the checks is the answer; any other end of the call leaves
\* the histories as they are.
LEMMA ClientFinishKeeps == ASSUME ExchangeInv, ClientFinish PROVE ExchangeInv'
<1>1. /\ client = "waiting"
      /\ UNCHANGED <<server, next, up, down, sin, answer, handled, clean, damaged>>
  BY Zenon DEF ClientFinish
<1>2. cin \in Seq(Nat) /\ down \in Seq(Nat) /\ next \in 0..Len(Script) /\ next >= 1
  BY Zenon, <1>1 DEF ExchangeInv, ExchangeTyped, AnswerUnderWay
<1>3. next \in 1..Len(Script)
  BY SMTT(30), <1>2, ScriptLength
<1>4. ~clean
  BY ZenonT(40), <1>1 DEF ExchangeInv, EndSeen, Ended
<1>5. CASE client' = "done" /\ UNCHANGED <<answers, cin>>
  <2>1. ExchangeTyped'
    BY ZenonT(40), <1>1, <1>5 DEF ExchangeInv, ExchangeTyped
  <2>2. ExchangeFaithful' /\ RequestUnderWay'
    BY ZenonT(40), <1>1, <1>5 DEF ExchangeInv, ExchangeFaithful, RequestUnderWay
  <2>3. AtRest' /\ AnswerUnderWay' /\ EndSeen'
    BY ZenonT(40), <1>1, <1>4, <1>5 DEF AtRest, AnswerUnderWay, EndSeen
  <2> QED BY ZenonT(40), <2>1, <2>2, <2>3 DEF ExchangeInv
<1>6. CASE /\ ~Incomplete(cin) /\ Intact(cin) /\ Message(cin) # None
           /\ answers' = Append(answers, Message(cin))
           /\ cin' = <<>>
           /\ client' = IF next = Len(Script) THEN "done" ELSE "idle"
  <2>1. cin # <<>>
    BY SMTT(30), <1>6 DEF Incomplete, HeaderLen
  <2>2. /\ Len(answers) = next - 1 /\ Len(handled) = next /\ answer = Handle[Script[next]]
        /\ server # "answering" /\ Arriving(cin, down, answer, damaged)
    BY ZenonT(40), <1>1, <2>1 DEF ExchangeInv, AnswerUnderWay
  <2>3. answer \in Sent
    BY ZenonT(40), <1>3, <2>2, ScriptSent
  <2>4. down = <<>> /\ Message(cin) = answer
    BY ZenonT(40), <1>2, <1>6, <2>2, <2>3, FlowWhole DEF Arriving
  <2>5. answers' = Append(answers, answer) /\ answers \in Seq(Sent)
    BY ZenonT(40), <1>6, <2>4 DEF ExchangeInv, ExchangeTyped
  <2>6. /\ answers' \in Seq(Sent) /\ Len(answers') = next
        /\ DOMAIN answers' = 1..next /\ DOMAIN answers = 1..(next - 1)
        /\ answers'[next] = answer /\ \A i \in 1..(next - 1) : answers'[i] = answers[i]
    BY SMTT(30), <1>3, <2>2, <2>3, <2>5, ScriptLength
  <2>7. client' \in {"done", "idle"} /\ (client' = "idle" => next < Len(Script))
    BY SMTT(30), <1>3, <1>6, ScriptLength
  <2>8. ExchangeTyped'
    <3>1. cin' \in Seq(Nat)
      BY SMTT(30), <1>6
    <3> QED BY ZenonT(40), <1>1, <2>6, <2>7, <3>1 DEF ExchangeInv, ExchangeTyped
  <2>9. ExchangeFaithful'
    <3>1. \A i \in DOMAIN answers : answers[i] = Handle[Script[i]]
      BY Zenon DEF ExchangeInv, ExchangeFaithful
    <3>2. \A i \in 1..next : i = next \/ i \in 1..(next - 1)
      BY SMTT(30), <1>3, ScriptLength
    <3>3. \A i \in DOMAIN answers' : answers'[i] = Handle[Script[i]]
      BY ZenonT(40), <2>2, <2>6, <3>1, <3>2
    <3> QED BY ZenonT(40), <1>1, <3>3 DEF ExchangeInv, ExchangeFaithful
  <2>10. RequestUnderWay'
    BY ZenonT(40), <1>1, <2>7 DEF ExchangeInv, RequestUnderWay
  <2>11. AtRest'
    BY ZenonT(40), <1>1, <1>6, <2>2, <2>4, <2>6, <2>7 DEF AtRest
  <2>12. AnswerUnderWay' /\ EndSeen'
    BY ZenonT(40), <1>1, <1>4, <2>7 DEF AnswerUnderWay, EndSeen
  <2> QED BY ZenonT(40), <2>8, <2>9, <2>10, <2>11, <2>12 DEF ExchangeInv
<1> QED
  BY ZenonT(40), <1>5, <1>6 DEF ClientFinish

\* read_frame on the server.
LEMMA ServerReadKeeps == ASSUME ExchangeInv, ServerRead PROVE ExchangeInv'
<1>1. /\ server = "reading" /\ Incomplete(sin)
      /\ UNCHANGED <<client, server, next, down, cin, answer, handled, answers, clean, damaged>>
  BY Zenon DEF ServerRead
<1>2. PICK n \in 1..Missing(sin) :
        /\ n <= Len(up) /\ sin' = sin \o SubSeq(up, 1, n)
        /\ up' = SubSeq(up, n + 1, Len(up))
  BY Zenon DEF ServerRead
<1>3. sin \in Seq(Nat) /\ up \in Seq(Nat) /\ next \in 0..Len(Script)
  BY ZenonT(40) DEF ExchangeInv, ExchangeTyped
<1>4. up # <<>>
  BY SMTT(30), <1>2
<1>5. /\ next >= 1 /\ Len(handled) = next - 1
      /\ Arriving(sin, up, Script[next], damaged)
      /\ client # "dead" => Entire(sin, up, Script[next], damaged)
  BY ZenonT(40), <1>4 DEF ExchangeInv, RequestUnderWay
<1>6. Script[next] \in Sent
  <2>1. next \in 1..Len(Script)
    BY SMTT(30), <1>3, <1>5, ScriptLength
  <2> QED BY ZenonT(40), <2>1, ScriptSent
<1>7. sin' \in Seq(Nat) /\ up' \in Seq(Nat) /\ Arriving(sin', up', Script[next], damaged)
  BY ZenonT(40), <1>1, <1>2, <1>3, <1>5, <1>6, FlowRead DEF Arriving
<1>8. client # "dead" => Entire(sin', up', Script[next], damaged)
  BY ZenonT(40), <1>1, <1>2, <1>3, <1>5, <1>6, FlowRead DEF Entire
<1>9. ExchangeTyped'
  BY ZenonT(40), <1>1, <1>7 DEF ExchangeInv, ExchangeTyped
<1>10. ExchangeFaithful' /\ AtRest' /\ AnswerUnderWay' /\ EndSeen'
  BY Zenon, <1>1 DEF ExchangeInv, ExchangeFaithful, AtRest, AnswerUnderWay, EndSeen, Ended
<1>11. RequestUnderWay'
  BY ZenonT(40), <1>1, <1>5, <1>7, <1>8 DEF RequestUnderWay
<1> QED
  BY ZenonT(40), <1>9, <1>10, <1>11 DEF ExchangeInv

\* The end of the stream is clean only when no part of a request is there.
LEMMA ServerEndKeeps == ASSUME ExchangeInv, ServerEnd PROVE ExchangeInv'
<1>1. /\ server = "reading" /\ up = <<>> /\ Ended /\ server' = "closed" /\ clean' = (sin = <<>>)
      /\ UNCHANGED <<client, next, up, down, sin, cin, answer, handled, answers, damaged>>
  BY Zenon DEF ServerEnd
<1>2. ASSUME sin = <<>>, client # "dead" PROVE Len(handled) = next
  <2>1. SUFFICES ASSUME Len(handled) # next PROVE FALSE
    OBVIOUS
  <2>2. next >= 1 /\ Entire(<<>>, <<>>, Script[next], damaged) /\ next \in 0..Len(Script)
    BY ZenonT(40), <1>1, <1>2, <2>1 DEF ExchangeInv, ExchangeTyped, RequestUnderWay
  <2>3. next \in 1..Len(Script)
    BY SMTT(30), <2>2, ScriptLength
  <2> QED BY ZenonT(40), <2>2, <2>3, ScriptSent, FlowSome DEF Entire
<1>3. ExchangeTyped'
  <2>1. clean' \in BOOLEAN
    BY ZenonT(40), <1>1
  <2> QED BY ZenonT(40), <1>1, <2>1 DEF ExchangeInv, ExchangeTyped
<1>4. ExchangeFaithful' /\ AtRest' /\ RequestUnderWay'
  BY Zenon, <1>1 DEF ExchangeInv, ExchangeFaithful, AtRest, RequestUnderWay
<1>5. AnswerUnderWay'
  BY Zenon, <1>1 DEF AnswerUnderWay, Ended
<1>6. EndSeen'
  BY ZenonT(40), <1>1, <1>2 DEF EndSeen, Ended
<1> QED
  BY ZenonT(40), <1>3, <1>4, <1>5, <1>6 DEF ExchangeInv

\* A frame that is not intact ends the loop and nothing is handled.
LEMMA ServerRejectKeeps == ASSUME ExchangeInv, ServerReject PROVE ExchangeInv'
<1>1. /\ server = "reading" /\ server' = "closed"
      /\ UNCHANGED <<client, next, up, down, sin, cin, answer, handled, answers, clean, damaged>>
  BY Zenon DEF ServerReject
<1>2. ~clean
  BY ZenonT(40), <1>1 DEF ExchangeInv, EndSeen
<1>3. ExchangeTyped'
  BY ZenonT(40), <1>1 DEF ExchangeInv, ExchangeTyped
<1>4. ExchangeFaithful' /\ AtRest' /\ RequestUnderWay'
  BY ZenonT(40), <1>1 DEF ExchangeInv, ExchangeFaithful, AtRest, RequestUnderWay
<1>5. AnswerUnderWay' /\ EndSeen'
  BY ZenonT(40), <1>1, <1>2 DEF ExchangeInv, AnswerUnderWay, EndSeen
<1> QED
  BY ZenonT(40), <1>3, <1>4, <1>5 DEF ExchangeInv

\* A frame that passes the checks is the last request, and is handled once.
LEMMA ServerHandleKeeps == ASSUME ExchangeInv, ServerHandle PROVE ExchangeInv'
<1>1. /\ server = "reading" /\ ~Incomplete(sin) /\ Intact(sin)
      /\ handled' = IF Message(sin) = None THEN handled ELSE Append(handled, Message(sin))
      /\ answer' = Response(Message(sin))
      /\ server' = IF Message(sin) = None THEN "refusing" ELSE "answering"
      /\ sin' = <<>>
      /\ UNCHANGED <<client, next, up, down, cin, answers, clean, damaged>>
  BY Zenon DEF ServerHandle
<1>2. sin # <<>>
  BY SMTT(30), <1>1 DEF Incomplete, HeaderLen
<1>3. /\ next >= 1 /\ Len(handled) = next - 1 /\ Arriving(sin, up, Script[next], damaged)
      /\ sin \in Seq(Nat) /\ up \in Seq(Nat) /\ next \in 0..Len(Script)
      /\ handled \in Seq(Sent)
  BY ZenonT(40), <1>2 DEF ExchangeInv, ExchangeTyped, RequestUnderWay
<1>4. next \in 1..Len(Script) /\ next # next - 1
  BY SMTT(30), <1>3, ScriptLength
<1>5. /\ Script[next] \in Sent /\ Script[next] \in DOMAIN Handle
      /\ Handle[Script[next]] \in Sent /\ Script[next] # None
  BY ZenonT(40), <1>4, ScriptSent
<1>6. up = <<>> /\ Message(sin) = Script[next]
  BY ZenonT(40), <1>1, <1>3, <1>5, FlowWhole DEF Arriving
<1>7. /\ handled' = Append(handled, Script[next]) /\ answer' = Handle[Script[next]]
      /\ server' = "answering"
  BY ZenonT(40), <1>1, <1>5, <1>6 DEF Response
<1>8. /\ handled' \in Seq(Sent) /\ Len(handled') = next
      /\ DOMAIN handled' = 1..next /\ DOMAIN handled = 1..(next - 1)
      /\ handled'[next] = Script[next] /\ \A i \in 1..(next - 1) : handled'[i] = handled[i]
  BY SMTT(30), <1>3, <1>4, <1>5, <1>7, ScriptLength
<1>9. ~clean
  BY Zenon, <1>1 DEF ExchangeInv, EndSeen
<1>10. client # "idle"
  BY Zenon, <1>3, <1>4 DEF ExchangeInv, AtRest
<1>11. ExchangeTyped'
  <2>1. sin' \in Seq(Nat)
    BY SMTT(30), <1>1
  <2> QED BY ZenonT(40), <1>1, <1>5, <1>7, <1>8, <2>1 DEF ExchangeInv, ExchangeTyped
<1>12. ExchangeFaithful'
  <2>1. \A i \in DOMAIN handled : handled[i] = Script[i]
    BY Zenon DEF ExchangeInv, ExchangeFaithful
  <2>2. next <= next /\ \A i \in 1..next : i = next \/ i \in 1..(next - 1)
    BY SMTT(30), <1>4, ScriptLength
  <2>3. \A i \in DOMAIN handled' : handled'[i] = Script[i]
    BY ZenonT(40), <1>8, <2>1, <2>2
  <2> QED BY ZenonT(40), <1>1, <1>8, <2>2, <2>3 DEF ExchangeInv, ExchangeFaithful
<1>13. AtRest' /\ EndSeen' /\ RequestUnderWay'
  BY ZenonT(40), <1>1, <1>6, <1>8, <1>9, <1>10 DEF AtRest, EndSeen, RequestUnderWay
<1>14. AnswerUnderWay'
  <2>1. SUFFICES ASSUME client = "waiting" PROVE AnswerUnderWay'
    BY Zenon, <1>1 DEF AnswerUnderWay
  <2>2. Len(answers) = next - 1 /\ cin = <<>> /\ down = <<>>
    BY ZenonT(40), <1>3, <1>4, <2>1 DEF ExchangeInv, AnswerUnderWay
  <2>3. Arriving(<<>>, <<>>, answer', damaged)
    BY ZenonT(40), <1>5, <1>7, FlowNone DEF Arriving
  <2> QED BY ZenonT(40), <1>1, <1>3, <1>7, <1>8, <2>2, <2>3 DEF AnswerUnderWay
<1> QED
  BY ZenonT(40), <1>11, <1>12, <1>13, <1>14 DEF ExchangeInv

\* The answer is written whole, onto an empty stream.
LEMMA ServerAnswerKeeps == ASSUME ExchangeInv, ServerAnswer PROVE ExchangeInv'
<1>1. UNCHANGED <<client, next, up, sin, cin, answer, handled, answers, clean, damaged>>
  BY Zenon DEF ServerAnswer
<1>2. server = "answering"
  BY Zenon DEF ServerAnswer, ExchangeInv, ExchangeTyped
<1>3. answer \in Sent /\ down \in Seq(Nat) /\ ~clean /\ client # "idle"
  BY Zenon, <1>2 DEF ExchangeInv, ExchangeTyped, EndSeen, AtRest
<1>4. Len(handled) = next /\ up = <<>> /\ sin = <<>>
  BY Zenon, <1>2 DEF ExchangeInv, RequestUnderWay
<1>5. EncodeFrame(answer) \in Seq(Nat)
  BY ZenonT(40), <1>3, FrameLayout
<1>6. server' \in {"reading", "closed"} /\ down' \in {down, down \o EncodeFrame(answer)}
  BY Zenon, <1>2 DEF ServerAnswer
<1>7. ExchangeTyped'
  <2>1. down \o EncodeFrame(answer) \in Seq(Nat)
    BY ZenonT(40), <1>3, <1>5, Joined
  <2> QED BY ZenonT(40), <1>1, <1>3, <1>6, <2>1 DEF ExchangeInv, ExchangeTyped
<1>8. ExchangeFaithful' /\ AtRest' /\ RequestUnderWay' /\ EndSeen'
  BY ZenonT(40), <1>1, <1>3, <1>4 DEF ExchangeInv, ExchangeFaithful, AtRest, RequestUnderWay, EndSeen
<1>9. AnswerUnderWay'
  <2>1. SUFFICES ASSUME client = "waiting" PROVE AnswerUnderWay'
    BY ZenonT(40), <1>1 DEF AnswerUnderWay
  <2>2. next \in Nat /\ next # next - 1
    BY SMTT(30), ScriptLength DEF ExchangeInv, ExchangeTyped
  <2>3. /\ next >= 1 /\ Len(answers) = next - 1 /\ answer = Handle[Script[next]]
        /\ cin = <<>> /\ down = <<>>
    BY ZenonT(40), <1>2, <1>4, <2>1, <2>2 DEF ExchangeInv, AnswerUnderWay
  <2>4. down' = down \o EncodeFrame(answer)
    BY Zenon, <1>2, <2>1 DEF ServerAnswer, Ended
  <2>5. down' = EncodeFrame(answer)
    BY ZenonT(40), <1>5, <2>3, <2>4, ConcatEmptySeq
  <2>6. Arriving(<<>>, EncodeFrame(answer), answer, damaged)
    BY ZenonT(40), <1>3, FlowStart DEF Arriving, Flow
  <2>7. server' # "answering"
    BY Zenon, <1>6
  <2> QED BY ZenonT(40), <1>1, <1>4, <2>3, <2>5, <2>6, <2>7 DEF AnswerUnderWay
<1> QED
  BY ZenonT(40), <1>7, <1>8, <1>9 DEF ExchangeInv

\* A client that dies leaves a part of its request.
LEMMA ClientDiesKeeps == ASSUME ExchangeInv, ClientDies PROVE ExchangeInv'
<1>1. /\ ~Ended /\ client' = "dead"
      /\ UNCHANGED <<server, next, down, sin, cin, answer, handled, answers, clean, damaged>>
  BY Zenon DEF ClientDies
<1>2. PICK n \in 0..Len(up) : up' = SubSeq(up, 1, n)
  BY Zenon DEF ClientDies
<1>3. ~clean /\ up \in Seq(Nat) /\ sin \in Seq(Nat) /\ next \in 0..Len(Script)
  BY Zenon, <1>1 DEF ExchangeInv, ExchangeTyped, EndSeen
<1>4. up' \in Seq(Nat) /\ RequestUnderWay'
  <2>1. CASE Len(handled) = next /\ up = <<>> /\ sin = <<>>
    <3>1. up' = <<>>
      BY SMTT(30), <1>2, <2>1
    <3>2. up' \in Seq(Nat)
      BY SMTT(30), <3>1
    <3> QED BY ZenonT(40), <1>1, <2>1, <3>1, <3>2 DEF RequestUnderWay
  <2>2. CASE /\ next >= 1 /\ Len(handled) = next - 1 /\ server # "answering"
             /\ Arriving(sin, up, Script[next], damaged)
    <3>1. next \in 1..Len(Script)
      BY SMTT(30), <1>3, <2>2, ScriptLength
    <3>2. Script[next] \in Sent
      BY ZenonT(40), <3>1, ScriptSent
    <3>3. up' \in Seq(Nat) /\ Arriving(sin, up', Script[next], damaged)
      BY ZenonT(40), <1>2, <1>3, <2>2, <3>2, FlowCut DEF Arriving
    <3> QED BY ZenonT(40), <1>1, <2>2, <3>3 DEF RequestUnderWay
  <2> QED BY ZenonT(40), <2>1, <2>2 DEF ExchangeInv, RequestUnderWay
<1>5. ExchangeTyped'
  BY Zenon, <1>1, <1>4 DEF ExchangeInv, ExchangeTyped
<1>6. ExchangeFaithful'
  BY Zenon, <1>1 DEF ExchangeInv, ExchangeFaithful
<1>7. AtRest' /\ AnswerUnderWay' /\ EndSeen'
  BY ZenonT(40), <1>1, <1>3 DEF AtRest, AnswerUnderWay, EndSeen
<1> QED
  BY ZenonT(40), <1>4, <1>5, <1>6, <1>7 DEF ExchangeInv

\* A server that dies leaves a part of its answer.
LEMMA ServerDiesKeeps == ASSUME ExchangeInv, ServerDies PROVE ExchangeInv'
<1>1. /\ ~Closed /\ server' = "dead"
      /\ UNCHANGED <<client, next, up, sin, cin, answer, handled, answers, clean, damaged>>
  BY Zenon DEF ServerDies
<1>2. PICK n \in 0..Len(down) : down' = SubSeq(down, 1, n)
  BY Zenon DEF ServerDies
<1>3. ~clean /\ down \in Seq(Nat) /\ cin \in Seq(Nat) /\ next \in 0..Len(Script)
  BY Zenon, <1>1 DEF ExchangeInv, ExchangeTyped, EndSeen, Closed
<1>4. down' \in Seq(Nat) /\ (down = <<>> => down' = <<>>)
  <2>1. Len(down) \in Nat /\ n \in Nat /\ n <= Len(down)
    BY SMTT(30), <1>3, LenProperties
  <2>2. 0 \in Nat /\ 0 <= n /\ 0 + 1 = 1
    BY ONLY SMTT(30), <2>1
  <2>3. SubSeq(down, 0 + 1, n) \in Seq(Nat)
    BY ZenonT(40), <1>3, <2>1, <2>2, Part
  <2>4. down = <<>> => down' = <<>>
    BY SMTT(30), <1>2
  <2> QED BY ZenonT(40), <1>2, <2>2, <2>3, <2>4
<1>5. ExchangeTyped'
  BY Zenon, <1>1, <1>4 DEF ExchangeInv, ExchangeTyped
<1>6. ExchangeFaithful' /\ AtRest' /\ EndSeen'
  BY ZenonT(40), <1>1, <1>3, <1>4 DEF ExchangeInv, ExchangeFaithful, AtRest, EndSeen
<1>7. RequestUnderWay'
  BY Zenon, <1>1 DEF ExchangeInv, RequestUnderWay
<1>8. AnswerUnderWay'
  <2>1. SUFFICES ASSUME client = "waiting" PROVE AnswerUnderWay'
    BY Zenon, <1>1 DEF AnswerUnderWay
  <2>2. next >= 1 /\ Len(answers) = next - 1
    BY ZenonT(40), <2>1 DEF ExchangeInv, AnswerUnderWay
  <2>3. CASE Len(handled) = next - 1 /\ cin = <<>> /\ down = <<>>
    BY ZenonT(40), <1>1, <1>4, <2>2, <2>3 DEF AnswerUnderWay
  <2>4. CASE /\ Len(handled) = next /\ answer = Handle[Script[next]]
             /\ Arriving(cin, down, answer, damaged)
    <3>1. next \in 1..Len(Script)
      BY SMTT(30), <1>3, <2>2, ScriptLength
    <3>2. answer \in Sent
      BY ZenonT(40), <2>4, <3>1, ScriptSent
    <3>3. Arriving(cin, down', answer, damaged)
      BY ZenonT(40), <1>2, <1>3, <2>4, <3>2, FlowCut DEF Arriving
    <3> QED BY ZenonT(40), <1>1, <2>2, <2>4, <3>3 DEF AnswerUnderWay
  <2> QED BY ZenonT(40), <2>1, <2>3, <2>4 DEF ExchangeInv, AnswerUnderWay
<1> QED
  BY ZenonT(40), <1>5, <1>6, <1>7, <1>8 DEF ExchangeInv

\* A changed cell belongs to the one frame that is on its way.
LEMMA DamageKeeps == ASSUME ExchangeInv, Damage PROVE ExchangeInv'
<1>1. /\ damaged = 0
      /\ UNCHANGED <<client, server, next, sin, cin, answer, handled, answers, clean>>
  BY Zenon DEF Damage
<1>2. /\ up \in Seq(Nat) /\ sin \in Seq(Nat) /\ down \in Seq(Nat) /\ cin \in Seq(Nat)
      /\ next \in 0..Len(Script)
  BY Zenon DEF ExchangeInv, ExchangeTyped
<1>3. ExchangeFaithful' /\ EndSeen'
  BY Zenon, <1>1 DEF ExchangeInv, ExchangeFaithful, EndSeen, Ended
<1>4. ASSUME NEW d \in Nat, damaged' = d, UNCHANGED up PROVE RequestUnderWay'
  BY ZenonT(40), <1>1, <1>4, FlowWeaken DEF ExchangeInv, RequestUnderWay, Arriving, Entire
<1>5. ASSUME NEW d \in Nat, damaged' = d, UNCHANGED down PROVE AnswerUnderWay' /\ AtRest'
  BY ZenonT(40), <1>1, <1>5, FlowWeaken DEF ExchangeInv, AnswerUnderWay, AtRest, Arriving
<1>6. ASSUME NEW v \in 0..(MaxFrame + 1), NEW i \in DOMAIN up,
             up' = [up EXCEPT ![i] = v], UNCHANGED down,
             damaged' = Len(EncodeFrame(Script[next])) - Len(up) + i
      PROVE  ExchangeInv'
  <2>1. i \in 1..Len(up) /\ Len(up) \in Nat
    BY Zenon, <1>2, LenProperties
  <2>2. up # <<>>
    BY SMTT(30), <2>1
  <2>3. /\ next >= 1 /\ Len(handled) = next - 1 /\ server # "answering"
        /\ Arriving(sin, up, Script[next], 0)
        /\ client # "dead" => Entire(sin, up, Script[next], 0)
    BY Zenon, <1>1, <2>2 DEF ExchangeInv, RequestUnderWay
  <2>4. next \in 1..Len(Script)
    BY SMTT(30), <1>2, <2>3, ScriptLength
  <2>5. Script[next] \in Sent
    BY Zenon, <2>4, ScriptSent
  <2>6. Len(EncodeFrame(Script[next])) \in Nat /\ Len(up) <= Len(EncodeFrame(Script[next]))
    BY ZenonT(40), <1>2, <2>3, <2>5, FlowLength DEF Arriving
  <2>7. damaged' \in Nat \ {0}
    BY ONLY SMTT(30), <1>6, <2>1, <2>6
  <2>8. up' \in Seq(Nat) /\ Arriving(sin, up', Script[next], damaged')
    BY ZenonT(40), <1>2, <1>6, <2>3, <2>5, <2>7, FlowDamage DEF Arriving
  <2>9. client # "dead" => Entire(sin, up', Script[next], damaged')
    BY ZenonT(40), <1>2, <1>6, <2>3, <2>5, <2>7, FlowDamage DEF Entire
  <2>10. RequestUnderWay'
    BY ZenonT(40), <1>1, <2>3, <2>8, <2>9 DEF RequestUnderWay
  <2>11. damaged' \in Nat
    BY Zenon, <2>7
  <2>12. ExchangeTyped'
    BY ZenonT(40), <1>1, <1>6, <2>8, <2>11 DEF ExchangeInv, ExchangeTyped
  <2> QED BY ZenonT(40), <1>3, <1>5, <1>6, <2>10, <2>11, <2>12 DEF ExchangeInv
<1>7. ASSUME NEW v \in 0..(MaxFrame + 1), NEW i \in DOMAIN down, client = "waiting",
             down' = [down EXCEPT ![i] = v], UNCHANGED up,
             damaged' = Len(EncodeFrame(answer)) - Len(down) + i
      PROVE  ExchangeInv'
  <2>1. i \in 1..Len(down) /\ Len(down) \in Nat
    BY ZenonT(40), <1>2, LenProperties
  <2>2. down # <<>>
    BY SMTT(30), <2>1
  <2>3. /\ next >= 1 /\ Len(answers) = next - 1
        /\ Len(handled) = next /\ answer = Handle[Script[next]] /\ server # "answering"
        /\ Arriving(cin, down, answer, 0)
    BY ZenonT(40), <1>1, <1>7, <2>2 DEF ExchangeInv, AnswerUnderWay
  <2>4. next \in 1..Len(Script)
    BY SMTT(30), <1>2, <2>3, ScriptLength
  <2>5. answer \in Sent
    BY ZenonT(40), <2>3, <2>4, ScriptSent
  <2>6. Len(EncodeFrame(answer)) \in Nat /\ Len(down) <= Len(EncodeFrame(answer))
    BY ZenonT(40), <1>2, <2>3, <2>5, FlowLength DEF Arriving
  <2>7. damaged' \in Nat \ {0}
    BY ONLY SMTT(30), <1>7, <2>1, <2>6
  <2>8. down' \in Seq(Nat) /\ Arriving(cin, down', answer, damaged')
    BY ZenonT(40), <1>2, <1>7, <2>3, <2>5, <2>7, FlowDamage DEF Arriving
  <2>9. AnswerUnderWay' /\ AtRest'
    BY ZenonT(40), <1>1, <1>7, <2>3, <2>8 DEF AnswerUnderWay, AtRest
  <2>10. damaged' \in Nat
    BY Zenon, <2>7
  <2>11. ExchangeTyped'
    BY ZenonT(40), <1>1, <1>7, <2>8, <2>10 DEF ExchangeInv, ExchangeTyped
  <2> QED BY ZenonT(40), <1>3, <1>4, <1>7, <2>9, <2>10, <2>11 DEF ExchangeInv
<1> QED
  BY ZenonT(40), <1>6, <1>7 DEF Damage

\* Every step keeps the invariant.
LEMMA NextExchange == ExchangeInv /\ [Next]_vars => ExchangeInv'
<1> SUFFICES ASSUME ExchangeInv, [Next]_vars PROVE ExchangeInv'
  OBVIOUS
<1>1. CASE UNCHANGED vars
  BY Zenon, <1>1 DEF vars, ExchangeInv, ExchangeTyped, ExchangeFaithful, AtRest, RequestUnderWay,
     AnswerUnderWay, EndSeen, Ended
<1>2. CASE ClientStep
  BY ZenonT(40), <1>2, ClientWriteKeeps, ClientReadKeeps, ClientFinishKeeps DEF ClientStep
<1>3. CASE ServerStep
  BY ZenonT(40), <1>3, ServerReadKeeps, ServerEndKeeps, ServerRejectKeeps, ServerHandleKeeps,
     ServerAnswerKeeps DEF ServerStep
<1> QED
  BY ZenonT(40), <1>1, <1>2, <1>3, ClientDiesKeeps, ServerDiesKeeps, DamageKeeps DEF Next

\* The invariant holds in every state.
LEMMA ExchangeInvariant == Spec => []ExchangeInv
  BY InitExchange, NextExchange, PTL DEF Spec

\* The server handles exactly the requests that were written, in order and once
\* each, and the client takes nothing but their answers for answers, for every
\* script, every splitting of the stream, one damaged cell and deaths at any point.
THEOREM ExchangeIsFaithful == Spec => []ExchangeFaithful
<1>1. ExchangeInv => ExchangeFaithful
  BY ZenonT(40) DEF ExchangeInv
<1> QED
  BY <1>1, ExchangeInvariant, PTL

\* A stream that ends between two frames ends after the last request was handled,
\* unless the client died: a frame cut off in the middle is never a clean end.
THEOREM CleanEndIsHonest == Spec => []CleanEndHidesNothing
<1>1. ExchangeInv => CleanEndHidesNothing
  BY Zenon DEF ExchangeInv, EndSeen, CleanEndHidesNothing
<1> QED
  BY <1>1, ExchangeInvariant, PTL
=============================================================================
