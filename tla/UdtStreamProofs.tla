--------------------------- MODULE UdtStreamProofs ---------------------------
(***************************************************************************)
(* Machine-checked proofs that two connected sockets are a pipe, for any   *)
(* buffers, any first number and any range of numbers, whatever the        *)
(* network loses, repeats and reorders, as long as fewer packets are sent  *)
(* than the threshold of the comparison, so that no packet on the way is   *)
(* old enough to be taken for a new one.                                   *)
(*                                                                         *)
(* The sequence numbers are read as places: place k of the stream has the  *)
(* number At(isn, k), and the sender, the receiver and every packet on the *)
(* way speak of places, which do not wrap.                                 *)
(***************************************************************************)
EXTENDS UdtStream, SequenceTheorems, WellFoundedInduction, TLAPS

-----------------------------------------------------------------------------
(***************************************************************************)
(* What all of UDT relies on when it counts and compares sequence numbers, *)
(* for every range of numbers and threshold that SeqNoAssumption allows:   *)
(* 2^31 numbers and half of them, as in the code.                          *)
(***************************************************************************)
(* An increment that is not negative and at most MaxSeqNo leads to a       *)
(* sequence number (CSeqNo::incseq with an offset).                        *)
LEMMA AddIsSeqNo ==
  ASSUME NEW s \in SeqNos, NEW k \in 0 .. MaxSeqNo
  PROVE  addseq(s, k) \in SeqNos
BY SeqNoAssumption DEF SeqNos, addseq

(* One step forward is incseq, and decseq goes one step back: the          *)
(* acknowledged number decseq(m_iSndLastDataAck) is the one before.        *)
THEOREM NextAndBefore ==
  ASSUME NEW s \in SeqNos
  PROVE  /\ incseq(s) \in SeqNos /\ decseq(s) \in SeqNos
         /\ incseq(s) = IF MaxSeqNo = 0 THEN 0 ELSE addseq(s, 1)
         /\ decseq(incseq(s)) = s
         /\ incseq(decseq(s)) = s
<1>1. incseq(s) \in SeqNos /\ decseq(s) \in SeqNos
  BY SeqNoAssumption DEF SeqNos, incseq, decseq
<1>2. incseq(s) = IF MaxSeqNo = 0 THEN 0 ELSE addseq(s, 1)
  BY SeqNoAssumption DEF SeqNos, incseq, addseq
<1>3. decseq(incseq(s)) = s /\ incseq(decseq(s)) = s
  BY SeqNoAssumption DEF SeqNos, incseq, decseq
<1> QED
  BY <1>1, <1>2, <1>3

(* How far the number k steps ahead is ahead: k, wherever the numbers      *)
(* start over, as long as k is below the threshold; seen from there it is  *)
(* as far behind.  The places in the buffers are such offsets.             *)
THEOREM OffsetOfSum ==
  ASSUME NEW s \in SeqNos, NEW k \in 0 .. SeqNoTH - 1
  PROVE  /\ seqoff(s, addseq(s, k)) = k
         /\ seqoff(addseq(s, k), s) = -k
<1>1. CASE MaxSeqNo - s >= k
  BY <1>1, SeqNoAssumption DEF SeqNos, addseq, seqoff, abs
<1>2. CASE ~(MaxSeqNo - s >= k)
  <2>1. addseq(s, k) = s + k - (MaxSeqNo + 1)
    BY <1>2, SeqNoAssumption DEF SeqNos, addseq
  <2>2. abs(s - addseq(s, k)) = MaxSeqNo + 1 - k /\ MaxSeqNo + 1 - k > SeqNoTH
    BY <2>1, SeqNoAssumption DEF SeqNos, abs
  <2>3. abs(addseq(s, k) - s) = MaxSeqNo + 1 - k
    BY <2>1, SeqNoAssumption DEF SeqNos, abs
  <2> QED
    BY <2>1, <2>2, <2>3, SeqNoAssumption DEF SeqNos, seqoff
<1> QED
  BY <1>1, <1>2

(* Two numbers at offsets i and j of one window are compared as i and j    *)
(* are, and are as far apart: what is before what does not depend on where *)
(* in the window the numbers start over (CSeqNo::seqcmp, seqoff).          *)
THEOREM OrderInWindow ==
  ASSUME NEW ack \in SeqNos,
         NEW i \in 0 .. SeqNoTH - 1, NEW j \in 0 .. SeqNoTH - 1
  PROVE  LET s == addseq(ack, i)
             t == addseq(ack, j) IN
         /\ seqcmp(s, t) < 0 <=> i < j
         /\ seqcmp(s, t) = 0 <=> i = j
         /\ seqoff(s, t) = j - i
<1> DEFINE s == addseq(ack, i)
           t == addseq(ack, j)
<1> SUFFICES /\ seqcmp(s, t) < 0 <=> i < j
             /\ seqcmp(s, t) = 0 <=> i = j
             /\ seqoff(s, t) = j - i
  OBVIOUS
<1>1. /\ s = ack + i \/ s = ack + i - (MaxSeqNo + 1)
      /\ t = ack + j \/ t = ack + j - (MaxSeqNo + 1)
      /\ 0 <= s /\ s <= MaxSeqNo /\ 0 <= t /\ t <= MaxSeqNo
      /\ s \in Int /\ t \in Int
  BY SeqNoAssumption DEF SeqNos, addseq
<1> HIDE DEF s, t
<1>2. CASE s - t = i - j
  <2>1. abs(s - t) < SeqNoTH
    BY <1>1, <1>2, SeqNoAssumption DEF abs
  <2> QED
    BY <1>1, <1>2, <2>1, SeqNoAssumption DEF seqcmp, seqoff
<1>3. CASE s - t = i - j + (MaxSeqNo + 1)
  <2>1. ~(abs(s - t) < SeqNoTH) /\ s > t
    BY <1>1, <1>3, SeqNoAssumption DEF abs
  <2>2. i < j
    BY <1>1, <1>3, SeqNoAssumption
  <2> QED
    BY <1>1, <1>3, <2>1, <2>2, SeqNoAssumption DEF seqcmp, seqoff
<1>4. CASE s - t = i - j - (MaxSeqNo + 1)
  <2>1. ~(abs(s - t) < SeqNoTH) /\ s < t
    BY <1>1, <1>4, SeqNoAssumption DEF abs
  <2>2. i > j
    BY <1>1, <1>4, SeqNoAssumption
  <2> QED
    BY <1>1, <1>4, <2>1, <2>2, SeqNoAssumption DEF seqcmp, seqoff
<1>5. \/ s - t = i - j
      \/ s - t = i - j + (MaxSeqNo + 1)
      \/ s - t = i - j - (MaxSeqNo + 1)
  BY <1>1, SeqNoAssumption DEF SeqNos
<1> QED
  BY <1>2, <1>3, <1>4, <1>5

(* The way back: a number that is not before s is the one as many steps    *)
(* ahead of it as seqoff says.                                             *)
THEOREM SumOfOffset ==
  ASSUME NEW s \in SeqNos, NEW t \in SeqNos, seqoff(s, t) >= 0
  PROVE  /\ seqoff(s, t) \in 0 .. MaxSeqNo
         /\ addseq(s, seqoff(s, t)) = t
<1>1. CASE seqoff(s, t) = t - s
  BY <1>1, SeqNoAssumption DEF SeqNos, addseq
<1>2. CASE seqoff(s, t) = t - s + MaxSeqNo + 1 /\ ~(s < t) /\ s # t
  BY <1>2, SeqNoAssumption DEF SeqNos, addseq
<1>3. \/ seqoff(s, t) = t - s
      \/ seqoff(s, t) = t - s + MaxSeqNo + 1 /\ ~(s < t) /\ s # t
  BY SeqNoAssumption DEF SeqNos, seqoff, abs
<1> QED
  BY <1>1, <1>2, <1>3

(* A range of a loss report counts its numbers right, over the end of the  *)
(* numbers too (CSeqNo::seqlen), ...                                       *)
THEOREM LengthOfRange ==
  ASSUME NEW s \in SeqNos, NEW k \in 0 .. MaxSeqNo
  PROVE  seqlen(s, addseq(s, k)) = k + 1
BY SeqNoAssumption DEF SeqNos, addseq, seqlen

(* ... and holds what a window that starts before it says it does: the     *)
(* numbers at the offsets between those of its ends, and no other.         *)
THEOREM RangeInWindow ==
  ASSUME NEW ack \in SeqNos, NEW i \in 0 .. SeqNoTH - 1,
         NEW j \in i .. SeqNoTH - 1, NEW n \in 0 .. SeqNoTH - 1
  PROVE  addseq(ack, n) \in SeqRange(addseq(ack, i), addseq(ack, j))
           <=> i <= n /\ n <= j
<1> DEFINE s == addseq(ack, i)
           t == addseq(ack, j)
<1>1. s \in SeqNos /\ t \in SeqNos
  BY AddIsSeqNo, SeqNoAssumption
<1>2. \A d \in 0 .. j - i : addseq(s, d) = addseq(ack, i + d)
  BY SeqNoAssumption DEF SeqNos, addseq
<1>3. t = addseq(s, j - i)
  BY <1>2
<1>4. seqlen(s, t) - 1 = j - i
  BY <1>1, <1>3, LengthOfRange, SeqNoAssumption
<1>5. SeqRange(s, t) = {addseq(ack, i + d) : d \in 0 .. j - i}
  BY <1>2, <1>4 DEF SeqRange
<1>6. \A m \in 0 .. SeqNoTH - 1 : addseq(ack, m) = addseq(ack, n) => m = n
  BY SeqNoAssumption DEF SeqNos, addseq
<1>7. ASSUME i <= n, n <= j
      PROVE  addseq(ack, n) \in SeqRange(s, t)
  BY <1>5, <1>7, n - i \in 0 .. j - i, n = i + (n - i)
<1>8. ASSUME addseq(ack, n) \in SeqRange(s, t)
      PROVE  i <= n /\ n <= j
  <2>1. PICK d \in 0 .. j - i : addseq(ack, n) = addseq(ack, i + d)
    BY <1>5, <1>8
  <2>2. i + d \in 0 .. SeqNoTH - 1
    BY <2>1, SeqNoAssumption
  <2> QED
    BY <1>6, <2>1, <2>2
<1> QED
  BY <1>7, <1>8

-----------------------------------------------------------------------------
(* Places *)

Places == 0 .. SeqNoTH - 1

At(isn, k) == addseq(isn, k)

\* m_iSndCurrSeqNo and m_iRcvCurrSeqNo, when k packets were sent or are known.
Cur(isn, k) == IF k = 0 THEN isn - 1 ELSE At(isn, k - 1)

-----------------------------------------------------------------------------
(* A non-empty set of natural numbers has a least element.                 *)
LEMMA LeastPlace ==
  ASSUME NEW S \in SUBSET Nat, S # {}
  PROVE  \E m \in S : \A k \in S : m <= k
<1> DEFINE R == OpToRel(<, Nat)
<1>1. ASSUME NEW k \in Nat, NEW m \in Nat, k < m
      PROVE  <<k, m>> \in R
  BY <1>1, Zenon DEF OpToRel
<1>2. \E m \in S : \A k \in S : ~(<<k, m>> \in R)
  BY WFMin, NatLessThanWellFounded, Zenon
<1> HIDE DEF R
<1>3. PICK m \in S : \A k \in S : ~(<<k, m>> \in R)
  BY <1>2, Zenon
<1>4. \A k \in S : ~(k < m)
  BY <1>1, <1>3
<1> QED
  BY <1>3, <1>4

(* Arithmetic of places: comparing, measuring and stepping do not depend   *)
(* on where the numbers start over.                                        *)
LEMMA PlaceIsSeqNo ==
  ASSUME NEW isn \in SeqNos, NEW k \in Places
  PROVE  At(isn, k) \in SeqNos
BY AddIsSeqNo, SeqNoAssumption DEF At, Places

LEMMA ComparePlaces ==
  ASSUME NEW isn \in SeqNos, NEW i \in Places, NEW j \in Places
  PROVE  /\ seqcmp(At(isn, i), At(isn, j)) > 0 <=> i > j
         /\ seqcmp(At(isn, i), At(isn, j)) < 0 <=> i < j
         /\ At(isn, i) = At(isn, j) <=> i = j
         /\ seqoff(At(isn, i), At(isn, j)) = j - i
         /\ seqcmp(At(isn, i), At(isn, j)) \in Int
<1>1. /\ seqcmp(At(isn, i), At(isn, j)) < 0 <=> i < j
      /\ seqcmp(At(isn, i), At(isn, j)) = 0 <=> i = j
      /\ seqoff(At(isn, i), At(isn, j)) = j - i
  BY OrderInWindow DEF At, Places
<1>2. At(isn, i) \in SeqNos /\ At(isn, j) \in SeqNos
  BY PlaceIsSeqNo
<1>3. seqcmp(At(isn, i), At(isn, j)) \in Int
  BY <1>2 DEF SeqNos, seqcmp
<1>4. At(isn, i) = At(isn, j) => i = j
  BY <1>2, <1>1 DEF seqcmp, abs, SeqNos
<1> QED
  BY <1>1, <1>3, <1>4 DEF Places

LEMMA NextPlace ==
  ASSUME NEW isn \in SeqNos, NEW k \in Places
  PROVE  /\ k + 1 \in Places => incseq(At(isn, k)) = At(isn, k + 1)
         /\ k - 1 \in Places => decseq(At(isn, k)) = At(isn, k - 1)
         /\ incseq(Cur(isn, k)) = At(isn, k)
         /\ At(isn, 0) = isn
<1>1. k + 1 \in Places => incseq(At(isn, k)) = At(isn, k + 1)
  BY SeqNoAssumption DEF SeqNos, Places, At, addseq, incseq
<1>2. k - 1 \in Places => decseq(At(isn, k)) = At(isn, k - 1)
  BY SeqNoAssumption DEF SeqNos, Places, At, addseq, decseq
<1>3. incseq(Cur(isn, k)) = At(isn, k)
  BY SeqNoAssumption DEF SeqNos, Places, At, addseq, incseq, Cur
<1>4. At(isn, 0) = isn
  BY SeqNoAssumption DEF SeqNos, At, addseq
<1> QED
  BY <1>1, <1>2, <1>3, <1>4

\* The number before the first is isn - 1, even when isn is 0.
LEMMA CompareWithCur ==
  ASSUME NEW isn \in SeqNos, NEW k \in Places, k + 1 \in Places, NEW c \in Places
  PROVE  /\ seqcmp(At(isn, k), Cur(isn, c)) > 0 <=> k >= c
         /\ seqcmp(At(isn, k), Cur(isn, c)) <= 0 <=> k < c
<1>1. CASE c = 0
  <2>1. \/ At(isn, k) = isn + k
        \/ At(isn, k) = isn + k - (MaxSeqNo + 1) /\ isn # 0
    BY SeqNoAssumption DEF SeqNos, Places, At, addseq
  <2>2. seqcmp(At(isn, k), isn - 1) > 0
    <3>1. CASE At(isn, k) = isn + k
      BY <3>1, SeqNoAssumption DEF SeqNos, Places, seqcmp, abs
    <3>2. CASE At(isn, k) = isn + k - (MaxSeqNo + 1) /\ isn # 0
      BY <3>2, SeqNoAssumption DEF SeqNos, Places, seqcmp, abs
    <3> QED
      BY <2>1, <3>1, <3>2
  <2>3. seqcmp(At(isn, k), isn - 1) \in Int
    BY PlaceIsSeqNo DEF SeqNos, seqcmp
  <2> QED
    BY <1>1, <2>2, <2>3 DEF Cur, Places
<1>2. CASE c # 0
  <2>1. c - 1 \in Places
    BY <1>2, SeqNoAssumption DEF Places
  <2> QED
    BY <1>2, <2>1, ComparePlaces DEF Cur, Places
<1> QED
  BY <1>1, <1>2

LEMMA AddPlaces ==
  ASSUME NEW isn \in SeqNos, NEW i \in Places, NEW o \in Nat, i + o \in Places
  PROVE  addseq(At(isn, i), o) = At(isn, i + o)
BY SeqNoAssumption DEF SeqNos, Places, At, addseq

LEMMA RangeOfPlaces ==
  ASSUME NEW isn \in SeqNos, NEW i \in Places, NEW j \in Places, i <= j
  PROVE  SeqRange(At(isn, i), At(isn, j)) = {At(isn, k) : k \in i .. j}
<1>1. At(isn, i) \in SeqNos
  BY PlaceIsSeqNo
<1>2. \A d \in 0 .. j - i : addseq(At(isn, i), d) = At(isn, i + d)
  BY AddPlaces, SeqNoAssumption DEF Places
<1>3. seqlen(At(isn, i), At(isn, j)) = j - i + 1
  <2>1. At(isn, j) = addseq(At(isn, i), j - i)
    BY <1>2 DEF Places
  <2>2. j - i \in 0 .. MaxSeqNo
    BY SeqNoAssumption DEF Places
  <2> QED
    BY <1>1, <2>1, <2>2, LengthOfRange
<1>4. SeqRange(At(isn, i), At(isn, j)) = {At(isn, i + d) : d \in 0 .. j - i}
  BY <1>2, <1>3 DEF SeqRange, Places
<1>5. {At(isn, i + d) : d \in 0 .. j - i} = {At(isn, k) : k \in i .. j}
  <2>1. \A d \in 0 .. j - i : i + d \in i .. j
    BY DEF Places
  <2>2. \A k \in i .. j : k - i \in 0 .. j - i /\ i + (k - i) = k
    BY DEF Places
  <2> QED
    BY <2>1, <2>2
<1> QED
  BY <1>4, <1>5

\* The first of a set of losses is the one at the least place.
LEMMA FirstIsLeast ==
  ASSUME NEW isn \in SeqNos, NEW lo \in Nat, NEW hi \in Places,
         NEW S, S # {}, S \subseteq {At(isn, k) : k \in lo .. hi - 1}
  PROVE  \E f \in lo .. hi - 1 :
           /\ First(S) = At(isn, f) /\ At(isn, f) \in S
           /\ \A k \in Places : At(isn, k) \in S => f <= k
<1> DEFINE K == {k \in lo .. hi - 1 : At(isn, k) \in S}
<1>1. K \in SUBSET Nat /\ K # {}
  BY SeqNoAssumption DEF Places
<1>2. PICK f \in K : \A k \in K : f <= k
  <2> HIDE DEF K
  <2> QED
    BY <1>1, LeastPlace
<1>3. lo .. hi - 1 \subseteq Places
  BY SeqNoAssumption DEF Places
<1>4. \A k \in Places : At(isn, k) \in S => k \in K
  BY <1>3, ComparePlaces
<1>5. \A t \in S : seqcmp(At(isn, f), t) <= 0
  <2> SUFFICES ASSUME NEW k \in K PROVE seqcmp(At(isn, f), At(isn, k)) <= 0
    OBVIOUS
  <2>1. f \in Places /\ k \in Places /\ f <= k
    BY <1>2, <1>3
  <2> QED
    BY <2>1, ComparePlaces DEF Places
<1>6. First(S) \in S /\ \A t \in S : seqcmp(First(S), t) <= 0
  BY <1>2, <1>5, Zenon DEF First
<1>7. PICK g \in K : First(S) = At(isn, g)
  BY <1>6
<1>8. g = f
  <2>1. f \in Places /\ g \in Places /\ f <= g
    BY <1>2, <1>3
  <2>2. seqcmp(At(isn, g), At(isn, f)) <= 0
    BY <1>2, <1>6, <1>7
  <2>3. ~(g > f)
    BY <2>1, <2>2, ComparePlaces
  <2> QED
    BY <2>1, <2>3 DEF Places
<1> QED
  BY <1>2, <1>4, <1>7, <1>8

-----------------------------------------------------------------------------
(* What is invariant.  Three counts tell how far the stream got: packets   *)
(* released by the sender, packed by it, and acknowledged by the receiver; *)
(* a fourth, c, is how many the receiver knows of, missing ones among them.*)
released == written - Len(sndBuf)
packed == released + sndBlock
acked == Len(got) + Len(ready)

Over == sndState \in {"closed", "dropped"}

\* The sender: the buffer holds what was written and not released, the numbers
\* say so, and only packed ones are sent again.
SndTypes ==
  /\ written \in 0 .. Packets
  /\ sndBuf \in Seq(Nat) /\ Len(sndBuf) <= written
  /\ sndBlock \in 0 .. Len(sndBuf)
  /\ sndState \in {"open", "lingering", "broken", "closed", "dropped"}

SndBufInv == \A i \in 1 .. Len(sndBuf) : sndBuf[i] = released + i

SndSeqInv(isn) ==
  /\ sndCurrSeqNo = Cur(isn, packed)
  /\ sndLastDataAck = At(isn, released)
  /\ \E a \in released .. packed : sndLastAck = At(isn, a)

SndLossInv(isn) ==
  /\ sndLoss \subseteq {At(isn, k) : k \in released .. packed - 1}
  /\ packing # Nothing => \E k \in 0 .. packed - 1 : packing = At(isn, k)

SndInv(isn) == SndTypes /\ SndBufInv /\ SndSeqInv(isn) /\ SndLossInv(isn)

\* The receiver: what is read and what may be read is the beginning of the
\* stream, behind it everything is in its place, and the loss list names the
\* holes.
RcvTypes ==
  /\ got \in Seq(Nat) /\ ready \in Seq(Nat)
  /\ rcvBuf \in [Offsets -> Nat]
  /\ rcvState \in {"open", "shutdown", "broken"}

RcvBufInv ==
  /\ \A i \in 1 .. Len(got) : got[i] = i
  /\ \A i \in 1 .. Len(ready) : ready[i] = Len(got) + i
  /\ \A o \in Offsets : rcvBuf[o] \in {Hole, acked + o + 1}

RcvSeqInv(isn, c) ==
  /\ acked <= c /\ c <= acked + RcvBufSize - 1
  /\ rcvCurrSeqNo = Cur(isn, c)
  /\ rcvLastAck = At(isn, acked)
  /\ \E b \in 0 .. acked : rcvLastAckAck = At(isn, b)

RcvLossInv(isn, c) ==
  /\ rcvLoss \subseteq {At(isn, k) : k \in acked .. c - 1}
  /\ \A o \in Offsets :
       rcvBuf[o] = Hole <=> acked + o >= c \/ At(isn, acked + o) \in rcvLoss

RcvInv(isn, c) == RcvTypes /\ RcvBufInv /\ RcvSeqInv(isn, c) /\ RcvLossInv(isn, c)

\* The two ends: what is released was acknowledged, what is known was packed.
EndsInv(c) ==
  /\ released <= acked /\ c <= packed
  /\ rcvState = "shutdown" => Over

\* A packet on the way says something that was true when it was sent, and has
\* not become false since.
SaysRcv(isn, upto, known, p) ==
  /\ p.kind = "data" => \E k \in 0 .. upto - 1 : p.seq = At(isn, k) /\ p.data = k + 1
  /\ p.kind = "ack2" => \E k \in 0 .. known : p.ack = At(isn, k)

SaysSnd(isn, known, c, p) ==
  /\ p.kind = "ack" => \E k \in 0 .. known : p.ack = At(isn, k)
  /\ p.kind = "lite" => \E k \in 0 .. c : p.ack = At(isn, k)
  /\ p.kind = "nak" => \E i, j \in 0 .. c - 1 :
       i <= j /\ p.from = At(isn, i) /\ p.to = At(isn, j)

ToRcvInv(isn) ==
  \A p \in toRcv : SaysRcv(isn, packed, acked, p) /\ (p.kind = "shutdown" => Over)

ToSndInv(isn, c) == \A p \in toSnd : SaysSnd(isn, acked, c, p)

Inv(isn, c) ==
  /\ SndInv(isn) /\ RcvInv(isn, c) /\ EndsInv(c)
  /\ ToRcvInv(isn) /\ ToSndInv(isn, c)

IInv == \E isn \in FirstSeqNos, c \in Nat : Inv(isn, c)

-----------------------------------------------------------------------------
(* The counts are places, with room to spare.                              *)
LEMMA SndCounts ==
  ASSUME SndTypes
  PROVE  /\ released \in Nat /\ packed \in Nat /\ released <= packed
         /\ packed <= written /\ packed <= Packets /\ released + Len(sndBuf) = written
         /\ Len(sndBuf) \in Nat /\ sndBlock = packed - released
BY StreamAssumption DEF SndTypes, released, packed

LEMMA RcvCounts ==
  ASSUME RcvTypes
  PROVE  acked \in Nat /\ Len(got) \in Nat /\ Len(ready) \in Nat
BY DEF RcvTypes, acked

LEMMA SmallIsPlace ==
  /\ \A k \in Int : 0 <= k /\ k <= Packets => k \in Places /\ k + 1 \in Places
  /\ \A k \in Int, o \in Offsets :
       0 <= k /\ k <= Packets => k + o \in Places /\ k + o + 1 \in Places
  /\ FirstSeqNos \subseteq SeqNos
BY StreamAssumption, SeqNoAssumption DEF Places, Offsets

(* The network neither invents nor changes packets.                        *)
LEMMA WithAdds ==
  ASSUME NEW channel, NEW other, NEW p, NEW new \in With(channel, other, p)
  PROVE  new \subseteq channel \cup {p}
BY Zenon DEF With

LEMMA AfterKeeps ==
  ASSUME NEW channel, NEW p, NEW new \in After(channel, p)
  PROVE  new \subseteq channel
BY DEF After

LEMMA SaidToRcv ==
  ASSUME NEW isn, NEW i \in Int, NEW j \in Int, i <= j,
         NEW k \in Int, NEW l \in Int, k <= l, NEW p, SaysRcv(isn, i, k, p)
  PROVE  SaysRcv(isn, j, l, p)
BY DEF SaysRcv

LEMMA RcvStillTrue ==
  ASSUME NEW isn, ToRcvInv(isn), NEW p,
         packed \in Int, packed' \in Int, packed <= packed',
         acked \in Int, acked' \in Int, acked <= acked', Over => Over',
         toRcv' \subseteq toRcv \cup {p},
         p \in toRcv' \ toRcv
           => SaysRcv(isn, packed', acked', p) /\ (p.kind = "shutdown" => Over')
  PROVE  ToRcvInv(isn)'
<1> SUFFICES ASSUME NEW q \in toRcv'
             PROVE  SaysRcv(isn, packed', acked', q) /\ (q.kind = "shutdown" => Over')
  BY DEF ToRcvInv, Over
<1>1. CASE q \in toRcv
  <2>1. SaysRcv(isn, packed, acked, q) /\ (q.kind = "shutdown" => Over)
    BY <1>1, Zenon DEF ToRcvInv
  <2>2. SaysRcv(isn, packed', acked', q)
    BY <2>1, SaidToRcv, Zenon
  <2> QED
    BY <2>1, <2>2
<1>2. CASE q \notin toRcv
  <2>1. q = p
    BY <1>2
  <2> QED
    BY <1>2, <2>1
<1> QED
  BY <1>1, <1>2

LEMMA SndStillTrue ==
  ASSUME NEW isn, NEW c \in Int, NEW d \in Int, c <= d, ToSndInv(isn, c), NEW p,
         acked \in Int, acked' \in Int, acked <= acked',
         toSnd' \subseteq toSnd \cup {p},
         p \in toSnd' \ toSnd => SaysSnd(isn, acked', d, p)
  PROVE  ToSndInv(isn, d)'
<1>1. \A q : SaysSnd(isn, acked, c, q) => SaysSnd(isn, acked', d, q)
  BY DEF SaysSnd
<1> QED
  BY <1>1 DEF ToSndInv

(* The half of the invariant an action does not touch.                     *)
LEMMA RcvUntouched ==
  ASSUME NEW isn, NEW c, RcvInv(isn, c), UNCHANGED rcvVars
  PROVE  RcvInv(isn, c)' /\ acked' = acked /\ rcvState' = rcvState
BY DEF RcvInv, RcvTypes, RcvBufInv, RcvSeqInv, RcvLossInv, rcvVars, acked

LEMMA SndUntouched ==
  ASSUME NEW isn, SndInv(isn), UNCHANGED sndVars
  PROVE  /\ SndInv(isn)' /\ packed' = packed /\ released' = released
         /\ (Over' <=> Over)
BY DEF SndInv, SndTypes, SndBufInv, SndSeqInv, SndLossInv, sndVars, sndAcks, sndData,
       packed, released, Over

(* What is left to show of an action of one end: its own half, that what   *)
(* it knows only grows, and that what it sends is true.                    *)
LEMMA SndStep ==
  ASSUME NEW isn \in SeqNos, NEW c \in Nat, Inv(isn, c),
         SndInv(isn)', UNCHANGED rcvVars,
         packed <= packed', released' <= acked, Over => Over', NEW p,
         toRcv' \subseteq toRcv \cup {p}, toSnd' \subseteq toSnd,
         p \in toRcv' \ toRcv
           => SaysRcv(isn, packed', acked, p) /\ (p.kind = "shutdown" => Over')
  PROVE  Inv(isn, c)'
<1>1. RcvInv(isn, c)' /\ acked' = acked /\ rcvState' = rcvState
  BY RcvUntouched DEF Inv
<1>2. packed \in Nat /\ packed' \in Nat /\ acked \in Nat
  <2>1. SndTypes /\ SndTypes' /\ RcvTypes
    BY DEF Inv, SndInv, RcvInv
  <2>2. SndTypes' => packed' \in Nat
    BY StreamAssumption DEF SndTypes, packed, released
  <2> QED
    BY <2>1, <2>2, SndCounts, RcvCounts
<1>3. ToRcvInv(isn)'
  <2>1. /\ packed \in Int /\ packed' \in Int /\ acked \in Int /\ acked' \in Int
        /\ acked <= acked'
    BY <1>1, <1>2
  <2>2. ToRcvInv(isn)
    BY DEF Inv
  <2>3. p \in toRcv' \ toRcv
          => SaysRcv(isn, packed', acked', p) /\ (p.kind = "shutdown" => Over')
    BY <1>1
  <2> QED
    BY <2>1, <2>2, <2>3, RcvStillTrue, Zenon
<1>4. ToSndInv(isn, c)'
  BY <1>1 DEF Inv, ToSndInv
<1>5. EndsInv(c)'
  BY <1>1, <1>2 DEF Inv, EndsInv, Over
<1> QED
  BY <1>1, <1>3, <1>4, <1>5, Zenon DEF Inv

LEMMA RcvStep ==
  ASSUME NEW isn \in SeqNos, NEW c \in Nat, NEW d \in Nat, Inv(isn, c),
         RcvInv(isn, d)', UNCHANGED sndVars,
         c <= d, d <= packed, acked <= acked', rcvState' = "shutdown" => Over, NEW p,
         toRcv' \subseteq toRcv, toSnd' \subseteq toSnd \cup {p},
         p \in toSnd' \ toSnd => SaysSnd(isn, acked', d, p)
  PROVE  Inv(isn, d)'
<1>1. SndInv(isn)' /\ packed' = packed /\ released' = released /\ (Over' <=> Over)
  BY SndUntouched DEF Inv
<1>2. packed \in Nat /\ acked \in Nat /\ acked' \in Nat /\ released \in Nat
  <2>1. SndTypes /\ RcvTypes /\ RcvTypes'
    BY DEF Inv, SndInv, RcvInv
  <2>2. RcvTypes' => acked' \in Nat
    BY DEF RcvTypes, acked
  <2> QED
    BY <2>1, <2>2, SndCounts, RcvCounts
<1>3. ToRcvInv(isn)'
  <2>1. \A q : SaysRcv(isn, packed, acked, q) => SaysRcv(isn, packed, acked', q)
    <3>1. packed \in Int /\ packed <= packed /\ acked \in Int /\ acked' \in Int
      BY <1>2
    <3> QED
      BY <3>1, SaidToRcv, Zenon
  <2>2. \A q \in toRcv' : q \in toRcv
    OBVIOUS
  <2>3. ToRcvInv(isn)
    BY DEF Inv
  <2> QED
    BY <1>1, <2>1, <2>2, <2>3 DEF ToRcvInv, Over
<1>4. ToSndInv(isn, d)'
  <2>1. /\ acked \in Int /\ acked' \in Int /\ c \in Int /\ d \in Int
    BY <1>2
  <2>2. ToSndInv(isn, c)
    BY DEF Inv
  <2> QED
    BY <2>1, <2>2, SndStillTrue, Zenon
<1>5. EndsInv(d)'
  BY <1>1, <1>2 DEF Inv, EndsInv, Over
<1> QED
  BY <1>1, <1>3, <1>4, <1>5, Zenon DEF Inv

-----------------------------------------------------------------------------
(* The sender's actions.                                                   *)
LEMMA SendKeeps ==
  ASSUME NEW isn \in SeqNos, NEW c \in Nat, Inv(isn, c), NEW n \in 1 .. 2, send(n)
  PROVE  Inv(isn, c)' /\ written' > written
<1>1. SndInv(isn) /\ EndsInv(c)
  BY DEF Inv
<1> DEFINE room == SndBufSize - Len(sndBuf)
           size == IF n < room THEN n ELSE room
           new == [i \in 1 .. size |-> written + i]
<1>2. /\ size \in Nat \ {0} /\ written' = written + size /\ written' <= Packets
      /\ sndBuf' = sndBuf \o new
  BY <1>1, StreamAssumption DEF send, SndInv, SndTypes
<1>3. new \in Seq(Nat) /\ Len(new) = size /\ \A i \in 1 .. size : new[i] = written + i
  BY <1>1, <1>2 DEF SndInv, SndTypes
<1> HIDE DEF size, new
<1>4. /\ sndBuf' \in Seq(Nat) /\ Len(sndBuf') = Len(sndBuf) + size
      /\ \A i \in 1 .. Len(sndBuf) + size :
           sndBuf'[i] = IF i <= Len(sndBuf) THEN sndBuf[i] ELSE new[i - Len(sndBuf)]
  BY <1>1, <1>2, <1>3, ConcatProperties DEF SndInv, SndTypes
<1>5. UNCHANGED <<sndBlock, sndCurrSeqNo, sndAcks, sndLoss, packing, sndState,
                  rcvVars, toRcv, toSnd>>
  BY DEF send
<1>6. released' = released /\ packed' = packed
  BY <1>1, <1>2, <1>4, <1>5, SndCounts DEF released, packed, SndInv, SndTypes
<1>7. SndInv(isn)'
  <2>1. SndTypes'
    BY <1>1, <1>2, <1>4, <1>5, StreamAssumption DEF SndInv, SndTypes
  <2>2. SndBufInv'
    <3>1. released \in Nat /\ released + Len(sndBuf) = written /\ Len(sndBuf) \in Nat
      BY <1>1, SndCounts DEF SndInv
    <3>2. ASSUME NEW i \in 1 .. Len(sndBuf) + size PROVE sndBuf'[i] = released + i
      <4>1. CASE i <= Len(sndBuf)
        BY <1>1, <1>4, <3>1, <4>1 DEF SndInv, SndBufInv
      <4>2. CASE ~(i <= Len(sndBuf))
        <5>1. i - Len(sndBuf) \in 1 .. size
          BY <3>1, <4>2, <1>2
        <5> QED
          BY <1>3, <1>4, <3>1, <4>2, <5>1
      <4> QED
        BY <4>1, <4>2
    <3> QED
      BY <1>4, <1>6, <3>2 DEF SndBufInv
  <2>3. SndSeqInv(isn)'
    BY <1>1, <1>5, <1>6 DEF SndInv, SndSeqInv, sndAcks
  <2>4. SndLossInv(isn)'
    BY <1>1, <1>5, <1>6 DEF SndInv, SndLossInv
  <2> QED
    BY <2>1, <2>2, <2>3, <2>4 DEF SndInv
<1>8. packed <= packed' /\ released' <= acked /\ (Over => Over')
  BY <1>1, <1>5, <1>6, SndCounts DEF SndInv, EndsInv, Over
<1>9. Inv(isn, c)'
  BY <1>5, <1>7, <1>8, SndStep
<1> QED
  BY <1>1, <1>2, <1>9 DEF SndInv, SndTypes

\* The actions that change nothing of the sender but its state, its loss list
\* and the places it has in other lists.
LEMMA SndBookKeeping ==
  ASSUME NEW isn \in SeqNos, NEW c \in Nat, Inv(isn, c),
         UNCHANGED <<sndAcks, sndData, rcvVars, toRcv>>,
         toSnd' \subseteq toSnd,
         sndState' \in {"open", "lingering", "broken", "closed", "dropped"},
         Over => Over', SndLossInv(isn)'
  PROVE  Inv(isn, c)'
<1>1. SndInv(isn) /\ EndsInv(c)
  BY DEF Inv
<1>2. packed' = packed /\ released' = released
  BY DEF packed, released, sndData
<1>3. SndInv(isn)'
  BY <1>1, <1>2 DEF SndInv, SndTypes, SndBufInv, SndSeqInv, sndData, sndAcks
<1>4. packed <= packed' /\ released' <= acked
  BY <1>1, <1>2, SndCounts DEF SndInv, EndsInv
<1> QED
  BY <1>3, <1>4, SndStep

LEMMA CloseKeeps ==
  ASSUME NEW isn \in SeqNos, NEW c \in Nat, Inv(isn, c), close
  PROVE  Inv(isn, c)'
<1>1. SndLossInv(isn)'
  BY DEF Inv, SndInv, close, SndLossInv, packed, released, sndData
<1> QED
  BY <1>1, SndBookKeeping DEF close, Over

LEMMA UpdateKeeps ==
  ASSUME NEW isn \in SeqNos, NEW c \in Nat, Inv(isn, c), NEW t, update(t)
  PROVE  Inv(isn, c)'
<1>1. SndLossInv(isn)'
  BY DEF Inv, SndInv, update, SndLossInv, packed, released, sndData
<1>2. UNCHANGED <<sndAcks, sndData, rcvVars, toRcv, toSnd, sndState>>
  BY DEF update
<1>3. SndTypes
  BY DEF Inv, SndInv
<1> QED
  BY <1>1, <1>2, <1>3, SndBookKeeping DEF Over, SndTypes

LEMMA BreakSndKeeps ==
  ASSUME NEW isn \in SeqNos, NEW c \in Nat, Inv(isn, c), breakSnd
  PROVE  Inv(isn, c)'
<1>1. SndLossInv(isn)'
  BY DEF Inv, SndInv, breakSnd, SndLossInv, packed, released, sndData
<1> QED
  BY <1>1, SndBookKeeping DEF breakSnd, Handling, Alive, Over

LEMMA LingeredKeeps ==
  ASSUME NEW isn \in SeqNos, NEW c \in Nat, Inv(isn, c), lingered
  PROVE  Inv(isn, c)'
<1>1. SndInv(isn) /\ EndsInv(c)
  BY DEF Inv
<1>2. /\ UNCHANGED <<sndAcks, sndData, sndLoss, packing, rcvVars, toSnd>>
      /\ Over'
      /\ toRcv' \subseteq toRcv \cup {Shutdown}
  BY WithAdds DEF lingered, Over
<1>3. packed' = packed /\ released' = released
  BY <1>2 DEF packed, released, sndData
<1>4. SndInv(isn)'
  BY <1>1, <1>2, <1>3
  DEF SndInv, SndTypes, SndBufInv, SndSeqInv, SndLossInv, sndData, sndAcks, Over
<1>5. packed <= packed' /\ released' <= acked
  BY <1>1, <1>3, SndCounts DEF SndInv, EndsInv
<1>6. SaysRcv(isn, packed', acked, Shutdown)
  BY DEF SaysRcv, Shutdown
<1> QED
  BY <1>2, <1>4, <1>5, <1>6, SndStep

\* The next packet: its place, its number and its data.
LEMMA PackNewKeeps ==
  ASSUME NEW isn \in SeqNos, NEW c \in Nat, Inv(isn, c), pop, packNew,
         UNCHANGED <<packing, sndLoss>>
  PROVE  Inv(isn, c)'
<1>1. SndInv(isn) /\ EndsInv(c)
  BY DEF Inv
<1>2. UNCHANGED <<sndAcks, written, sndBuf, sndState, rcvVars, toSnd, packing, sndLoss>>
  BY DEF pop
<1>3. packed \in Nat /\ packed <= Packets /\ packed \in Places /\ released \in Nat
      /\ released <= packed /\ Len(sndBuf) \in Nat /\ sndBlock = packed - released
  BY <1>1, SndCounts, SmallIsPlace DEF SndInv
<1>4. CASE Within /\ sndBlock < Len(sndBuf)
  <2>1. /\ sndCurrSeqNo' = incseq(sndCurrSeqNo) /\ sndBlock' = sndBlock + 1
        /\ toRcv' \in With(toRcv, toSnd, Data(incseq(sndCurrSeqNo), sndBuf[sndBlock + 1]))
    BY <1>4 DEF packNew
  <2>2. incseq(sndCurrSeqNo) = At(isn, packed)
    BY <1>1, <1>3, NextPlace DEF SndInv, SndSeqInv
  <2>3. sndBuf[sndBlock + 1] = packed + 1
    <3>1. sndBlock + 1 \in 1 .. Len(sndBuf)
      BY <1>1, <1>3, <1>4 DEF SndInv, SndTypes
    <3> QED
      BY <1>1, <1>3, <3>1 DEF SndInv, SndBufInv
  <2>4. released' = released /\ packed' = packed + 1
    BY <1>1, <1>2, <1>3, <2>1 DEF released, packed, SndInv, SndTypes
  <2>5. SndInv(isn)'
    <3>1. SndTypes'
      BY <1>1, <1>2, <1>3, <1>4, <2>1 DEF SndInv, SndTypes
    <3>2. SndBufInv'
      BY <1>1, <1>2, <2>4 DEF SndInv, SndBufInv
    <3>3. SndSeqInv(isn)'
      <4>1. sndCurrSeqNo' = Cur(isn, packed')
        BY <1>3, <2>1, <2>2, <2>4 DEF Cur
      <4> QED
        BY <1>1, <1>2, <1>3, <2>4, <4>1 DEF SndInv, SndSeqInv, sndAcks
    <3>4. SndLossInv(isn)'
      BY <1>1, <1>2, <1>3, <2>4 DEF SndInv, SndLossInv
    <3> QED
      BY <3>1, <3>2, <3>3, <3>4 DEF SndInv
  <2>6. SaysRcv(isn, packed', acked, Data(At(isn, packed), packed + 1))
    BY <1>3, <2>4 DEF SaysRcv, Data
  <2>7. /\ toRcv' \subseteq toRcv \cup {Data(At(isn, packed), packed + 1)}
        /\ Data(At(isn, packed), packed + 1).kind # "shutdown"
    BY <2>1, <2>2, <2>3, WithAdds DEF Data
  <2>8. packed <= packed' /\ released' <= acked /\ (Over => Over') /\ toSnd' \subseteq toSnd
    BY <1>1, <1>2, <1>3, <2>4 DEF EndsInv, Over
  <2> QED
    BY <1>2, <2>5, <2>6, <2>7, <2>8, SndStep
<1>5. CASE ~(Within /\ sndBlock < Len(sndBuf))
  <2>1. UNCHANGED <<sndCurrSeqNo, sndBlock, toRcv>>
    BY <1>5 DEF packNew
  <2>2. SndLossInv(isn)'
    BY <1>1, <1>2, <2>1 DEF SndInv, SndLossInv, packed, released
  <2> QED
    BY <1>1, <1>2, <2>1, <2>2, SndBookKeeping DEF sndData, Over, SndInv, SndTypes
<1> QED
  BY <1>4, <1>5

LEMMA PopKeeps ==
  ASSUME NEW isn \in SeqNos, NEW c \in Nat, Inv(isn, c), pop
  PROVE  Inv(isn, c)'
<1>1. SndInv(isn)
  BY DEF Inv
<1>2. UNCHANGED <<sndAcks, written, sndBuf, sndState, rcvVars, toSnd>>
  BY DEF pop
<1>3. CASE /\ Alive(sndState) /\ sndLoss # {}
           /\ packing' = First(sndLoss) /\ sndLoss' = sndLoss \ {First(sndLoss)}
           /\ UNCHANGED <<sndCurrSeqNo, sndBlock, toRcv>>
  <2>1. packed \in Places /\ released \in Nat /\ packed \in Nat
    BY <1>1, SndCounts, SmallIsPlace DEF SndInv
  <2>2. sndLoss \subseteq {At(isn, k) : k \in released .. packed - 1}
    BY <1>1 DEF SndInv, SndLossInv
  <2>3. \E f \in released .. packed - 1 : First(sndLoss) = At(isn, f)
    BY <1>3, <2>1, <2>2, FirstIsLeast
  <2>4. \E f \in 0 .. packed - 1 : packing' = At(isn, f)
    BY <1>3, <2>1, <2>3
  <2>5. packed' = packed /\ released' = released
    BY <1>2, <1>3 DEF packed, released
  <2>6. SndLossInv(isn)'
    BY <1>3, <2>2, <2>4, <2>5 DEF SndLossInv
  <2> QED
    BY <1>1, <1>2, <1>3, <2>6, SndBookKeeping DEF sndData, Over, SndInv, SndTypes
<1>4. CASE packNew /\ UNCHANGED <<packing, sndLoss>>
  BY <1>4, PackNewKeeps
<1>5. CASE UNCHANGED <<sndCurrSeqNo, sndBlock, toRcv, packing, sndLoss>>
  <2>1. SndLossInv(isn)'
    BY <1>1, <1>2, <1>5 DEF SndInv, SndLossInv, packed, released
  <2> QED
    BY <1>1, <1>2, <1>5, <2>1, SndBookKeeping DEF sndData, Over, SndInv, SndTypes
<1> QED
  BY <1>3, <1>4, <1>5 DEF pop

\* A lost packet that is still in the buffer is sent with the data it had.
LEMMA PackLostKeeps ==
  ASSUME NEW isn \in SeqNos, NEW c \in Nat, Inv(isn, c), packLost
  PROVE  Inv(isn, c)'
<1>1. SndInv(isn) /\ EndsInv(c)
  BY DEF Inv
<1>2. UNCHANGED <<sndAcks, sndData, sndLoss, sndState, rcvVars, toSnd>> /\ packing' = Nothing
  BY DEF packLost
<1>3. /\ packed \in Nat /\ packed <= Packets /\ packed \in Places
      /\ released \in Nat /\ released <= packed /\ sndBlock = packed - released
      /\ released \in Places /\ Len(sndBuf) \in Nat
  <2>1. packed \in Nat /\ packed <= Packets /\ released \in Nat /\ released <= packed
        /\ sndBlock = packed - released /\ Len(sndBuf) \in Nat
    BY <1>1, SndCounts DEF SndInv
  <2> QED
    BY <2>1, SmallIsPlace, StreamAssumption
<1>4. PICK k \in 0 .. packed - 1 : packing = At(isn, k)
  BY <1>1 DEF SndInv, SndLossInv, packLost
<1>5. k \in Places /\ k \in Nat
  <2>1. 0 <= k /\ k <= Packets /\ k \in Int
    BY <1>3, StreamAssumption
  <2> QED
    BY <2>1, SmallIsPlace
<1>6. packed' = packed /\ released' = released
  BY <1>2 DEF packed, released, sndData
<1>7. SndLossInv(isn)'
  BY <1>1, <1>2, <1>6 DEF SndInv, SndLossInv
<1> DEFINE offset == seqoff(sndLastDataAck, packing)
<1>8. offset = k - released
  BY <1>1, <1>3, <1>4, <1>5, ComparePlaces DEF SndInv, SndSeqInv
<1>9. CASE offset < 0
  BY <1>1, <1>2, <1>7, <1>9, SndBookKeeping DEF packLost, Over, SndInv, SndTypes
<1>10. CASE ~(offset < 0)
  <2>1. toRcv' \in With(toRcv, toSnd, Data(packing, BlockAt(offset)))
    BY <1>10 DEF packLost
  <2>2. BlockAt(offset) = k + 1
    <3>1. offset + 1 \in 1 .. Len(sndBuf) /\ offset < Len(sndBuf)
      BY <1>1, <1>3, <1>4, <1>8, <1>10 DEF SndInv, SndTypes
    <3>2. sndBuf[offset + 1] = released + (offset + 1)
      BY <1>1, <3>1 DEF SndInv, SndBufInv
    <3> QED
      BY <1>3, <1>5, <1>8, <3>1, <3>2 DEF BlockAt
  <2>3. toRcv' \subseteq toRcv \cup {Data(packing, k + 1)}
    BY <2>1, <2>2, WithAdds
  <2>4. /\ SaysRcv(isn, packed', acked, Data(packing, k + 1))
        /\ Data(packing, k + 1).kind # "shutdown"
    BY <1>4, <1>6 DEF SaysRcv, Data
  <2>5. SndInv(isn)'
    BY <1>1, <1>2, <1>6, <1>7 DEF SndInv, SndTypes, SndBufInv, SndSeqInv, sndData, sndAcks
  <2>6. packed <= packed' /\ released' <= acked /\ (Over => Over') /\ toSnd' \subseteq toSnd
    BY <1>1, <1>2, <1>3, <1>6 DEF EndsInv, Over
  <2> QED
    BY <1>2, <2>3, <2>4, <2>5, <2>6, SndStep
<1> QED
  BY <1>9, <1>10

-----------------------------------------------------------------------------
(* What the sender hears.                                                  *)

\* An acknowledged place is never beyond what was packed.
LEMMA AckedIsPacked ==
  ASSUME NEW isn, NEW c \in Nat, Inv(isn, c)
  PROVE  /\ acked \in Nat /\ packed \in Nat /\ released \in Nat
         /\ released <= acked /\ acked <= c /\ c <= packed /\ packed <= Packets
         /\ \A k \in 0 .. packed : k \in Places /\ k + 1 \in Places
         /\ Len(sndBuf) \in Nat /\ sndBlock = packed - released
         /\ released + Len(sndBuf) = written /\ packed <= written /\ written \in Nat
<1>1. SndTypes /\ RcvTypes
  BY DEF Inv, SndInv, RcvInv
<1>2. /\ acked \in Nat /\ packed \in Nat /\ released \in Nat
      /\ released <= acked /\ acked <= c /\ c <= packed /\ packed <= Packets
      /\ Len(sndBuf) \in Nat /\ sndBlock = packed - released
      /\ released + Len(sndBuf) = written /\ packed <= written /\ written \in Nat
  BY <1>1, SndCounts, RcvCounts DEF Inv, RcvInv, RcvSeqInv, EndsInv, SndTypes
<1>3. \A k \in 0 .. packed : k \in Int /\ 0 <= k /\ k <= Packets
  BY <1>2, StreamAssumption
<1> QED
  BY <1>2, <1>3, SmallIsPlace

LEMMA DropFirst ==
  ASSUME NEW s \in Seq(Nat), NEW n \in 0 .. Len(s)
  PROVE  /\ SubSeq(s, n + 1, Len(s)) \in Seq(Nat)
         /\ Len(SubSeq(s, n + 1, Len(s))) = Len(s) - n
         /\ \A i \in 1 .. Len(s) - n : SubSeq(s, n + 1, Len(s))[i] = s[n + i]
<1>1. \A i \in n + 1 .. Len(s) : s[i] \in Nat
  OBVIOUS
<1>2. n + 1 \in Int /\ Len(s) \in Int
  OBVIOUS
<1>3. /\ SubSeq(s, n + 1, Len(s)) \in Seq(Nat)
      /\ Len(SubSeq(s, n + 1, Len(s))) = IF n + 1 <= Len(s) THEN Len(s) - (n + 1) + 1 ELSE 0
      /\ \A i \in 1 .. Len(s) - (n + 1) + 1 :
           SubSeq(s, n + 1, Len(s))[i] = s[(n + 1) + i - 1]
  BY <1>1, <1>2, SubSeqProperties
<1> DEFINE t == SubSeq(s, n + 1, Len(s))
<1> HIDE DEF t
<1> QED
  BY <1>3

LEMMA HearAckKeeps ==
  ASSUME NEW isn \in SeqNos, NEW c \in Nat, Inv(isn, c), NEW p \in toSnd, hearAck(p)
  PROVE  Inv(isn, c)'
<1>1. SndInv(isn) /\ EndsInv(c) /\ ToSndInv(isn, c)
  BY DEF Inv
<1>2. /\ acked \in Nat /\ packed \in Nat /\ released \in Nat
      /\ released <= acked /\ acked <= c /\ c <= packed
      /\ \A i \in 0 .. packed : i \in Places /\ i + 1 \in Places
      /\ Len(sndBuf) \in Nat /\ sndBlock = packed - released
      /\ released + Len(sndBuf) = written /\ packed <= written /\ written \in Nat
  BY AckedIsPacked
<1>3. PICK k \in 0 .. acked : p.ack = At(isn, k)
  BY <1>1 DEF ToSndInv, SaysSnd, hearAck
<1>4. PICK a \in released .. packed : sndLastAck = At(isn, a)
  BY <1>1 DEF SndInv, SndSeqInv
<1>5. k \in Places /\ a \in Places /\ released \in Places /\ packed \in Places /\ k <= packed
  BY <1>2
<1>6. Sane(p.ack)
  <2>1. incseq(sndCurrSeqNo) = At(isn, packed)
    BY <1>1, <1>5, NextPlace DEF SndInv, SndSeqInv
  <2>2. /\ seqcmp(At(isn, k), At(isn, packed)) \in Int
        /\ ~(seqcmp(At(isn, k), At(isn, packed)) > 0)
    BY <1>2, <1>5, ComparePlaces
  <2> QED
    BY <1>3, <2>1, <2>2 DEF Sane
<1>7. seqoff(sndLastDataAck, p.ack) = k - released
  BY <1>1, <1>3, <1>5, ComparePlaces DEF SndInv, SndSeqInv
<1>8. UNCHANGED <<written, sndCurrSeqNo, packing, sndState, rcvVars>>
  BY <1>6 DEF hearAck
<1>9. \E b \in released .. packed : b >= k /\ sndLastAck' = At(isn, b)
  <2>1. CASE seqcmp(p.ack, sndLastAck) >= 0
    <3>1. k >= a
      BY <1>3, <1>4, <1>5, <2>1, ComparePlaces DEF Places
    <3>2. sndLastAck' = At(isn, k)
      BY <1>3, <1>6, <2>1 DEF hearAck
    <3> QED
      BY <1>2, <1>5, <3>1, <3>2
  <2>2. CASE ~(seqcmp(p.ack, sndLastAck) >= 0)
    <3>1. a >= k
      <4>1. seqcmp(At(isn, k), At(isn, a)) < 0
        BY <1>3, <1>4, <1>5, <2>2, ComparePlaces
      <4> QED
        BY <1>5, <4>1, ComparePlaces DEF Places
    <3>2. sndLastAck' = sndLastAck
      BY <2>2 DEF hearAck
    <3> QED
      BY <1>2, <1>4, <3>1, <3>2
  <2> QED
    BY <2>1, <2>2
<1>10. /\ released' <= acked /\ released' \in Nat /\ released' <= packed
       /\ packed' = packed /\ SndInv(isn)'
  <2>1. CASE k - released > 0
    <3>1. /\ sndBuf' = SubSeq(sndBuf, (k - released) + 1, Len(sndBuf))
          /\ sndBlock' = sndBlock - (k - released)
          /\ sndLastDataAck' = p.ack
          /\ sndLoss' = {s \in sndLoss : seqcmp(s, p.ack) >= 0}
      BY <1>6, <1>7, <2>1 DEF hearAck
    <3>0. k \in Int /\ k - released \in 1 .. Len(sndBuf) /\ k <= written
      BY <1>2, <1>5, <2>1
    <3>2. /\ sndBuf' \in Seq(Nat) /\ Len(sndBuf') = Len(sndBuf) - (k - released)
          /\ \A i \in 1 .. Len(sndBuf) - (k - released) : sndBuf'[i] = sndBuf[(k - released) + i]
      <4>1. sndBuf \in Seq(Nat) /\ k - released \in 0 .. Len(sndBuf)
        BY <1>1, <3>0 DEF SndInv, SndTypes
      <4> QED
        BY <3>1, <4>1, DropFirst, Zenon
    <3> DEFINE left == Len(sndBuf')
    <3>21. left = Len(sndBuf) - (k - released) /\ Len(sndBuf') = left
      BY <3>2
    <3> HIDE DEF left
    <3>3. released' = k /\ packed' = packed
      <4>1. released' = k
        <5>1. released' = written - left
          BY <1>8, <3>21 DEF released
        <5>2. /\ written = released + Len(sndBuf) /\ left = Len(sndBuf) - (k - released)
              /\ released \in Int /\ Len(sndBuf) \in Int /\ k \in Int
          BY <1>2, <3>0, <3>21
        <5>3. \A w, r, l, m, t \in Int : w = r + l /\ m = l - (t - r) => w - m = t
          OBVIOUS
        <5>4. written \in Int /\ left \in Int
          BY <5>2
        <5> QED
          BY <5>1, <5>2, <5>3, <5>4, Zenon
      <4>2. packed' = k + (sndBlock - (k - released))
        BY <3>1, <4>1 DEF packed
      <4> QED
        BY <1>2, <3>0, <4>1, <4>2
    <3>4. SndTypes'
      <4>1. left <= written /\ sndBlock' \in 0 .. left
        BY <1>2, <1>5, <3>0, <3>1, <3>21
      <4> QED
        BY <1>1, <1>8, <3>2, <3>21, <4>1 DEF SndInv, SndTypes
    <3>5. SndBufInv'
      <4>1. ASSUME NEW i \in 1 .. left PROVE sndBuf'[i] = k + i
        <5>1. (k - released) + i \in 1 .. Len(sndBuf)
          BY <1>2, <3>0, <3>21
        <5>2. sndBuf[(k - released) + i] = released + ((k - released) + i)
          BY <1>1, <5>1 DEF SndInv, SndBufInv
        <5> QED
          BY <1>2, <3>0, <3>2, <3>21, <5>2
      <4> QED
        BY <3>21, <3>3, <4>1 DEF SndBufInv
    <3>6. SndSeqInv(isn)'
      <4>1. \E b \in k .. packed : sndLastAck' = At(isn, b)
        BY <1>2, <1>9
      <4> QED
        BY <1>1, <1>3, <1>8, <3>1, <3>3, <4>1 DEF SndInv, SndSeqInv
    <3>7. SndLossInv(isn)'
      <4>1. ASSUME NEW s \in sndLoss'
            PROVE  \E m \in k .. packed - 1 : s = At(isn, m)
        <5>1. PICK m \in released .. packed - 1 : s = At(isn, m)
          BY <1>1, <3>1 DEF SndInv, SndLossInv
        <5>2. seqcmp(At(isn, m), At(isn, k)) >= 0
          BY <1>3, <3>1, <5>1
        <5>3. m \in Places
          BY <1>2
        <5>4. m >= k
          BY <1>5, <5>2, <5>3, ComparePlaces DEF Places
        <5> QED
          BY <1>2, <5>1, <5>4
      <4> QED
        BY <1>1, <1>8, <3>3, <4>1 DEF SndInv, SndLossInv
    <3> QED
      BY <1>2, <1>5, <3>3, <3>4, <3>5, <3>6, <3>7 DEF SndInv
  <2>2. CASE ~(k - released > 0)
    <3>1. UNCHANGED <<sndBuf, sndBlock, sndLastDataAck, sndLoss>>
      BY <1>6, <1>7, <2>2 DEF hearAck
    <3>2. released' = released /\ packed' = packed
      BY <1>8, <3>1 DEF released, packed
    <3>3. SndInv(isn)'
      BY <1>1, <1>8, <1>9, <3>1, <3>2
      DEF SndInv, SndTypes, SndBufInv, SndSeqInv, SndLossInv
    <3> QED
      BY <1>2, <3>2, <3>3
  <2> QED
    BY <2>1, <2>2
<1>11. SaysRcv(isn, packed', acked, Ack2(p.ack)) /\ Ack2(p.ack).kind # "shutdown"
  BY <1>3 DEF SaysRcv, Ack2
<1>12. toRcv' \subseteq toRcv \cup {Ack2(p.ack)} /\ toSnd' \subseteq toSnd
  BY WithAdds, AfterKeeps DEF hearAck
<1>13. packed <= packed' /\ (Over => Over')
  BY <1>2, <1>8, <1>10 DEF Over
<1> QED
  BY <1>8, <1>10, <1>11, <1>12, <1>13, SndStep

LEMMA HearLiteAckKeeps ==
  ASSUME NEW isn \in SeqNos, NEW c \in Nat, Inv(isn, c), NEW p \in toSnd, hearLiteAck(p)
  PROVE  Inv(isn, c)'
<1>1. SndInv(isn) /\ EndsInv(c) /\ ToSndInv(isn, c)
  BY DEF Inv
<1>2. /\ acked \in Nat /\ packed \in Nat /\ released \in Nat
      /\ released <= acked /\ c <= packed
      /\ \A i \in 0 .. packed : i \in Places /\ i + 1 \in Places
  BY AckedIsPacked
<1>3. PICK k \in 0 .. c : p.ack = At(isn, k)
  BY <1>1 DEF ToSndInv, SaysSnd, hearLiteAck
<1>4. PICK a \in released .. packed : sndLastAck = At(isn, a)
  BY <1>1 DEF SndInv, SndSeqInv
<1>5. k \in Places /\ a \in Places /\ k <= packed
  BY <1>2
<1>6. UNCHANGED <<sndLastDataAck, sndData, sndLoss, packing, sndState, rcvVars, toRcv>>
  BY DEF hearLiteAck
<1>7. \E b \in released .. packed : sndLastAck' = At(isn, b)
  <2>1. CASE seqcmp(p.ack, sndLastAck) >= 0
    <3>1. k >= a
      BY <1>3, <1>4, <1>5, <2>1, ComparePlaces DEF Places
    <3>2. sndLastAck' = At(isn, k)
      BY <1>3, <2>1 DEF hearLiteAck
    <3> QED
      BY <1>2, <1>5, <3>1, <3>2
  <2>2. CASE ~(seqcmp(p.ack, sndLastAck) >= 0)
    BY <1>4, <2>2 DEF hearLiteAck
  <2> QED
    BY <2>1, <2>2
<1>8. packed' = packed /\ released' = released
  BY <1>6 DEF packed, released, sndData
<1>9. SndInv(isn)'
  BY <1>1, <1>6, <1>7, <1>8 DEF SndInv, SndTypes, SndBufInv, SndSeqInv, SndLossInv, sndData
<1>10. packed <= packed' /\ released' <= acked /\ (Over => Over') /\ toSnd' \subseteq toSnd
  BY <1>2, <1>6, <1>8, AfterKeeps DEF hearLiteAck, Over
<1> QED
  BY <1>6, <1>9, <1>10, SndStep

\* A loss report names places before c, so it is sane, and what enters the
\* loss list is what the sender may not forget yet.
LEMMA HearNakKeeps ==
  ASSUME NEW isn \in SeqNos, NEW c \in Nat, Inv(isn, c), NEW p \in toSnd, hearNak(p)
  PROVE  Inv(isn, c)'
<1>1. SndInv(isn) /\ ToSndInv(isn, c)
  BY DEF Inv
<1>2. /\ acked \in Nat /\ packed \in Nat /\ released \in Nat
      /\ released <= acked /\ c <= packed
      /\ \A i \in 0 .. packed : i \in Places /\ i + 1 \in Places
  BY AckedIsPacked
<1>3. PICK i \in 0 .. c - 1, j \in 0 .. c - 1 :
        i <= j /\ p.from = At(isn, i) /\ p.to = At(isn, j)
  BY <1>1 DEF ToSndInv, SaysSnd, hearNak
<1>4. PICK a \in released .. packed : sndLastAck = At(isn, a)
  BY <1>1 DEF SndInv, SndSeqInv
<1>5. /\ i \in Places /\ j \in Places /\ j + 1 \in Places /\ a \in Places /\ packed \in Places
      /\ j < packed /\ i \in Int /\ j \in Int /\ a \in Int
  BY <1>2
<1>6. ~Insane(p)
  <2>1. ~(seqcmp(p.from, p.to) > 0)
    BY <1>3, <1>5, ComparePlaces
  <2>2. seqcmp(p.to, sndCurrSeqNo) > 0 => ~(j < packed)
    BY <1>1, <1>3, <1>5, CompareWithCur DEF SndInv, SndSeqInv
  <2> QED
    BY <1>5, <2>1, <2>2 DEF Insane
<1>7. UNCHANGED <<sndAcks, sndData, packing, sndState, rcvVars, toRcv>>
      /\ sndLoss' = sndLoss \cup Reported(p)
  BY <1>6 DEF hearNak
<1>8. Reported(p) \subseteq {At(isn, k) : k \in released .. packed - 1}
  <2>1. CASE seqcmp(p.to, sndLastAck) < 0
    BY <2>1 DEF Reported
  <2>2. CASE ~(seqcmp(p.to, sndLastAck) < 0)
    <3>1. j >= a
      BY <1>3, <1>4, <1>5, <2>2, ComparePlaces
    <3>2. CASE seqcmp(p.from, sndLastAck) >= 0
      <4>1. i >= a
        BY <1>3, <1>4, <1>5, <3>2, ComparePlaces
      <4>2. Reported(p) = {At(isn, k) : k \in i .. j}
        BY <1>3, <1>5, <2>2, <3>2, RangeOfPlaces DEF Reported
      <4>3. i .. j \subseteq released .. packed - 1
        BY <1>2, <1>5, <4>1
      <4> QED
        BY <4>2, <4>3
    <3>3. CASE ~(seqcmp(p.from, sndLastAck) >= 0)
      <4>1. Reported(p) = {At(isn, k) : k \in a .. j}
        BY <1>3, <1>4, <1>5, <2>2, <3>1, <3>3, RangeOfPlaces DEF Reported
      <4>2. a .. j \subseteq released .. packed - 1
        BY <1>2, <1>5
      <4> QED
        BY <4>1, <4>2
    <3> QED
      BY <3>2, <3>3
  <2> QED
    BY <2>1, <2>2
<1>9. SndLossInv(isn)'
  <2>1. packed' = packed /\ released' = released
    BY <1>7 DEF packed, released, sndData
  <2> QED
    BY <1>1, <1>7, <1>8, <2>1 DEF SndInv, SndLossInv
<1>10. toSnd' \subseteq toSnd
  BY AfterKeeps DEF hearNak
<1> QED
  BY <1>1, <1>7, <1>9, <1>10, SndBookKeeping DEF Over, SndInv, SndTypes

LEMMA ExpireKeeps ==
  ASSUME NEW isn \in SeqNos, NEW c \in Nat, Inv(isn, c), expire
  PROVE  Inv(isn, c)'
<1>1. SndInv(isn)
  BY DEF Inv
<1>2. /\ packed \in Nat /\ released \in Nat
      /\ \A i \in 0 .. packed : i \in Places /\ i + 1 \in Places
  BY AckedIsPacked
<1>3. PICK a \in released .. packed : sndLastAck = At(isn, a)
  BY <1>1 DEF SndInv, SndSeqInv
<1>4. UNCHANGED <<sndAcks, sndData, packing, sndState, rcvVars, toRcv, toSnd>>
  BY DEF expire
<1>5. sndLoss' \subseteq {At(isn, k) : k \in released .. packed - 1}
  <2>1. CASE incseq(sndCurrSeqNo) # sndLastAck /\ sndLoss = {}
    <3>1. sndLoss' = SeqRange(sndLastAck, sndCurrSeqNo)
      BY <2>1 DEF expire
    <3>2. packed \in Places /\ sndCurrSeqNo = Cur(isn, packed)
      BY <1>1, <1>2 DEF SndInv, SndSeqInv
    <3>3. incseq(sndCurrSeqNo) = At(isn, packed)
      BY <3>2, NextPlace
    <3>4. a < packed
      BY <1>2, <1>3, <2>1, <3>3
    <3>5. sndCurrSeqNo = At(isn, packed - 1)
      BY <1>2, <3>2, <3>4 DEF Cur
    <3>6. a \in Places /\ packed - 1 \in Places /\ a <= packed - 1
      BY <1>2, <3>4
    <3>7. sndLoss' = {At(isn, k) : k \in a .. packed - 1}
      BY <1>3, <3>1, <3>5, <3>6, RangeOfPlaces
    <3>8. a .. packed - 1 \subseteq released .. packed - 1
      BY <1>2
    <3> QED
      BY <3>7, <3>8
  <2>2. CASE ~(incseq(sndCurrSeqNo) # sndLastAck /\ sndLoss = {})
    BY <1>1, <2>2 DEF expire, SndInv, SndLossInv
  <2> QED
    BY <2>1, <2>2
<1>6. SndLossInv(isn)'
  <2>1. packed' = packed /\ released' = released
    BY <1>4 DEF packed, released, sndData
  <2> QED
    BY <1>1, <1>4, <1>5, <2>1 DEF SndInv, SndLossInv
<1> QED
  BY <1>1, <1>4, <1>6, SndBookKeeping DEF Over, SndInv, SndTypes

-----------------------------------------------------------------------------
(* The receiver's actions.                                                 *)
LEMMA OffsetsAreInts == Offsets \subseteq Nat /\ \A o \in Offsets : o < RcvBufSize
BY StreamAssumption DEF Offsets

\* A packet that fits is put at its place; the places it skips are lost.
LEMMA ProcessDataKeeps ==
  ASSUME NEW isn \in SeqNos, NEW c \in Nat, Inv(isn, c), NEW p \in toRcv, processData(p)
  PROVE  \E d \in Nat : Inv(isn, d)'
<1>1. RcvInv(isn, c) /\ ToRcvInv(isn) /\ EndsInv(c)
  BY DEF Inv
<1>2. /\ acked \in Nat /\ packed \in Nat /\ acked <= c /\ c <= packed
      /\ \A i \in 0 .. packed : i \in Places /\ i + 1 \in Places
  BY AckedIsPacked
<1>3. PICK k \in 0 .. packed - 1 : p.seq = At(isn, k) /\ p.data = k + 1
  BY <1>1 DEF ToRcvInv, SaysRcv, processData
<1>4. /\ k \in Int /\ k >= 0 /\ k < packed /\ k \in Places /\ k + 1 \in Places
      /\ acked \in Places /\ c \in Places
  BY <1>2
<1>5. UNCHANGED <<sndVars, ready, rcvLastAck, rcvLastAckAck, rcvState, got>>
      /\ toRcv' \subseteq toRcv /\ acked' = acked
  BY AfterKeeps DEF processData, acked
<1> DEFINE offset == seqoff(rcvLastAck, p.seq)
<1>6. offset = k - acked
  BY <1>1, <1>3, <1>4, ComparePlaces DEF RcvInv, RcvSeqInv
<1>7. rcvState' = "shutdown" => Over
  BY <1>1, <1>5 DEF EndsInv
<1>8. CASE offset \notin 0 .. AvailBufSize - 1 \/ rcvBuf[offset] # Hole
  <2>1. UNCHANGED <<rcvBuf, rcvLoss, rcvCurrSeqNo, toSnd>>
    BY <1>8 DEF processData
  <2>2. RcvInv(isn, c)'
    BY <1>1, <1>5, <2>1 DEF RcvInv, RcvTypes, RcvBufInv, RcvSeqInv, RcvLossInv
  <2>3. Inv(isn, c)'
    BY <1>2, <1>5, <1>7, <2>1, <2>2, RcvStep
  <2> QED
    BY <2>3
<1>9. CASE ~(offset \notin 0 .. AvailBufSize - 1 \/ rcvBuf[offset] # Hole)
  <2>1. /\ k >= acked /\ k - acked \in Offsets /\ k < acked + RcvBufSize - 1
        /\ rcvBuf[k - acked] = Hole
    <3>1. k - acked \in 0 .. AvailBufSize - 1 /\ rcvBuf[k - acked] = Hole
      BY <1>6, <1>9
    <3>2. AvailBufSize <= RcvBufSize - 1 /\ AvailBufSize \in Int
      BY <1>1, RcvCounts, StreamAssumption DEF AvailBufSize, RcvInv
    <3> QED
      BY <1>2, <1>4, <3>1, <3>2, StreamAssumption DEF Offsets
  <2>2. rcvBuf' = [rcvBuf EXCEPT ![k - acked] = k + 1]
    BY <1>3, <1>6, <1>9 DEF processData
  <2> DEFINE d == IF k >= c THEN k + 1 ELSE c
  <2>3. d \in Nat /\ c <= d /\ d <= packed /\ k < d /\ acked <= d /\ d <= acked + RcvBufSize - 1
    BY <1>1, <1>2, <1>4, <2>1, StreamAssumption DEF RcvInv, RcvSeqInv
  <2>4. /\ seqcmp(p.seq, rcvCurrSeqNo) > 0 <=> k >= c
        /\ incseq(rcvCurrSeqNo) = At(isn, c)
    BY <1>1, <1>3, <1>4, CompareWithCur, NextPlace DEF RcvInv, RcvSeqInv
  <2>5. k > c => k - 1 \in Places /\ decseq(p.seq) = At(isn, k - 1)
    <3>1. k > c => k - 1 \in 0 .. packed
      BY <1>2, <1>4
    <3> QED
      BY <1>2, <1>3, <1>4, <3>1, NextPlace
  <2>6. Gap(p.seq) = {At(isn, i) : i \in c .. k - 1}
    <3>1. seqcmp(p.seq, At(isn, c)) > 0 <=> k > c
      BY <1>3, <1>4, ComparePlaces
    <3>2. CASE k > c
      <4>1. c <= k - 1
        BY <1>4, <3>2
      <4> QED
        BY <1>4, <2>4, <2>5, <3>1, <3>2, <4>1, RangeOfPlaces DEF Gap
    <3>3. CASE ~(k > c)
      <4>1. c .. k - 1 = {}
        BY <1>4, <3>3
      <4> QED
        BY <2>4, <3>1, <3>3, <4>1 DEF Gap
    <3> QED
      BY <3>2, <3>3
  <2>7. /\ rcvCurrSeqNo' = Cur(isn, d)
        /\ rcvLoss' = IF k >= c THEN rcvLoss \cup {At(isn, i) : i \in c .. k - 1}
                      ELSE rcvLoss \ {At(isn, k)}
    <3>1. CASE k >= c
      <4>1. rcvCurrSeqNo' = p.seq /\ rcvLoss' = rcvLoss \cup Gap(p.seq)
        BY <1>9, <2>4, <3>1 DEF processData
      <4>2. Cur(isn, d) = At(isn, k)
        BY <1>4, <3>1 DEF Cur
      <4> QED
        BY <1>3, <2>6, <3>1, <4>1, <4>2
    <3>2. CASE ~(k >= c)
      <4>1. rcvLoss' = rcvLoss \ {p.seq} /\ UNCHANGED rcvCurrSeqNo
        BY <1>9, <2>4, <3>2 DEF processData
      <4> QED
        BY <1>1, <1>3, <3>2, <4>1 DEF RcvInv, RcvSeqInv
    <3> QED
      BY <3>1, <3>2
  <2> HIDE DEF d
  <2>8. RcvInv(isn, d)'
    <3>1. RcvTypes'
      <4>1. rcvBuf \in [Offsets -> Nat] /\ k + 1 \in Nat
        BY <1>1, <1>4 DEF RcvInv, RcvTypes
      <4>2. rcvBuf' \in [Offsets -> Nat]
        BY <2>2, <4>1
      <4> QED
        BY <1>1, <1>5, <4>2 DEF RcvInv, RcvTypes
    <3>2. RcvBufInv'
      <4>1. acked + (k - acked) + 1 = k + 1
        BY <1>2, <1>4
      <4> QED
        BY <1>1, <1>5, <2>1, <2>2, <4>1 DEF RcvInv, RcvTypes, RcvBufInv
    <3>3. RcvSeqInv(isn, d)'
      BY <1>1, <1>5, <2>3, <2>7 DEF RcvInv, RcvSeqInv
    <3>4. RcvLossInv(isn, d)'
      <4>0. rcvLoss \subseteq {At(isn, i) : i \in acked .. c - 1}
        BY <1>1 DEF RcvInv, RcvLossInv
      <4>1. rcvLoss' \subseteq {At(isn, i) : i \in acked .. d - 1}
        <5>1. acked .. c - 1 \subseteq acked .. d - 1
          BY <1>2, <2>3
        <5>2. c .. k - 1 \subseteq acked .. d - 1
          BY <1>2, <1>4, <2>3
        <5> QED
          BY <2>7, <4>0, <5>1, <5>2
      <4>2. ASSUME NEW o \in Offsets
            PROVE  rcvBuf'[o] = Hole <=> acked + o >= d \/ At(isn, acked + o) \in rcvLoss'
        <5>1. rcvBuf[o] = Hole <=> acked + o >= c \/ At(isn, acked + o) \in rcvLoss
          BY <1>1 DEF RcvInv, RcvLossInv
        <5>2. acked + o \in Places /\ o \in Nat
          <6>1. 0 <= acked /\ acked <= Packets /\ acked \in Int
            BY AckedIsPacked, StreamAssumption
          <6> QED
            BY <6>1, SmallIsPlace, OffsetsAreInts
        <5>3. \A i \in 0 .. packed : At(isn, acked + o) = At(isn, i) <=> acked + o = i
          BY <1>2, <5>2, ComparePlaces
        <5>4. CASE o = k - acked
          <6>1. rcvBuf'[o] = k + 1 /\ acked + o = k
            BY <1>1, <1>2, <1>4, <2>1, <2>2, <5>4 DEF RcvInv, RcvTypes
          <6>2. At(isn, k) \notin rcvLoss'
            <7>1. \A i \in c .. k - 1 : At(isn, k) # At(isn, i)
              BY <1>2, <1>4, <5>3, <6>1
            <7>2. k >= c => At(isn, k) \notin rcvLoss
              <8>1. \A i \in acked .. c - 1 : i \in 0 .. packed /\ (k >= c => k # i)
                BY <1>2, <1>4
              <8> QED
                BY <4>0, <5>3, <6>1, <8>1
            <7> QED
              BY <2>7, <7>1, <7>2
          <6> QED
            BY <1>4, <2>3, <6>1, <6>2 DEF Hole
        <5>5. CASE o # k - acked
          <6>1. rcvBuf'[o] = rcvBuf[o] /\ acked + o # k
            BY <1>1, <1>2, <1>4, <2>1, <2>2, <5>2, <5>5 DEF RcvInv, RcvTypes
          <6>2. CASE k >= c
            <7>1. \/ acked + o < c /\ acked + o < d
                  \/ acked + o \in c .. k - 1 /\ acked + o < d
                  \/ acked + o >= d /\ acked + o >= c
              BY <1>2, <1>4, <2>3, <5>2, <6>1, <6>2 DEF d
            <7>2. acked + o < c => At(isn, acked + o) \notin {At(isn, i) : i \in c .. k - 1}
              <8>1. \A i \in c .. k - 1 : i \in 0 .. packed /\ (acked + o < c => acked + o # i)
                BY <1>2, <1>4, <5>2
              <8> QED
                BY <5>3, <8>1
            <7>3. ~(acked + o < c /\ acked + o >= c) /\ ~(acked + o < d /\ acked + o >= d)
              BY <1>2, <2>3, <5>2
            <7>4. acked + o \in c .. k - 1 => acked + o >= c
              OBVIOUS
            <7> QED
              BY <2>7, <5>1, <6>1, <6>2, <7>1, <7>2, <7>3, <7>4
          <6>3. CASE ~(k >= c)
            <7>1. At(isn, acked + o) # At(isn, k)
              BY <1>2, <1>4, <5>3, <6>1
            <7> QED
              BY <2>7, <5>1, <6>1, <6>3, <7>1 DEF d
          <6> QED
            BY <6>2, <6>3
        <5> QED
          BY <5>4, <5>5
      <4> QED
        BY <1>5, <4>1, <4>2 DEF RcvLossInv
    <3> QED
      BY <3>1, <3>2, <3>3, <3>4 DEF RcvInv
  <2>9. /\ toSnd' \subseteq toSnd \cup {LossReport(p.seq)}
        /\ LossReport(p.seq) \in toSnd' \ toSnd => SaysSnd(isn, acked', d, LossReport(p.seq))
    <3>1. CASE Gap(p.seq) # {}
      <4>1. toSnd' \in With(toSnd, toRcv, LossReport(p.seq))
        BY <1>9, <3>1 DEF processData
      <4>2. k > c
        BY <1>4, <2>6, <3>1
      <4>3. LossReport(p.seq) = Nak(At(isn, c), At(isn, k - 1))
        BY <2>4, <2>5, <4>2 DEF LossReport
      <4>4. c \in 0 .. d - 1 /\ k - 1 \in 0 .. d - 1 /\ c <= k - 1
        BY <1>2, <1>4, <2>3, <4>2
      <4>5. SaysSnd(isn, acked', d, Nak(At(isn, c), At(isn, k - 1)))
        BY <4>4 DEF SaysSnd, Nak
      <4> QED
        BY <4>1, <4>3, <4>5, WithAdds
    <3>2. CASE Gap(p.seq) = {}
      BY <1>9, <3>2 DEF processData
    <3> QED
      BY <3>1, <3>2
  <2>10. Inv(isn, d)'
    BY <1>2, <1>5, <1>7, <2>3, <2>8, <2>9, RcvStep
  <2> QED
    BY <2>3, <2>10
<1> QED
  BY <1>8, <1>9

\* What there is to acknowledge is a place up to which nothing is missing.
LEMMA WhatToAck ==
  ASSUME NEW isn \in SeqNos, NEW c \in Nat, Inv(isn, c)
  PROVE  \E f \in acked .. c :
           /\ AckNow = At(isn, f)
           /\ rcvLoss \subseteq {At(isn, k) : k \in f .. c - 1}
           /\ \A k \in acked .. f - 1 : At(isn, k) \notin rcvLoss
<1>1. RcvInv(isn, c)
  BY DEF Inv
<1>2. /\ acked \in Nat /\ packed \in Nat /\ acked <= c /\ c <= packed
      /\ \A i \in 0 .. packed : i \in Places /\ i + 1 \in Places
  BY AckedIsPacked
<1>3. c \in Places /\ rcvLoss \subseteq {At(isn, k) : k \in acked .. c - 1}
  BY <1>1, <1>2 DEF RcvInv, RcvLossInv
<1>4. CASE rcvLoss = {}
  <2>1. AckNow = At(isn, c)
    BY <1>1, <1>3, <1>4, NextPlace DEF AckNow, RcvInv, RcvSeqInv
  <2> QED
    BY <1>2, <1>4, <2>1
<1>5. CASE rcvLoss # {}
  <2>1. PICK f \in acked .. c - 1 :
          /\ First(rcvLoss) = At(isn, f)
          /\ \A k \in Places : At(isn, k) \in rcvLoss => f <= k
    BY <1>2, <1>3, <1>5, FirstIsLeast
  <2>2. \A k \in acked .. c - 1 : k \in Places /\ k \in Int
    BY <1>2
  <2>3. rcvLoss \subseteq {At(isn, k) : k \in f .. c - 1}
    <3>1. ASSUME NEW s \in rcvLoss PROVE \E k \in f .. c - 1 : s = At(isn, k)
      <4>1. PICK k \in acked .. c - 1 : s = At(isn, k)
        BY <1>3
      <4>2. f <= k
        BY <2>1, <2>2, <4>1
      <4> QED
        BY <4>1, <4>2
    <3> QED
      BY <3>1
  <2>4. ASSUME NEW k \in acked .. f - 1 PROVE At(isn, k) \notin rcvLoss
    <3>1. k \in Places /\ ~(f <= k)
      BY <1>2
    <3> QED
      BY <2>1, <3>1
  <2>5. AckNow = At(isn, f) /\ f \in acked .. c
    BY <1>5, <2>1 DEF AckNow
  <2> QED
    BY <2>3, <2>4, <2>5
<1> QED
  BY <1>4, <1>5

\* What is acknowledged has no holes, and becomes ready to be read.
LEMMA SendAckKeeps ==
  ASSUME NEW isn \in SeqNos, NEW c \in Nat, Inv(isn, c), sendAck
  PROVE  Inv(isn, c)'
<1>1. RcvInv(isn, c) /\ EndsInv(c)
  BY DEF Inv
<1>2. /\ acked \in Nat /\ packed \in Nat /\ acked <= c /\ c <= packed
      /\ \A i \in 0 .. packed : i \in Places /\ i + 1 \in Places
  BY AckedIsPacked
<1>3. PICK f \in acked .. c :
        /\ AckNow = At(isn, f)
        /\ rcvLoss \subseteq {At(isn, k) : k \in f .. c - 1}
        /\ \A k \in acked .. f - 1 : At(isn, k) \notin rcvLoss
  BY WhatToAck
<1>4. f \in Places /\ acked \in Places /\ f \in Nat /\ acked <= f /\ f <= c
  BY <1>2
<1>5. seqoff(rcvLastAck, AckNow) = f - acked
  BY <1>1, <1>3, <1>4, ComparePlaces DEF RcvInv, RcvSeqInv
<1>6. /\ UNCHANGED <<sndVars, rcvLastAckAck, rcvCurrSeqNo, rcvLoss, rcvState, got, toRcv>>
      /\ rcvLastAck' = At(isn, f)
  BY <1>3 DEF sendAck
<1>7. /\ acked' = f /\ ready' \in Seq(Nat) /\ rcvBuf' \in [Offsets -> Nat]
      /\ \A i \in 1 .. Len(ready') : ready'[i] = Len(got) + i
      /\ \A o \in Offsets :
           rcvBuf'[o] = IF o + (f - acked) \in Offsets THEN rcvBuf[o + (f - acked)] ELSE Hole
  <2>1. CASE f - acked > 0
    <3> DEFINE n == f - acked
               new == [i \in 1 .. n |-> rcvBuf[i - 1]]
    <3>1. n \in Nat /\ n < RcvBufSize /\ \A i \in 1 .. n : i - 1 \in Offsets
      BY <1>1, <1>2, <1>4, <2>1, StreamAssumption DEF RcvInv, RcvSeqInv, Offsets
    <3>2. ackData(n)
      BY <1>5, <2>1 DEF sendAck
    <3>3. ready' = ready \o new /\ rcvBuf' = [o \in Offsets |->
                  IF o + n \in Offsets THEN rcvBuf[o + n] ELSE Hole]
      BY <3>2 DEF ackData
    <3>4. ASSUME NEW i \in 1 .. n PROVE rcvBuf[i - 1] = acked + i
      <4>1. i - 1 \in Offsets
        BY <3>1
      <4>2. /\ acked + (i - 1) \in acked .. f - 1
            /\ ~(acked + (i - 1) >= c) /\ acked + (i - 1) + 1 = acked + i
        BY <1>2, <1>4
      <4>3. rcvBuf[i - 1] # Hole
        BY <1>1, <1>3, <4>1, <4>2 DEF RcvInv, RcvLossInv
      <4> QED
        BY <1>1, <4>1, <4>2, <4>3 DEF RcvInv, RcvBufInv
    <3>5. new \in Seq(Nat) /\ Len(new) = n /\ \A i \in 1 .. n : new[i] = acked + i
      <4>1. \A i \in 1 .. n : rcvBuf[i - 1] \in Nat
        BY <1>2, <3>4
      <4> QED
        BY <3>1, <3>4, <4>1
    <3> HIDE DEF n, new
    <3>6. /\ ready' \in Seq(Nat) /\ Len(ready') = Len(ready) + n
          /\ \A i \in 1 .. Len(ready) + n :
               ready'[i] = IF i <= Len(ready) THEN ready[i] ELSE new[i - Len(ready)]
      BY <1>1, <3>3, <3>5, ConcatProperties DEF RcvInv, RcvTypes
    <3>7. Len(got) \in Nat /\ Len(ready) \in Nat /\ acked = Len(got) + Len(ready)
      BY <1>1, RcvCounts DEF RcvInv, acked
    <3>8. ASSUME NEW i \in 1 .. Len(ready) + n PROVE ready'[i] = Len(got) + i
      <4>1. CASE i <= Len(ready)
        <5>1. i \in 1 .. Len(ready)
          BY <3>1, <3>7, <4>1
        <5>2. ready[i] = Len(got) + i
          BY <1>1, <5>1 DEF RcvInv, RcvBufInv
        <5> QED
          BY <3>6, <4>1, <5>2
      <4>2. CASE ~(i <= Len(ready))
        <5>1. i - Len(ready) \in 1 .. n
          BY <3>1, <3>7, <4>2
        <5>2. acked + (i - Len(ready)) = Len(got) + i
          BY <3>7
        <5> QED
          BY <3>5, <3>6, <4>2, <5>1, <5>2
      <4> QED
        BY <4>1, <4>2
    <3>9. acked' = f
      <4>1. acked' = Len(got) + (Len(ready) + n)
        BY <1>6, <3>6 DEF acked
      <4> QED
        BY <1>4, <3>7, <4>1 DEF n
    <3>10. rcvBuf' \in [Offsets -> Nat]
      BY <1>1, <3>3 DEF RcvInv, RcvTypes, Hole
    <3> QED
      BY <3>3, <3>6, <3>8, <3>9, <3>10 DEF n
  <2>2. CASE ~(f - acked > 0)
    <3>1. UNCHANGED <<ready, rcvBuf>> /\ f = acked
      BY <1>2, <1>4, <1>5, <2>2 DEF sendAck
    <3>2. \A o \in Offsets : o + (f - acked) = o
      BY <1>2, <3>1, OffsetsAreInts
    <3> QED
      BY <1>1, <1>6, <3>1, <3>2 DEF acked, RcvInv, RcvTypes, RcvBufInv
  <2> QED
    BY <2>1, <2>2
<1>8. RcvInv(isn, c)'
  <2>1. RcvTypes'
    BY <1>1, <1>6, <1>7 DEF RcvInv, RcvTypes
  <2>2. ASSUME NEW o \in Offsets
        PROVE  /\ rcvBuf'[o] \in {Hole, f + o + 1}
               /\ rcvBuf'[o] = Hole <=> f + o >= c \/ At(isn, f + o) \in rcvLoss
    <3>1. o \in Nat /\ o < RcvBufSize
      BY OffsetsAreInts
    <3>2. CASE o + (f - acked) \in Offsets
      <4>1. acked + (o + (f - acked)) = f + o /\ acked + (o + (f - acked)) + 1 = f + o + 1
        BY <1>2, <1>4, <3>1
      <4>2. rcvBuf'[o] = rcvBuf[o + (f - acked)]
        BY <1>7, <3>2
      <4>3. rcvBuf[o + (f - acked)] \in {Hole, f + o + 1}
        BY <1>1, <3>2, <4>1 DEF RcvInv, RcvBufInv
      <4>4. rcvBuf[o + (f - acked)] = Hole <=> f + o >= c \/ At(isn, f + o) \in rcvLoss
        BY <1>1, <3>2, <4>1 DEF RcvInv, RcvLossInv
      <4> QED
        BY <4>2, <4>3, <4>4
    <3>3. CASE o + (f - acked) \notin Offsets
      <4>1. rcvBuf'[o] = Hole
        BY <1>7, <3>3
      <4>2. f + o >= c
        <5>1. o + (f - acked) >= RcvBufSize
          BY <1>2, <1>4, <3>1, <3>3, StreamAssumption DEF Offsets
        <5>2. c <= acked + RcvBufSize - 1
          BY <1>1 DEF RcvInv, RcvSeqInv
        <5> QED
          BY <1>2, <1>4, <3>1, <5>1, <5>2, StreamAssumption
      <4> QED
        BY <4>1, <4>2
    <3> QED
      BY <3>2, <3>3
  <2>3. RcvBufInv'
    BY <1>1, <1>6, <1>7, <2>2 DEF RcvInv, RcvBufInv
  <2>4. RcvSeqInv(isn, c)'
    <3>1. acked' <= c /\ c <= acked' + RcvBufSize - 1 /\ 0 .. acked \subseteq 0 .. acked'
      BY <1>1, <1>2, <1>4, <1>7, StreamAssumption DEF RcvInv, RcvSeqInv
    <3> QED
      BY <1>1, <1>6, <1>7, <3>1 DEF RcvInv, RcvSeqInv
  <2>5. RcvLossInv(isn, c)'
    BY <1>3, <1>6, <1>7, <2>2 DEF RcvLossInv
  <2> QED
    BY <2>1, <2>3, <2>4, <2>5 DEF RcvInv
<1> DEFINE msg == Ack(AckNow, Window(AvailBufSize - seqoff(rcvLastAck, AckNow)))
<1>9. toSnd' \subseteq toSnd \cup {msg}
  <2>1. toSnd' \in With(toSnd, toRcv, msg) \/ toSnd' = toSnd
    BY DEF sendAck
  <2> QED
    BY <2>1, WithAdds
<1>10. SaysSnd(isn, acked', c, msg)
  <2>1. msg.kind = "ack" /\ msg.ack = At(isn, f) /\ f \in 0 .. acked'
    BY <1>3, <1>4, <1>7 DEF Ack
  <2> QED
    BY <2>1 DEF SaysSnd
<1>11. rcvState' = "shutdown" => Over
  BY <1>1, <1>6 DEF EndsInv
<1> HIDE DEF msg
<1> QED
  BY <1>2, <1>4, <1>6, <1>7, <1>8, <1>9, <1>10, <1>11, RcvStep

LEMMA SendLiteAckKeeps ==
  ASSUME NEW isn \in SeqNos, NEW c \in Nat, Inv(isn, c), sendLiteAck
  PROVE  Inv(isn, c)'
<1>1. RcvInv(isn, c) /\ EndsInv(c)
  BY DEF Inv
<1>2. acked \in Nat /\ packed \in Nat /\ acked <= c /\ c <= packed
  BY AckedIsPacked
<1>3. PICK f \in acked .. c : AckNow = At(isn, f)
  BY WhatToAck
<1>4. /\ UNCHANGED <<sndVars, rcvVars, toRcv>>
      /\ toSnd' \in With(toSnd, toRcv, LiteAck(AckNow))
  BY DEF sendLiteAck
<1>5. toSnd' \subseteq toSnd \cup {LiteAck(AckNow)}
  BY <1>4, WithAdds
<1>6. RcvInv(isn, c)' /\ acked' = acked /\ rcvState' = rcvState
  BY <1>1, <1>4, RcvUntouched
<1>7. SaysSnd(isn, acked', c, LiteAck(AckNow))
  BY <1>2, <1>3 DEF SaysSnd, LiteAck
<1>8. rcvState' = "shutdown" => Over
  BY <1>1, <1>6 DEF EndsInv
<1> QED
  BY <1>2, <1>4, <1>5, <1>6, <1>7, <1>8, RcvStep

LEMMA HearAck2Keeps ==
  ASSUME NEW isn \in SeqNos, NEW c \in Nat, Inv(isn, c), NEW p \in toRcv, hearAck2(p)
  PROVE  Inv(isn, c)'
<1>1. RcvInv(isn, c) /\ EndsInv(c) /\ ToRcvInv(isn)
  BY DEF Inv
<1>2. acked \in Nat /\ packed \in Nat /\ c <= packed
  BY AckedIsPacked
<1>3. UNCHANGED <<sndVars, rcvBuf, ready, rcvLastAck, rcvCurrSeqNo, rcvLoss,
                  rcvState, got, toSnd>> /\ acked' = acked
  BY DEF hearAck2, acked
<1>4. \E b \in 0 .. acked : rcvLastAckAck' = At(isn, b)
  <2>1. \E b \in 0 .. acked : p.ack = At(isn, b)
    BY <1>1 DEF ToRcvInv, SaysRcv, hearAck2
  <2>2. \E b \in 0 .. acked : rcvLastAckAck = At(isn, b)
    BY <1>1 DEF RcvInv, RcvSeqInv
  <2>3. rcvLastAckAck' = p.ack \/ rcvLastAckAck' = rcvLastAckAck
    BY DEF hearAck2
  <2> QED
    BY <2>1, <2>2, <2>3
<1>5. RcvInv(isn, c)'
  BY <1>1, <1>3, <1>4 DEF RcvInv, RcvTypes, RcvBufInv, RcvSeqInv, RcvLossInv
<1>6. toRcv' \subseteq toRcv /\ (rcvState' = "shutdown" => Over)
  BY <1>1, <1>3, AfterKeeps DEF hearAck2, EndsInv
<1> QED
  BY <1>2, <1>3, <1>5, <1>6, RcvStep

LEMMA HearShutdownKeeps ==
  ASSUME NEW isn \in SeqNos, NEW c \in Nat, Inv(isn, c), hearShutdown
  PROVE  Inv(isn, c)'
<1>1. RcvInv(isn, c) /\ EndsInv(c) /\ ToRcvInv(isn)
  BY DEF Inv
<1>2. acked \in Nat /\ packed \in Nat /\ c <= packed
  BY AckedIsPacked
<1>3. Over
  BY <1>1 DEF ToRcvInv, hearShutdown, Shutdown, Over
<1>4. UNCHANGED <<sndVars, rcvBuf, ready, rcvLastAck, rcvLastAckAck, rcvCurrSeqNo, rcvLoss,
                  got, toSnd>> /\ acked' = acked
  BY DEF hearShutdown, acked
<1>5. RcvInv(isn, c)'
  BY <1>1, <1>4
  DEF hearShutdown, RcvInv, RcvTypes, RcvBufInv, RcvSeqInv, RcvLossInv
<1>6. toRcv' \subseteq toRcv
  BY AfterKeeps DEF hearShutdown
<1> QED
  BY <1>2, <1>3, <1>4, <1>5, <1>6, RcvStep

LEMMA BreakRcvKeeps ==
  ASSUME NEW isn \in SeqNos, NEW c \in Nat, Inv(isn, c), breakRcv
  PROVE  Inv(isn, c)'
<1>1. RcvInv(isn, c)
  BY DEF Inv
<1>2. acked \in Nat /\ packed \in Nat /\ c <= packed
  BY AckedIsPacked
<1>3. UNCHANGED <<sndVars, rcvBuf, ready, rcvLastAck, rcvLastAckAck, rcvCurrSeqNo, rcvLoss,
                  got, toRcv, toSnd>> /\ acked' = acked /\ rcvState' = "broken"
  BY DEF breakRcv, acked
<1>4. RcvInv(isn, c)'
  BY <1>1, <1>3 DEF RcvInv, RcvTypes, RcvBufInv, RcvSeqInv, RcvLossInv
<1> QED
  BY <1>2, <1>3, <1>4, RcvStep

\* Reading moves packets from the buffer to the reader, in order.
LEMMA RecvKeeps ==
  ASSUME NEW isn \in SeqNos, NEW c \in Nat, Inv(isn, c), NEW n \in 1 .. 2, recv(n)
  PROVE  Inv(isn, c)' /\ Len(got') > Len(got)
<1>1. RcvInv(isn, c) /\ EndsInv(c)
  BY DEF Inv
<1>2. /\ acked \in Nat /\ packed \in Nat /\ c <= packed
      /\ Len(got) \in Nat /\ Len(ready) \in Nat /\ acked = Len(got) + Len(ready)
  BY <1>1, AckedIsPacked, RcvCounts DEF RcvInv, acked
<1>3. got \in Seq(Nat) /\ ready \in Seq(Nat)
  BY <1>1 DEF RcvInv, RcvTypes
<1> DEFINE size == IF n < Len(ready) THEN n ELSE Len(ready)
           taken == SubSeq(ready, 1, size)
<1>4. UNCHANGED <<sndVars, rcvBuf, rcvLastAck, rcvLastAckAck, rcvCurrSeqNo, rcvLoss,
                  rcvState, toRcv, toSnd>>
  BY DEF recv
<1>5. got' = got \o taken /\ ready' = SubSeq(ready, size + 1, Len(ready))
  BY DEF recv
<1>6. size \in 1 .. Len(ready)
  <2>1. Len(ready) # 0
    BY <1>3, EmptySeq DEF recv
  <2> QED
    BY <1>2, <2>1
<1> HIDE DEF size
<1>7. taken \in Seq(Nat) /\ Len(taken) = size /\ \A i \in 1 .. size : taken[i] = ready[i]
  <2>1. \A i \in 1 .. size : ready[i] \in Nat
    BY <1>2, <1>3, <1>6
  <2>2. /\ taken \in Seq(Nat) /\ Len(taken) = IF 1 <= size THEN size - 1 + 1 ELSE 0
        /\ \A i \in 1 .. size - 1 + 1 : taken[i] = ready[1 + i - 1]
    <3>1. 1 \in Int /\ size \in Int
      BY <1>6
    <3> QED
      BY <2>1, <3>1, SubSeqProperties
  <2> HIDE DEF taken
  <2> QED
    BY <1>6, <2>2
<1> HIDE DEF taken
<1>8. /\ ready' \in Seq(Nat) /\ Len(ready') = Len(ready) - size
      /\ \A i \in 1 .. Len(ready) - size : ready'[i] = ready[size + i]
  <2>1. size \in 0 .. Len(ready)
    BY <1>6
  <2> QED
    BY <1>3, <1>5, <2>1, DropFirst, Zenon
<1>9. /\ got' \in Seq(Nat) /\ Len(got') = Len(got) + size
      /\ \A i \in 1 .. Len(got) + size :
           got'[i] = IF i <= Len(got) THEN got[i] ELSE taken[i - Len(got)]
  <2>1. /\ got \o taken \in Seq(Nat) /\ Len(got \o taken) = Len(got) + Len(taken)
        /\ \A i \in 1 .. Len(got) + Len(taken) :
             (got \o taken)[i] = IF i <= Len(got) THEN got[i] ELSE taken[i - Len(got)]
    BY <1>3, <1>7, ConcatProperties, Zenon
  <2> QED
    BY <1>5, <1>7, <2>1
<1>10. acked' = acked
  <2>1. acked' = (Len(got) + size) + (Len(ready) - size)
    BY <1>8, <1>9 DEF acked
  <2> QED
    BY <1>2, <1>6, <2>1
<1>11. (\A i \in 1 .. Len(got) : got[i] = i) /\ \A i \in 1 .. Len(ready) : ready[i] = Len(got) + i
  BY <1>1 DEF RcvInv, RcvBufInv
<1>12. ASSUME NEW i \in 1 .. Len(got) + size PROVE got'[i] = i
  <2>1. CASE i <= Len(got)
    <3>1. i \in 1 .. Len(got)
      BY <1>2, <1>6, <2>1
    <3> QED
      BY <1>9, <1>11, <2>1, <3>1
  <2>2. CASE ~(i <= Len(got))
    <3>1. i - Len(got) \in 1 .. size /\ i - Len(got) \in 1 .. Len(ready)
          /\ Len(got) + (i - Len(got)) = i
      BY <1>2, <1>6, <2>2
    <3>2. got'[i] = taken[i - Len(got)]
      BY <1>9, <2>2
    <3> QED
      BY <1>7, <1>11, <3>1, <3>2
  <2> QED
    BY <2>1, <2>2
<1>13. ASSUME NEW i \in 1 .. Len(ready) - size PROVE ready'[i] = (Len(got) + size) + i
  <2>1. size + i \in 1 .. Len(ready) /\ Len(got) + (size + i) = (Len(got) + size) + i
    BY <1>2, <1>6
  <2> QED
    BY <1>8, <1>11, <2>1
<1>14. RcvInv(isn, c)'
  <2>1. RcvTypes'
    BY <1>1, <1>4, <1>8, <1>9 DEF RcvInv, RcvTypes
  <2>2. RcvBufInv'
    BY <1>1, <1>4, <1>8, <1>9, <1>10, <1>12, <1>13 DEF RcvInv, RcvBufInv
  <2>3. RcvSeqInv(isn, c)' /\ RcvLossInv(isn, c)'
    BY <1>1, <1>4, <1>10 DEF RcvInv, RcvSeqInv, RcvLossInv
  <2> QED
    BY <2>1, <2>2, <2>3 DEF RcvInv
<1>15. rcvState' = "shutdown" => Over
  BY <1>1, <1>4 DEF EndsInv
<1>16. Inv(isn, c)'
  BY <1>2, <1>4, <1>10, <1>14, <1>15, RcvStep
<1> QED
  BY <1>2, <1>6, <1>9, <1>16

LEMMA LoseKeeps ==
  ASSUME NEW isn \in SeqNos, NEW c \in Nat, Inv(isn, c), Lose
  PROVE  Inv(isn, c)'
<1>1. UNCHANGED <<sndVars, rcvVars>> /\ toRcv' \subseteq toRcv /\ toSnd' \subseteq toSnd
  BY DEF Lose
<1>2. SndInv(isn)' /\ packed' = packed /\ released' = released /\ (Over' <=> Over)
  BY <1>1, SndUntouched DEF Inv
<1>3. packed \in Nat /\ released <= acked
  BY AckedIsPacked
<1> QED
  BY <1>1, <1>2, <1>3, SndStep

-----------------------------------------------------------------------------
(* The invariant is inductive.                                             *)
LEMMA InitInv == Init => IInv
<1> SUFFICES ASSUME Init PROVE IInv
  OBVIOUS
<1> DEFINE isn == sndLastAck
<1>1. isn \in FirstSeqNos /\ isn \in SeqNos
  BY SmallIsPlace DEF Init
<1>2. /\ Len(<<>>) = 0 /\ <<>> \in Seq(Nat)
  OBVIOUS
<1>3. released = 0 /\ packed = 0 /\ acked = 0
  <2>1. sndBuf = <<>> /\ ready = <<>> /\ got = <<>>
    BY DEF Init
  <2>2. Len(sndBuf) = 0 /\ Len(ready) = 0 /\ Len(got) = 0
    BY <2>1, EmptySeq
  <2>3. written = 0 /\ sndBlock = 0
    BY DEF Init
  <2> QED
    BY <2>2, <2>3 DEF released, packed, acked
<1>4. isn = At(isn, 0)
  BY <1>1, SeqNoAssumption DEF At, addseq, SeqNos
<1>5. SndInv(isn)
  <2>1. SndTypes
    BY <1>2, StreamAssumption DEF Init, SndTypes
  <2>2. SndBufInv
    BY <1>2 DEF Init, SndBufInv
  <2>3. SndSeqInv(isn)
    BY <1>3, <1>4 DEF Init, SndSeqInv, Cur
  <2>4. SndLossInv(isn)
    BY DEF Init, SndLossInv
  <2> QED
    BY <2>1, <2>2, <2>3, <2>4 DEF SndInv
<1>6. RcvInv(isn, 0)
  <2>1. RcvTypes
    BY <1>2 DEF Init, RcvTypes, Hole
  <2>2. RcvBufInv
    BY <1>2 DEF Init, RcvBufInv
  <2>3. RcvSeqInv(isn, 0)
    BY <1>3, <1>4, StreamAssumption DEF Init, RcvSeqInv, Cur
  <2>4. RcvLossInv(isn, 0)
    BY <1>3, OffsetsAreInts DEF Init, RcvLossInv
  <2> QED
    BY <2>1, <2>2, <2>3, <2>4 DEF RcvInv
<1>7. EndsInv(0) /\ ToRcvInv(isn) /\ ToSndInv(isn, 0)
  BY <1>3 DEF Init, EndsInv, ToRcvInv, ToSndInv
<1>8. Inv(isn, 0)
  BY <1>5, <1>6, <1>7 DEF Inv
<1> QED
  BY <1>1, <1>8 DEF IInv

LEMMA StepInv == IInv /\ [Next]_vars => IInv'
<1> SUFFICES ASSUME NEW isn \in FirstSeqNos, NEW c \in Nat, Inv(isn, c), [Next]_vars
             PROVE  \E d \in Nat : Inv(isn, d)'
  BY DEF IInv
<1>0. isn \in SeqNos
  BY SmallIsPlace
<1>1. CASE Snd
  BY <1>0, <1>1, SendKeeps, CloseKeeps, LingeredKeeps DEF Snd
<1>2. CASE SndWorker
  BY <1>0, <1>2, PopKeeps, PackLostKeeps, UpdateKeeps DEF SndWorker
<1>3. CASE SndHears
  BY <1>0, <1>3, HearAckKeeps, HearLiteAckKeeps, HearNakKeeps DEF SndHears
<1>4. CASE expire
  BY <1>0, <1>4, ExpireKeeps
<1>5. CASE RcvHears
  BY <1>0, <1>5, HearShutdownKeeps, ProcessDataKeeps, HearAck2Keeps DEF RcvHears
<1>6. CASE Rcv
  BY <1>0, <1>6, SendAckKeeps, SendLiteAckKeeps, RecvKeeps DEF Rcv
<1>7. CASE Faults
  BY <1>0, <1>7, LoseKeeps, BreakSndKeeps, BreakRcvKeeps DEF Faults
<1>8. CASE UNCHANGED vars
  <2>1. UNCHANGED <<sndVars, rcvVars, toRcv, toSnd>>
    BY <1>8 DEF vars
  <2>2. SndInv(isn)' /\ packed' = packed /\ released' = released /\ (Over' <=> Over)
    BY <2>1, SndUntouched DEF Inv
  <2>3. packed \in Nat /\ released <= acked
    BY AckedIsPacked
  <2>4. Inv(isn, c)'
    BY <1>0, <2>1, <2>2, <2>3, SndStep
  <2> QED
    BY <2>4
<1> QED
  BY <1>1, <1>2, <1>3, <1>4, <1>5, <1>6, <1>7, <1>8 DEF Next

LEMMA Inductive == Spec => []IInv
BY InitInv, StepInv, PTL DEF Spec

-----------------------------------------------------------------------------
(* What the invariant means.                                               *)
LEMMA InvAgree == IInv => EndsAgree /\ NeverAccused
<1> SUFFICES ASSUME NEW isn \in FirstSeqNos, NEW c \in Nat, Inv(isn, c)
             PROVE  EndsAgree /\ NeverAccused
  BY DEF IInv
<1>0. isn \in SeqNos
  BY SmallIsPlace
<1>1. SndInv(isn) /\ RcvInv(isn, c)
  BY DEF Inv
<1>2. /\ acked \in Nat /\ packed \in Nat /\ released \in Nat
      /\ released <= acked /\ acked <= c /\ c <= packed /\ packed <= Packets
      /\ \A k \in 0 .. packed : k \in Places /\ k + 1 \in Places
      /\ sndBlock = packed - released
  BY AckedIsPacked
<1>3. ReleasedIsThere
  <2>1. Len(got) \in Nat /\ Len(ready) \in Nat
    BY <1>1, RcvCounts DEF RcvInv
  <2>2. \A i \in 1 .. Len(ready) : ready[i] # Hole
    BY <1>1, <2>1 DEF RcvInv, RcvBufInv, Hole
  <2> QED
    BY <1>2, <2>1, <2>2 DEF ReleasedIsThere, released, acked
<1>4. LossesAreHoles
  <2> SUFFICES ASSUME NEW o \in Offsets
               PROVE  addseq(rcvLastAck, o) \in rcvLoss
                        <=> rcvBuf[o] = Hole /\ seqcmp(addseq(rcvLastAck, o), rcvCurrSeqNo) <= 0
    BY DEF LossesAreHoles
  <2>1. acked \in Places /\ c \in Places /\ acked + o \in Places /\ acked + o + 1 \in Places
        /\ o \in Nat
    <3>1. 0 <= acked /\ acked <= Packets /\ acked \in Int
      BY <1>2, StreamAssumption
    <3> QED
      BY <1>2, <3>1, SmallIsPlace, OffsetsAreInts
  <2>2. addseq(rcvLastAck, o) = At(isn, acked + o)
    BY <1>0, <1>1, <2>1, AddPlaces DEF RcvInv, RcvSeqInv
  <2>3. seqcmp(At(isn, acked + o), rcvCurrSeqNo) <= 0 <=> acked + o < c
    BY <1>0, <1>1, <2>1, CompareWithCur DEF RcvInv, RcvSeqInv
  <2>4. At(isn, acked + o) \in rcvLoss => acked + o < c
    <3>1. ASSUME NEW k \in acked .. c - 1, At(isn, acked + o) = At(isn, k) PROVE acked + o < c
      <4>1. k \in Places
        BY <1>2
      <4>2. acked + o = k
        BY <1>0, <2>1, <3>1, <4>1, ComparePlaces
      <4> QED
        BY <1>2, <4>2
    <3> QED
      BY <1>1, <3>1 DEF RcvInv, RcvLossInv
  <2>5. rcvBuf[o] = Hole <=> acked + o >= c \/ At(isn, acked + o) \in rcvLoss
    BY <1>1 DEF RcvInv, RcvLossInv
  <2>6. ~(acked + o < c /\ acked + o >= c) /\ (acked + o < c \/ acked + o >= c)
    BY <1>2, <2>1
  <2> QED
    BY <2>2, <2>3, <2>4, <2>5, <2>6
<1>5. ResendsWhatItHas
  <2>1. ASSUME NEW k \in 0 .. packed - 1
        PROVE  seqoff(sndLastDataAck, At(isn, k)) = k - released
    <3>1. released \in Places /\ k \in Places
      BY <1>2
    <3> QED
      BY <1>0, <1>1, <3>1, ComparePlaces DEF SndInv, SndSeqInv
  <2>2. ASSUME NEW s \in sndLoss
        PROVE  seqoff(sndLastDataAck, s) \in 0 .. sndBlock - 1
    <3>1. PICK k \in released .. packed - 1 : s = At(isn, k)
      BY <1>1 DEF SndInv, SndLossInv
    <3>2. k \in 0 .. packed - 1 /\ k - released \in 0 .. sndBlock - 1
      BY <1>2
    <3> QED
      BY <2>1, <3>1, <3>2
  <2>3. ASSUME packing # Nothing
        PROVE  seqoff(sndLastDataAck, packing) < sndBlock
    <3>1. PICK k \in 0 .. packed - 1 : packing = At(isn, k)
      BY <1>1, <2>3 DEF SndInv, SndLossInv
    <3>2. k - released < sndBlock
      BY <1>2
    <3> QED
      BY <2>1, <3>1, <3>2
  <2> QED
    BY <2>2, <2>3 DEF ResendsWhatItHas
<1>6. NeverAccused
  BY <1>1 DEF SndInv, SndTypes, NeverAccused
<1> QED
  BY <1>3, <1>4, <1>5, <1>6 DEF EndsAgree

(* EndsAgree: the buffers and loss lists of the two ends always agree, what *)
(* one has released the other has, what one lacks it asks for, and what one *)
(* sends again it has.                                                     *)
THEOREM EndsAlwaysAgree == Spec => []EndsAgree
BY Inductive, InvAgree, PTL

(* NeverAccused: no acknowledgement and no loss report, in whatever order   *)
(* they come, is one that "should not happen".                             *)
THEOREM NoEndIsAccused == Spec => []NeverAccused
BY Inductive, InvAgree, PTL

-----------------------------------------------------------------------------
(* The refinement: sending writes, reading reads the next part of what was *)
(* written, a shutdown or a broken connection ends the pipe, and every     *)
(* other step leaves it as it is.                                          *)

\* What is read is the beginning of what was written.
ReadSoFar ==
  /\ Len(got) \in Nat /\ written \in Nat
  /\ got = Pipe!Upto(Len(got)) /\ Len(got) <= written

LEMMA ReadIsPrefix == IInv => ReadSoFar
<1> SUFFICES ASSUME IInv PROVE ReadSoFar
  OBVIOUS
<1> PICK isn \in FirstSeqNos, c \in Nat : Inv(isn, c)
  BY DEF IInv
<1>1. RcvInv(isn, c)
  BY DEF Inv
<1>2. /\ acked \in Nat /\ packed \in Nat /\ acked <= c /\ c <= packed
      /\ packed <= written /\ written \in Nat
  BY AckedIsPacked
<1>3. Len(got) \in Nat /\ Len(ready) \in Nat /\ acked = Len(got) + Len(ready)
  BY <1>1, RcvCounts DEF RcvInv, acked
<1>4. got \in Seq(Nat) /\ \A i \in 1 .. Len(got) : got[i] = i
  BY <1>1 DEF RcvInv, RcvTypes, RcvBufInv
<1>5. got = [i \in 1 .. Len(got) |-> got[i]]
  BY <1>4
<1>6. got = Pipe!Upto(Len(got))
  BY <1>4, <1>5 DEF Pipe!Upto
<1> QED
  BY <1>2, <1>3, <1>6 DEF ReadSoFar

\* How the end of the pipe is seen once both halves are known.
LEMMA OverOnlyWhenShut ==
  ASSUME IInv
  PROVE  /\ rcvState \in {"open", "shutdown", "broken"}
         /\ sndState \in {"open", "lingering", "broken", "closed", "dropped"}
         /\ rcvState = "shutdown" => sndState \in {"closed", "dropped"}
BY DEF IInv, Inv, SndInv, SndTypes, RcvInv, RcvTypes, EndsInv, Over

LEMMA PipeStep == IInv /\ IInv' /\ [Next]_vars => [Pipe!Next]_(Pipe!pipeVars)
<1> SUFFICES ASSUME IInv, IInv', [Next]_vars
             PROVE  [Pipe!Next]_(Pipe!pipeVars)
  OBVIOUS
<1> USE DEF Pipe!pipeVars
<1>1. /\ rcvState \in {"open", "shutdown", "broken"}
      /\ sndState \in {"open", "lingering", "broken", "closed", "dropped"}
      /\ rcvState = "shutdown" => sndState \in {"closed", "dropped"}
  BY OverOnlyWhenShut
<1>2. ASSUME UNCHANGED <<written, got, sndState, rcvState>>
      PROVE  UNCHANGED Pipe!pipeVars
  BY <1>2 DEF End
<1>3. ASSUME NEW n \in 1 .. 2, send(n) PROVE Pipe!Write
  <2>1. written' > written
    <3> PICK isn \in FirstSeqNos, c \in Nat : Inv(isn, c)
      BY DEF IInv
    <3> QED
      BY <1>3, SendKeeps, SmallIsPlace
  <2>2. UNCHANGED <<got, sndState, rcvState>> /\ sndState = "open"
    BY <1>3 DEF send, rcvVars
  <2>3. End # "ended" /\ End' = End
    BY <1>1, <2>2 DEF End
  <2> QED
    BY <2>1, <2>2, <2>3 DEF Pipe!Write
<1>4. ASSUME NEW n \in 1 .. 2, recv(n) PROVE Pipe!Read
  <2>1. Len(got') > Len(got)
    <3> PICK isn \in FirstSeqNos, c \in Nat : Inv(isn, c)
      BY DEF IInv
    <3> QED
      BY <1>4, RecvKeeps, SmallIsPlace
  <2>2. UNCHANGED <<written, sndState, rcvState>>
    BY <1>4 DEF recv, sndVars, sndData
  <2>3. Len(got) \in Nat /\ written \in Nat
    BY ReadIsPrefix DEF ReadSoFar
  <2>4. Len(got') \in Nat /\ got' = Pipe!Upto(Len(got')) /\ Len(got') <= written'
    <3>1. ReadSoFar'
      BY ReadIsPrefix, PTL
    <3> QED
      BY <3>1 DEF ReadSoFar, Pipe!Upto
  <2>5. Len(got') \in Len(got) + 1 .. written
    BY <2>1, <2>2, <2>3, <2>4
  <2>6. End' = End
    BY <2>2 DEF End
  <2> QED
    BY <2>2, <2>4, <2>5, <2>6 DEF Pipe!Read
<1>5. ASSUME UNCHANGED <<written, got>>,
             \/ /\ sndState \in {"lingering", "broken"} /\ sndState' \in {"closed", "dropped"}
                /\ sndState = "broken" => sndState' = "dropped"
                /\ UNCHANGED rcvState
             \/ /\ Alive(sndState) /\ sndState' \in {"lingering", "broken"}
                /\ UNCHANGED rcvState
             \/ /\ rcvState = "open" /\ rcvState' \in {"shutdown", "broken"}
                /\ UNCHANGED sndState
      PROVE  Pipe!End \/ UNCHANGED Pipe!pipeVars
  BY <1>1, <1>5 DEF Pipe!End, End, Alive
<1>6. CASE \E n \in 1 .. 2 : send(n)
  BY <1>3, <1>6 DEF Pipe!Next
<1>7. CASE \E n \in 1 .. 2 : recv(n)
  BY <1>4, <1>7 DEF Pipe!Next
<1>8. CASE close \/ lingered \/ breakSnd
  <2>1. UNCHANGED <<written, got, rcvState>>
    BY <1>8 DEF close, lingered, breakSnd, rcvVars, sndData
  <2>2. \/ /\ sndState \in {"lingering", "broken"} /\ sndState' \in {"closed", "dropped"}
           /\ sndState = "broken" => sndState' = "dropped"
        \/ Alive(sndState) /\ sndState' \in {"lingering", "broken"}
    BY <1>8 DEF close, lingered, breakSnd, Handling, Alive
  <2> QED
    BY <1>5, <2>1, <2>2 DEF Pipe!Next
<1>9. CASE hearShutdown \/ breakRcv
  BY <1>5, <1>9 DEF Pipe!Next, hearShutdown, breakRcv, sndVars, sndData
<1>10. CASE SndWorker \/ expire
  BY <1>2, <1>10 DEF SndWorker, pop, packLost, update, expire, rcvVars, sndData
<1>11. CASE SndHears
  <2> PICK isn \in FirstSeqNos, c \in Nat : Inv(isn, c)
    BY DEF IInv
  <2>1. PICK p \in toSnd : hearAck(p) \/ hearLiteAck(p) \/ hearNak(p)
    BY <1>11 DEF SndHears
  <2>2. UNCHANGED <<written, got, rcvState>>
    BY <2>1 DEF hearAck, hearLiteAck, hearNak, rcvVars, sndData
  <2>3. sndState' \in {sndState, "accused"}
    BY <2>1 DEF hearAck, hearLiteAck, hearNak, Accuse
  <2>4. sndState' # "accused"
    <3>1. NeverAccused'
      BY InvAgree, PTL
    <3> QED
      BY <3>1 DEF NeverAccused
  <2> QED
    BY <1>2, <2>2, <2>3, <2>4
<1>12. CASE \E p \in toRcv : processData(p) \/ hearAck2(p)
  BY <1>2, <1>12 DEF processData, hearAck2, sndVars, sndData
<1>13. CASE sendAck \/ sendLiteAck \/ Lose
  BY <1>2, <1>13 DEF sendAck, sendLiteAck, Lose, sndVars, sndData, rcvVars
<1>14. CASE UNCHANGED vars
  BY <1>2, <1>14 DEF vars, sndVars, sndData, rcvVars
<1> QED
  BY <1>6, <1>7, <1>8, <1>9, <1>10, <1>11, <1>12, <1>13, <1>14
  DEF Next, Snd, SndHears, RcvHears, Rcv, Faults

LEMMA PipeInit == Init => Pipe!Init
BY DEF Init, Pipe!Init, End

(* IsAPipe: the two sockets implement UdtPipe.  Nothing is read twice,      *)
(* skipped, exchanged or made up, and nothing is written after an orderly  *)
(* end.                                                                    *)
THEOREM SocketsAreAPipe == Spec => IsAPipe
<1>1. Init => Pipe!Init
  BY PipeInit
<1>2. IInv /\ IInv' /\ [Next]_vars => [Pipe!Next]_(Pipe!pipeVars)
  BY PipeStep
<1> QED
  BY <1>1, <1>2, Inductive, PTL DEF Spec, IsAPipe, Pipe!Spec
=============================================================================
