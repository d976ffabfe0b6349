------------------------- MODULE UdtStructuresProofs -------------------------
(***************************************************************************)
(* Machine-checked proofs about UDT's data structures.                     *)
(*                                                                         *)
(* UdtAckWindow, for any size of the ring and any number of                *)
(* acknowledgements: what it holds are always the last ones sent, from the *)
(* tail on, and store, the search and the two ways of emptying it keep     *)
(* that so, wherever the end of the array falls.                           *)
(*                                                                         *)
(* UdtEpoll, for any number of epolls and any size of the buffers.  The    *)
(* argument for silence is the one of the comment in CUDT::removeEPoll:    *)
(* between the two accesses of a removal the socket may still be told      *)
(* about, but no poll watches it any more.  The argument that nothing is   *)
(* missed: whoever changes what there is reports it afterwards, to all     *)
(* polls entered by then, and whoever enters a poll looks afterwards.      *)
(*                                                                         *)
(* UdtBuffers, for any numbers of blocks, slots and units.  The sender's   *)
(* blocks are one ring, and the queue lies in the first of them.  Each     *)
(* unit in use is in one slot of the receiver's buffer, and the second     *)
(* search for a free unit, which starts with a count that is right, looks  *)
(* at every unit but the last of each entry.  Behind what a stream socket  *)
(* has read, each packet lies at the position its number says.             *)
(*                                                                         *)
(* UdtQueues, for any sockets.  The links of the list are one sequence,    *)
(* read from either end, and the buckets of the hash table divide it; in   *)
(* the heap, each node remembers its own place.                            *)
(*                                                                         *)
(* The loops of these structures are recursive functions on the naturals.  *)
(* What a turn keeps, the loop keeps: the least turn that did not would    *)
(* follow one that did.                                                    *)
(***************************************************************************)
EXTENDS UdtAckWindow, UdtEpoll, UdtBuffers, UdtQueues, WellFoundedInduction,
        FiniteSetTheorems, SequenceTheorems, TLAPS

-----------------------------------------------------------------------------
(* The window of acknowledgements.                                         *)

Window == [seq : [0 .. AckSlots - 1 -> Int], ack : [0 .. AckSlots - 1 -> Int],
           head : 0 .. AckSlots - 1, tail : 0 .. AckSlots - 1]

\* How many acknowledgements w holds, ...
Held(w) == IF w.head >= w.tail THEN w.head - w.tail ELSE w.head + AckSlots - w.tail

\* ... the place of the k-th of them, ...
Place(w, k) == IF w.tail + k - 1 < AckSlots THEN w.tail + k - 1
               ELSE w.tail + k - 1 - AckSlots

\* ... and that they are the last that were sent, with their data.
HoldsLast(w, sent) ==
  \A k \in 1 .. Held(w) :
    /\ w.seq[Place(w, k)] = sent - Held(w) + k
    /\ w.ack[Place(w, k)] = DataOf(sent - Held(w) + k)

\* The last n of the acknowledgements sent, oldest first.
LastOf(sent, n) == [k \in 1 .. n |-> sent - n + k]

AckInv ==
  /\ ackWindow \in Window /\ ackSent \in 0 .. MaxAcks
  /\ Held(ackWindow) <= ackSent
  /\ ackList = LastOf(ackSent, Held(ackWindow))
  /\ HoldsLast(ackWindow, ackSent)

\* Going round the end of the array.
LEMMA GoesRound ==
  ASSUME NEW x \in 0 .. 2 * AckSlots - 1
  PROVE  x % AckSlots = IF x < AckSlots THEN x ELSE x - AckSlots
BY AckAssumption, SMTT(30)

\* The search of acknowledge goes through what the window holds.
LEMMA PlacesOfHeld ==
  ASSUME NEW w \in Window
  PROVE  /\ Held(w) \in 0 .. AckSlots - 1
         /\ Places(w) = [k \in 1 .. Held(w) |-> Place(w, k)]
         /\ \A k \in 1 .. Held(w) : Place(w, k) \in 0 .. AckSlots - 1
<1>1. Held(w) \in 0 .. AckSlots - 1 /\ w.tail \in 0 .. AckSlots - 1
  BY AckAssumption DEF Held, Window
<1>2. ASSUME NEW k \in 1 .. Held(w)
      PROVE  (w.tail + k - 1) % AckSlots = Place(w, k) /\ Place(w, k) \in 0 .. AckSlots - 1
  <2>1. w.tail + k - 1 \in 0 .. 2 * AckSlots - 1
    BY <1>1, AckAssumption
  <2> QED
    BY <1>1, <2>1, GoesRound, AckAssumption DEF Place
<1>3. (IF w.head >= w.tail THEN w.head ELSE w.head + AckSlots) - w.tail = Held(w)
  BY AckAssumption DEF Held, Window
<1>4. Places(w) = [k \in 1 .. Held(w) |-> (w.tail + k - 1) % AckSlots]
  BY <1>3 DEF Places
<1> QED
  BY <1>1, <1>2, <1>4

\* No two places are the same, and none is the one to be written next.
LEMMA PlacesDiffer ==
  ASSUME NEW w \in Window
  PROVE  /\ \A j, k \in 1 .. Held(w) : Place(w, j) = Place(w, k) => j = k
         /\ \A k \in 1 .. Held(w) : Place(w, k) # w.head
         /\ Place(w, Held(w) + 1) = w.head
<1>1. w.head \in 0 .. AckSlots - 1 /\ w.tail \in 0 .. AckSlots - 1 /\ AckSlots \in Nat
  BY AckAssumption DEF Window
<1>2. Held(w) \in 0 .. AckSlots - 1
  BY PlacesOfHeld
<1>3. \A j, k \in 1 .. Held(w) : Place(w, j) = Place(w, k) => j = k
  BY <1>1, <1>2 DEF Place
<1>4. \A k \in 1 .. Held(w) : Place(w, k) # w.head
  BY <1>1, <1>2 DEF Place, Held
<1>5. Place(w, Held(w) + 1) = w.head
  BY <1>1, <1>2 DEF Place, Held
<1> QED
  BY <1>3, <1>4, <1>5

\* What store does to what the window holds: one more, but for the oldest one
\* of a window that is full.
LEMMA StoreKeepsLast ==
  ASSUME NEW w \in Window, NEW sent \in Nat, Held(w) <= sent, HoldsLast(w, sent)
  PROVE  /\ Store(w, sent + 1, DataOf(sent + 1)) \in Window
         /\ Held(Store(w, sent + 1, DataOf(sent + 1)))
              = IF Held(w) = AckSlots - 1 THEN Held(w) ELSE Held(w) + 1
         /\ HoldsLast(Store(w, sent + 1, DataOf(sent + 1)), sent + 1)
<1> DEFINE v == Store(w, sent + 1, DataOf(sent + 1))
           head == IF w.head + 1 < AckSlots THEN w.head + 1 ELSE 0
           over == IF w.tail + 1 < AckSlots THEN w.tail + 1 ELSE 0
<1>1. w.head \in 0 .. AckSlots - 1 /\ w.tail \in 0 .. AckSlots - 1
  BY DEF Window
<1>2. (w.head + 1) % AckSlots = head /\ (w.tail + 1) % AckSlots = over
  BY <1>1, GoesRound, AckAssumption
<1>3. /\ v.seq = [w.seq EXCEPT ![w.head] = sent + 1]
      /\ v.ack = [w.ack EXCEPT ![w.head] = DataOf(sent + 1)]
      /\ v.head = head /\ v.tail = IF head = w.tail THEN over ELSE w.tail
  BY <1>2 DEF Store, Window
<1>4. DataOf(sent + 1) \in Int /\ AckSlots \in Nat \ {0, 1}
  BY AckAssumption DEF DataOf
<1>5. v \in Window
  <2>1. v = [seq |-> v.seq, ack |-> v.ack, head |-> v.head, tail |-> v.tail]
    <3>1. w = [seq |-> w.seq, ack |-> w.ack, head |-> w.head, tail |-> w.tail]
      BY DEF Window
    <3> DEFINE q == [w.seq EXCEPT ![w.head] = sent + 1]
               a == [w.ack EXCEPT ![w.head] = DataOf(sent + 1)]
               h == (w.head + 1) % AckSlots
               t == IF h = w.tail THEN (w.tail + 1) % AckSlots ELSE w.tail
    <3>2. v = [[seq |-> w.seq, ack |-> w.ack, head |-> w.head, tail |-> w.tail]
                 EXCEPT !.seq = q, !.ack = a, !.head = h, !.tail = t]
      BY <3>1 DEF Store
    <3> HIDE DEF q, a, h, t, v
    <3> QED
      BY <3>2
  <2>2. v.seq \in [0 .. AckSlots - 1 -> Int] /\ v.ack \in [0 .. AckSlots - 1 -> Int]
    <3>1. w.seq \in [0 .. AckSlots - 1 -> Int] /\ w.ack \in [0 .. AckSlots - 1 -> Int]
      BY DEF Window
    <3> HIDE DEF v, head, over
    <3> QED
      BY <1>1, <1>3, <1>4, <3>1
  <2>3. v.head \in 0 .. AckSlots - 1 /\ v.tail \in 0 .. AckSlots - 1
    BY <1>1, <1>3, AckAssumption
  <2> QED
    BY <2>1, <2>2, <2>3 DEF Window
<1> HIDE DEF v
<1>6. Held(v) = IF Held(w) = AckSlots - 1 THEN Held(w) ELSE Held(w) + 1
  BY <1>1, <1>3, <1>4 DEF Held
<1>7. ASSUME NEW k \in 1 .. Held(v)
      PROVE  /\ v.seq[Place(v, k)] = sent + 1 - Held(v) + k
             /\ v.ack[Place(v, k)] = DataOf(sent + 1 - Held(v) + k)
  <2> DEFINE j == IF Held(w) = AckSlots - 1 THEN k + 1 ELSE k
  <2>1. Held(w) \in 0 .. AckSlots - 1
    BY PlacesOfHeld
  <2>2. j \in 1 .. Held(w) + 1 /\ sent + 1 - Held(v) + k = sent - Held(w) + j
    BY <1>6, <2>1, AckAssumption
  <2>3. Place(v, k) = Place(w, j)
    BY <1>1, <1>3, <1>6, <2>1, AckAssumption DEF Place, Held
  <2>4. CASE j = Held(w) + 1
    <3>1. Place(v, k) = w.head
      BY <2>3, <2>4, PlacesDiffer
    <3>2. sent - Held(w) + j = sent + 1
      BY <2>1, <2>4
    <3>3. v.seq[w.head] = sent + 1 /\ v.ack[w.head] = DataOf(sent + 1)
      BY <1>1, <1>3 DEF Window
    <3> QED
      BY <2>2, <3>1, <3>2, <3>3
  <2>5. CASE j \in 1 .. Held(w)
    <3>1. Place(v, k) # w.head /\ Place(v, k) \in 0 .. AckSlots - 1
      BY <2>3, <2>5, PlacesDiffer, PlacesOfHeld
    <3>2. v.seq[Place(v, k)] = w.seq[Place(v, k)] /\ v.ack[Place(v, k)] = w.ack[Place(v, k)]
      BY <1>3, <3>1 DEF Window
    <3> HIDE DEF j
    <3> QED
      BY <2>2, <2>3, <2>5, <3>2 DEF HoldsLast
  <2> QED
    BY <2>1, <2>2, <2>4, <2>5
<1>8. HoldsLast(v, sent + 1)
  <2>1. \A k \in 1 .. Held(v) : /\ v.seq[Place(v, k)] = sent + 1 - Held(v) + k
                               /\ v.ack[Place(v, k)] = DataOf(sent + 1 - Held(v) + k)
    BY <1>7
  <2>2. Held(v) \in Int
    BY <1>6, PlacesOfHeld
  <2> QED
    BY <2>1, <2>2 DEF HoldsLast
<1> QED
  BY <1>5, <1>6, <1>8 DEF v

\* What acknowledge finds, and what the window holds afterwards: those sent
\* after the one that was found.
LEMMA AcknowledgeFinds ==
  ASSUME NEW w \in Window, NEW sent \in Nat, Held(w) <= sent, HoldsLast(w, sent),
         NEW n \in Nat, n > sent - Held(w), n <= sent
  PROVE  /\ Acknowledge(w, n).ack = DataOf(n)
         /\ Acknowledge(w, n).window \in Window
         /\ Held(Acknowledge(w, n).window) = sent - n
         /\ HoldsLast(Acknowledge(w, n).window, sent)
<1> DEFINE P == Places(w)
           k == n - (sent - Held(w))
           found == {j \in DOMAIN P : w.seq[P[j]] = n}
           i == P[CHOOSE j \in found : \A l \in found : j <= l]
           ended == IF w.head >= w.tail THEN i + 1 = w.head ELSE i = w.head
           v == IF ended THEN [w EXCEPT !.head = 0, !.tail = 0, !.seq[0] = NotFound]
                ELSE [w EXCEPT !.tail = (i + 1) % AckSlots]
<1>1. Held(w) \in 0 .. AckSlots - 1 /\ k \in 1 .. Held(w)
  BY PlacesOfHeld
<1>2. DOMAIN P = 1 .. Held(w) /\ \A j \in 1 .. Held(w) : P[j] = Place(w, j)
  BY PlacesOfHeld
<1>3. found = {k}
  <2>1. \A j \in 1 .. Held(w) : w.seq[P[j]] = sent - Held(w) + j
    BY <1>2 DEF HoldsLast
  <2> QED
    BY <1>1, <1>2, <2>1
<1>4. i = Place(w, k) /\ i \in 0 .. AckSlots - 1
  <2>1. (CHOOSE j \in found : \A l \in found : j <= l) = k
    BY <1>1, <1>3
  <2>2. i = P[k] /\ Place(w, k) \in 0 .. AckSlots - 1
    BY <1>1, <2>1, PlacesOfHeld
  <2> QED
    BY <1>1, <1>2, <2>2
<1>5. Acknowledge(w, n) = [ack |-> w.ack[i], window |-> v]
  BY <1>3 DEF Acknowledge
<1>6. w.ack[i] = DataOf(n)
  <2>1. sent - Held(w) + k = n
    BY <1>1
  <2> QED
    BY <1>1, <1>4, <2>1 DEF HoldsLast
<1>7. /\ w.head \in 0 .. AckSlots - 1 /\ w.tail \in 0 .. AckSlots - 1
      /\ w.seq \in [0 .. AckSlots - 1 -> Int] /\ w.ack \in [0 .. AckSlots - 1 -> Int]
      /\ w = [seq |-> w.seq, ack |-> w.ack, head |-> w.head, tail |-> w.tail]
      /\ AckSlots \in Nat \ {0, 1}
  BY AckAssumption DEF Window
<1> HIDE DEF found, i, P, k
<1>10. /\ w.head \in Int /\ 0 <= w.head /\ w.head < AckSlots
       /\ w.tail \in Int /\ 0 <= w.tail /\ w.tail < AckSlots
       /\ AckSlots \in Int /\ AckSlots > 1
       /\ Held(w) \in Int /\ Held(w) < AckSlots
       /\ k \in Int /\ 1 <= k /\ k <= Held(w)
  BY <1>1, <1>7
<1>8. CASE ended
  <2>1. v.head = 0 /\ v.tail = 0 /\ v \in Window
    <3>1. v = [seq |-> [w.seq EXCEPT ![0] = NotFound], ack |-> w.ack, head |-> 0, tail |-> 0]
      BY <1>7, <1>8
    <3>2. [w.seq EXCEPT ![0] = NotFound] \in [0 .. AckSlots - 1 -> Int]
      BY <1>7 DEF NotFound
    <3>3. 0 \in 0 .. AckSlots - 1
      BY <1>7
    <3> HIDE DEF v
    <3> QED
      BY <1>7, <3>1, <3>2, <3>3 DEF Window
  <2>2. n = sent
    <3>1. Place(w, k) # w.head
      BY <1>1, PlacesDiffer
    <3>2. w.head >= w.tail /\ Place(w, k) + 1 = w.head
      BY <1>4, <1>8, <3>1
    <3>3. k = Held(w)
      <4>1. Held(w) = w.head - w.tail
        BY <3>2 DEF Held
      <4>2. Place(w, k) = w.tail + k - 1
        BY <1>10, <4>1 DEF Place
      <4> QED
        BY <1>10, <3>2, <4>1, <4>2
    <3> QED
      BY <1>1, <3>3 DEF k
  <2>3. Held(v) = 0
    BY <2>1 DEF Held
  <2> HIDE DEF v
  <2>4. HoldsLast(v, sent)
    BY <2>3 DEF HoldsLast
  <2> QED
    BY <1>5, <1>6, <2>1, <2>2, <2>3, <2>4
<1>9. CASE ~ended
  <2> DEFINE next == IF i + 1 < AckSlots THEN i + 1 ELSE 0
  <2>1. (i + 1) % AckSlots = next
    BY <1>4, GoesRound, AckAssumption
  <2>2. /\ v.head = w.head /\ v.tail = next /\ v.seq = w.seq /\ v.ack = w.ack
        /\ v \in Window
    <3>1. v = [seq |-> w.seq, ack |-> w.ack, head |-> w.head, tail |-> next]
      BY <1>7, <1>9, <2>1
    <3>2. next \in 0 .. AckSlots - 1
      BY <1>4, <1>7
    <3> HIDE DEF v, next
    <3> QED
      BY <1>7, <3>1, <3>2 DEF Window
  <2> HIDE DEF v
  <2>3. Held(v) = Held(w) - k
    <3>1. i = w.head => w.head < w.tail
      BY <1>1, <1>4, PlacesDiffer
    <3>2. w.head >= w.tail => i + 1 # w.head
      BY <1>9
    <3>3. i # w.head
      BY <1>1, <1>4, PlacesDiffer
    <3>4. CASE w.head >= w.tail
      <4>1. Held(w) = w.head - w.tail
        BY <3>4 DEF Held
      <4>2. i = w.tail + k - 1
        BY <1>4, <1>10, <4>1 DEF Place
      <4>3. next = i + 1 /\ i + 1 < w.head
        BY <1>10, <3>2, <3>4, <4>1, <4>2
      <4>4. Held(v) = w.head - next
        BY <1>10, <2>2, <4>2, <4>3 DEF Held
      <4> QED
        BY <1>10, <4>1, <4>2, <4>3, <4>4
    <3>5. CASE w.head < w.tail
      <4>1. Held(w) = w.head + AckSlots - w.tail
        BY <1>7, <3>5 DEF Held
      <4>2. CASE w.tail + k - 1 < AckSlots
        <5>1. i = w.tail + k - 1
          BY <1>4, <4>2 DEF Place
        <5>2. v.head = w.head /\ v.tail = (IF i + 1 < AckSlots THEN i + 1 ELSE 0)
          BY <2>2
        <5> QED
          BY <1>10, <3>3, <3>5, <4>1, <4>2, <5>1, <5>2 DEF Held
      <4>3. CASE ~(w.tail + k - 1 < AckSlots)
        <5>1. i = w.tail + k - 1 - AckSlots
          BY <1>4, <4>3 DEF Place
        <5>2. v.head = w.head /\ v.tail = (IF i + 1 < AckSlots THEN i + 1 ELSE 0)
          BY <2>2
        <5> QED
          BY <1>10, <3>3, <3>5, <4>1, <4>3, <5>1, <5>2 DEF Held
      <4> QED
        BY <4>2, <4>3
    <3> QED
      BY <1>7, <3>4, <3>5
  <2>4. ASSUME NEW j \in 1 .. Held(v)
        PROVE  /\ v.seq[Place(v, j)] = sent - Held(v) + j
               /\ v.ack[Place(v, j)] = DataOf(sent - Held(v) + j)
    <3>1. k + j \in 1 .. Held(w) /\ sent - Held(v) + j = sent - Held(w) + (k + j)
      BY <1>1, <2>3
    <3>2. Place(v, j) = Place(w, k + j)
      <4>1. i = IF w.tail + k - 1 < AckSlots THEN w.tail + k - 1 ELSE w.tail + k - 1 - AckSlots
        BY <1>4 DEF Place
      <4>2. w.tail + (k + j) - 1 < 2 * AckSlots
        BY <1>10, <3>1
      <4>3. Place(v, j) = IF next + j - 1 < AckSlots THEN next + j - 1 ELSE next + j - 1 - AckSlots
        BY <2>2 DEF Place
      <4>4. Place(w, k + j) = IF w.tail + (k + j) - 1 < AckSlots THEN w.tail + (k + j) - 1
                              ELSE w.tail + (k + j) - 1 - AckSlots
        BY DEF Place
      <4>5. Held(v) \in Int /\ j \in Int /\ 1 <= j /\ k + j < AckSlots
        BY <1>10, <2>3, <3>1
      <4> QED
        BY <1>10, <4>1, <4>2, <4>3, <4>4, <4>5
    <3> QED
      BY <2>2, <3>1, <3>2 DEF HoldsLast
  <2>5. HoldsLast(v, sent) /\ Held(v) = sent - n
    BY <1>1, <2>3, <2>4 DEF HoldsLast, k
  <2> QED
    BY <1>5, <1>6, <2>2, <2>5
<1> QED
  BY <1>8, <1>9

\* A confirmation of anything else finds nothing and changes nothing.
LEMMA AcknowledgeMisses ==
  ASSUME NEW w \in Window, NEW sent \in Nat, Held(w) <= sent, HoldsLast(w, sent),
         NEW n \in Nat, n <= sent - Held(w) \/ n > sent
  PROVE  Acknowledge(w, n) = [ack |-> NotFound, window |-> w]
<1>1. Held(w) \in 0 .. AckSlots - 1 /\ DOMAIN Places(w) = 1 .. Held(w)
  BY PlacesOfHeld
<1>2. \A j \in 1 .. Held(w) : w.seq[Places(w)[j]] = sent - Held(w) + j
  BY PlacesOfHeld DEF HoldsLast
<1>3. {j \in DOMAIN Places(w) : w.seq[Places(w)[j]] = n} = {}
  BY <1>1, <1>2
<1> QED
  BY <1>3 DEF Acknowledge

\* The list as a sequence.
LEMMA ListOfLast ==
  ASSUME NEW sent \in Nat, NEW c \in 0 .. sent
  PROVE  /\ LastOf(sent, c) \in Seq(Int) /\ Len(LastOf(sent, c)) = c
         /\ ToSet(LastOf(sent, c)) = {n \in Int : n > sent - c /\ n <= sent}
<1>1. LastOf(sent, c) \in Seq(Int) /\ Len(LastOf(sent, c)) = c
  BY DEF LastOf
<1>2. \A n \in Int : n > sent - c /\ n <= sent
        => n - (sent - c) \in 1 .. c /\ LastOf(sent, c)[n - (sent - c)] = n
  BY DEF LastOf
<1>3. \A k \in 1 .. c : LastOf(sent, c)[k] \in {n \in Int : n > sent - c /\ n <= sent}
  BY DEF LastOf
<1>4. DOMAIN LastOf(sent, c) = 1 .. c
  BY DEF LastOf
<1> QED
  BY <1>1, <1>2, <1>3, <1>4 DEF ToSet

\* sendCtrl stores the acknowledgement it sends.
LEMMA SendsAck == ASSUME AckInv, AckSend PROVE AckInv'
<1> DEFINE c == Held(ackWindow)
           l == Append(ackList, ackSent + 1)
<1>1. /\ ackWindow \in Window /\ ackSent \in Nat /\ c <= ackSent
      /\ c \in 0 .. AckSlots - 1 /\ c \in 0 .. ackSent
      /\ ackList = LastOf(ackSent, c)
  BY PlacesOfHeld DEF AckInv
<1>2. /\ ackSent' = ackSent + 1 /\ ackSent' \in 0 .. MaxAcks
      /\ ackWindow' = Store(ackWindow, ackSent + 1, DataOf(ackSent + 1))
      /\ ackList' = IF Len(l) = AckSlots THEN Tail(l) ELSE l
  BY AckAssumption DEF AckInv, AckSend
<1>3. /\ ackWindow' \in Window /\ HoldsLast(ackWindow', ackSent + 1)
      /\ Held(ackWindow') = IF c = AckSlots - 1 THEN c ELSE c + 1
  BY <1>1, <1>2, StoreKeepsLast DEF AckInv
<1> HIDE DEF c
<1>4. l = LastOf(ackSent + 1, c + 1)
  <2>1. ackList \in Seq(Int) /\ Len(ackList) = c
    BY <1>1, ListOfLast
  <2>2. l \in Seq(Int) /\ Len(l) = c + 1 /\ l[c + 1] = ackSent + 1
    BY <1>1, <2>1
  <2>3. \A k \in 1 .. c : l[k] = ackSent + 1 - (c + 1) + k
    BY <1>1, <2>1 DEF LastOf
  <2>4. l = [k \in 1 .. c + 1 |-> l[k]]
    BY <2>2
  <2> HIDE DEF l
  <2>5. \A k \in 1 .. c + 1 : l[k] = ackSent + 1 - (c + 1) + k
    BY <1>1, <2>2, <2>3
  <2> QED
    BY <1>1, <2>4, <2>5 DEF LastOf
<1>5. Len(l) = c + 1
  BY <1>1, <1>4, ListOfLast
<1>6. c = AckSlots - 1 => Tail(l) = LastOf(ackSent + 1, c)
  <2>1. l \in Seq(Int) /\ \A k \in 1 .. c : l[k + 1] = ackSent + 1 - c + k
    BY <1>1, <1>4, ListOfLast DEF LastOf
  <2>2. Tail(l) \in Seq(Int) /\ Len(Tail(l)) = c /\ \A k \in 1 .. c : Tail(l)[k] = l[k + 1]
    BY <1>1, <1>5, <2>1
  <2>3. Tail(l) = [k \in 1 .. c |-> Tail(l)[k]]
    BY <2>2
  <2>4. \A k \in 1 .. c : Tail(l)[k] = ackSent + 1 - c + k
    BY <2>1, <2>2
  <2> DEFINE u == Tail(l)
  <2> HIDE DEF u
  <2>5. u = [k \in 1 .. c |-> u[k]] /\ \A k \in 1 .. c : u[k] = ackSent + 1 - c + k
    BY <2>3, <2>4 DEF u
  <2>6. u = LastOf(ackSent + 1, c)
    BY <1>1, <2>5 DEF LastOf
  <2> QED
    BY <2>6 DEF u
<1> HIDE DEF l
<1>7. ackList' = LastOf(ackSent + 1, Held(ackWindow'))
  <2>1. CASE c = AckSlots - 1
    BY <1>2, <1>3, <1>5, <1>6, <2>1, AckAssumption
  <2>2. CASE c # AckSlots - 1
    BY <1>1, <1>2, <1>3, <1>4, <1>5, <2>2, AckAssumption
  <2> QED
    BY <2>1, <2>2
<1>8. Held(ackWindow') <= ackSent + 1
  BY <1>1, <1>3
<1> QED
  BY <1>2, <1>3, <1>7, <1>8 DEF AckInv

\* processCtrl of a confirmation, late, repeated or in time.
LEMMA ConfirmsAck == ASSUME AckInv, NEW n \in 1 .. MaxAcks, AckConfirmed(n) PROVE AckInv'
<1> DEFINE c == Held(ackWindow)
           k == n - (ackSent - c)
<1>1. /\ ackWindow \in Window /\ ackSent \in Nat /\ c <= ackSent /\ n \in Nat
      /\ c \in 0 .. AckSlots - 1 /\ c \in 0 .. ackSent
      /\ ackList = LastOf(ackSent, c)
  BY PlacesOfHeld DEF AckInv
<1>2. /\ ackSent' = ackSent /\ ackWindow' = Acknowledge(ackWindow, n).window
      /\ ackList' = IF n \in ToSet(ackList) THEN Behind(ackList, n) ELSE ackList
  BY DEF AckConfirmed
<1>3. /\ (n \in ToSet(ackList)) <=> (n > ackSent - c /\ n <= ackSent)
      /\ ackList \in Seq(Int) /\ Len(ackList) = c
  <2>1. ToSet(ackList) = {m \in Int : m > ackSent - c /\ m <= ackSent}
    BY <1>1, ListOfLast
  <2>2. ackList \in Seq(Int) /\ Len(ackList) = c
    BY <1>1, ListOfLast
  <2> QED
    BY <1>1, <2>1, <2>2
<1>4. CASE n \in ToSet(ackList)
  <2>1. /\ ackWindow' \in Window /\ HoldsLast(ackWindow', ackSent)
        /\ Held(ackWindow') = ackSent - n
    BY <1>1, <1>2, <1>3, <1>4, AcknowledgeFinds DEF AckInv
  <2>2. (CHOOSE j \in DOMAIN ackList : ackList[j] = n) = k
    <3>1. k \in DOMAIN ackList /\ \A j \in DOMAIN ackList : ackList[j] = n <=> j = k
      BY <1>1, <1>3, <1>4 DEF LastOf
    <3> QED
      BY <3>1
  <2> HIDE DEF c
  <2>3. ackList' = SubSeq(ackList, 1 + k, c)
    <3>1. ackList' = SubSeq(ackList, 1 + k, Len(ackList))
      BY <1>2, <1>4, <2>2 DEF Behind
    <3> QED
      BY <1>3, <3>1
  <2>4. ackList' = LastOf(ackSent, ackSent - n)
    <3>1. k \in 1 .. c /\ c - k = ackSent - n
      BY <1>1, <1>3, <1>4
    <3>2. SubSeq(ackList, 1 + k, c) = [j \in 1 .. c - k |-> ackList[k + j]]
      BY <1>1, <1>3, <3>1
    <3>3. \A j \in 1 .. c - k : ackList[k + j] = ackSent - (ackSent - n) + j
      BY <1>1, <3>1 DEF LastOf
    <3> HIDE DEF k
    <3> QED
      BY <2>3, <3>1, <3>2, <3>3 DEF LastOf
  <2> QED
    BY <1>1, <1>2, <1>3, <1>4, <2>1, <2>4 DEF AckInv
<1>5. CASE n \notin ToSet(ackList)
  <2>1. ackWindow' = ackWindow
    BY <1>1, <1>2, <1>3, <1>5, AcknowledgeMisses DEF AckInv
  <2> QED
    BY <1>2, <1>5, <2>1 DEF AckInv
<1> QED
  BY <1>4, <1>5

\* In the states of the invariant, the window is the list.
LEMMA InvIsTheList == AckInv => WindowIsTheList
<1> SUFFICES ASSUME AckInv PROVE WindowIsTheList
  OBVIOUS
<1> DEFINE c == Held(ackWindow)
<1>1. ackWindow \in Window /\ ackSent \in Nat /\ c <= ackSent /\ c \in 0 .. ackSent
  BY PlacesOfHeld DEF AckInv
<1>2. [k \in DOMAIN Places(ackWindow) |-> ackWindow.seq[Places(ackWindow)[k]]] = ackList
  BY <1>1, PlacesOfHeld DEF AckInv, HoldsLast, LastOf
<1>3. ASSUME NEW n \in 1 .. MaxAcks
      PROVE  Acknowledge(ackWindow, n).ack
               = IF n \in ToSet(ackList) THEN DataOf(n) ELSE NotFound
  <2>1. (n \in ToSet(ackList)) <=> (n > ackSent - c /\ n <= ackSent)
    <3>1. ToSet(ackList) = {m \in Int : m > ackSent - c /\ m <= ackSent}
      BY <1>1, ListOfLast DEF AckInv
    <3> QED
      BY <3>1
  <2> QED
    BY <1>1, <2>1, AcknowledgeFinds, AcknowledgeMisses DEF AckInv
<1> QED
  BY <1>2, <1>3 DEF WindowIsTheList

LEMMA InitiallyEmpty == AckInit => AckInv
<1> SUFFICES ASSUME AckInit PROVE AckInv
  OBVIOUS
<1>1. ackWindow \in Window /\ Held(ackWindow) = 0
  BY AckAssumption DEF AckInit, NewAckWindow, Window, Held, NotFound
<1>2. ackList = LastOf(0, 0)
  BY DEF AckInit, LastOf
<1> QED
  BY <1>1, <1>2, AckAssumption DEF AckInit, AckInv, HoldsLast

(* The ring of CACKWindow, overwriting its oldest entries and emptied from *)
(* either end of the array, answers each confirmation as the plain list of *)
(* unconfirmed acknowledgements would: for any size of the ring, however   *)
(* confirmations are lost, repeated and delayed.                           *)
THEOREM WindowIsAlwaysTheList == AckSpec => []WindowIsTheList
<1>1. AckInv /\ [AckStep]_ackVars => AckInv'
  <2> SUFFICES ASSUME AckInv, [AckStep]_ackVars PROVE AckInv'
    OBVIOUS
  <2>1. CASE UNCHANGED ackVars
    BY <2>1 DEF AckInv, ackVars
  <2> QED
    BY <2>1, SendsAck, ConfirmsAck DEF AckStep
<1> QED
  BY InitiallyEmpty, <1>1, InvIsTheList, PTL DEF AckSpec

-----------------------------------------------------------------------------
(* The epolls.                                                             *)

\* What holds of the call in progress: one that enters a poll has taken it off
\* the record of removals; one that takes the socket out has ended the watch.
UserInv ==
  /\ user.at \in {"insert", "test", "tell"} => user.eid \notin dropped
  /\ user.at \in {"clear", "erase"} => polls[user.eid].watch = {}
  /\ user.at = "erase" => polls[user.eid].ready = {}

\* Out of a poll means that its id is not in m_sPollID, and that a poll that
\* is not there watches nothing.
PollInv ==
  /\ \A e \in dropped : e \notin pollIds
  /\ \A e \in Eids : ~Live(e) => polls[e].watch = {} /\ polls[e].ready = {}

IInv == EpTypeOK /\ UserInv /\ PollInv /\ RemovedIsSilent /\ NothingMissed

-----------------------------------------------------------------------------
\* What m_mPolls holds under an id.
Poll == [state : {"none", "live", "gone"},
         watch : SUBSET Events, ready : SUBSET Events]

(* What CEPoll::update_events does to the polls E: it leaves what is       *)
(* watched alone, and what is ready of a poll that does not watch; what it *)
(* tells becomes ready where it is watched, what it takes back is ready    *)
(* nowhere.                                                                *)
Told(new, E, evs) ==
  /\ new \in [Eids -> Poll]
  /\ \A e \in Eids :
       /\ new[e].state = polls[e].state
       /\ new[e].watch = polls[e].watch
       /\ polls[e].ready \subseteq new[e].ready
       /\ polls[e].watch = {} => new[e].ready = polls[e].ready
       /\ e \notin E \/ ~Live(e) => new[e] = polls[e]
       /\ e \in E /\ Live(e) => evs \cap polls[e].watch \subseteq new[e].ready

TakenBack(new, E, evs) ==
  /\ new \in [Eids -> Poll]
  /\ \A e \in Eids :
       /\ new[e].state = polls[e].state
       /\ new[e].watch = polls[e].watch
       /\ new[e].ready \subseteq polls[e].ready
       /\ e \notin E \/ ~Live(e) => new[e] = polls[e]
       /\ e \in E /\ Live(e) => new[e].ready = polls[e].ready \ evs

\* Telling is what its name says, ...
LEMMA UpdatedIsTold ==
  ASSUME EpTypeOK, NEW E \in SUBSET Eids, NEW evs, NEW new,
         new = Updated(E, evs, TRUE)
  PROVE  Told(new, E, evs)
<1>1. polls \in [Eids -> Poll]
  BY DEF EpTypeOK, Poll
<1>2. new = [e \in Eids |-> IF e \notin E \/ ~Live(e) THEN polls[e]
                            ELSE [polls[e] EXCEPT !.ready = @ \cup (evs \cap polls[e].watch)]]
  BY Zenon DEF Updated
<1>3. \A e \in Eids : new[e] = IF e \notin E \/ ~Live(e) THEN polls[e]
                            ELSE [polls[e] EXCEPT !.ready = @ \cup (evs \cap polls[e].watch)]
  BY <1>2
<1>4. ASSUME NEW e \in Eids
      PROVE  /\ new[e] \in Poll
             /\ new[e].state = polls[e].state
             /\ new[e].watch = polls[e].watch
             /\ polls[e].ready \subseteq new[e].ready
             /\ polls[e].watch = {} => new[e].ready = polls[e].ready
             /\ e \notin E \/ ~Live(e) => new[e] = polls[e]
             /\ e \in E /\ Live(e) => evs \cap polls[e].watch \subseteq new[e].ready
  <2>1. polls[e] \in Poll
    BY <1>1
  <2>2. CASE e \notin E \/ ~Live(e)
    BY <1>3, <2>1, <2>2
  <2>3. CASE e \in E /\ Live(e)
    <3>1. new[e] = [polls[e] EXCEPT !.ready = @ \cup (evs \cap polls[e].watch)]
      BY <1>3, <2>3
    <3>2. /\ new[e].ready = polls[e].ready \cup (evs \cap polls[e].watch)
          /\ new[e].state = polls[e].state /\ new[e].watch = polls[e].watch
      BY <2>1, <3>1 DEF Poll
    <3>3. polls[e].ready \cup (evs \cap polls[e].watch) \in SUBSET Events
      BY <2>1 DEF Poll
    <3>4. new[e] \in Poll
      BY <2>1, <3>1, <3>3 DEF Poll
    <3> QED
      BY <2>3, <3>2, <3>4
  <2> QED
    BY <2>2, <2>3
<1>5. new \in [Eids -> Poll]
  BY <1>2, <1>4
<1> QED
  BY <1>4, <1>5 DEF Told

\* ... and so is taking back.
LEMMA UpdatedIsTakenBack ==
  ASSUME EpTypeOK, NEW E \in SUBSET Eids, NEW evs, NEW new,
         new = Updated(E, evs, FALSE)
  PROVE  TakenBack(new, E, evs)
<1>1. polls \in [Eids -> Poll]
  BY DEF EpTypeOK, Poll
<1>2. new = [e \in Eids |-> IF e \notin E \/ ~Live(e) THEN polls[e]
                            ELSE [polls[e] EXCEPT !.ready = @ \ evs]]
  BY Zenon DEF Updated
<1>3. \A e \in Eids : new[e] = IF e \notin E \/ ~Live(e) THEN polls[e]
                            ELSE [polls[e] EXCEPT !.ready = @ \ evs]
  BY <1>2
<1>4. ASSUME NEW e \in Eids
      PROVE  /\ new[e] \in Poll
             /\ new[e].state = polls[e].state
             /\ new[e].watch = polls[e].watch
             /\ new[e].ready \subseteq polls[e].ready
             /\ e \notin E \/ ~Live(e) => new[e] = polls[e]
             /\ e \in E /\ Live(e) => new[e].ready = polls[e].ready \ evs
  <2>1. polls[e] \in Poll
    BY <1>1
  <2>2. CASE e \notin E \/ ~Live(e)
    BY <1>3, <2>1, <2>2
  <2>3. CASE e \in E /\ Live(e)
    <3>1. new[e] = [polls[e] EXCEPT !.ready = @ \ evs]
      BY <1>3, <2>3
    <3>2. /\ new[e].ready = polls[e].ready \ evs
          /\ new[e].state = polls[e].state /\ new[e].watch = polls[e].watch
      BY <2>1, <3>1 DEF Poll
    <3>3. polls[e].ready \ evs \in SUBSET Events
      BY <2>1 DEF Poll
    <3>4. new[e] \in Poll
      BY <2>1, <3>1, <3>3 DEF Poll
    <3> QED
      BY <2>3, <3>2, <3>4
  <2> QED
    BY <2>2, <2>3
<1>5. new \in [Eids -> Poll]
  BY <1>2, <1>4
<1> QED
  BY <1>4, <1>5 DEF TakenBack

\* The invariant holds of the sockets the program starts with.
LEMMA InitInv == EpInit => IInv
<1> SUFFICES ASSUME EpInit PROVE IInv
  OBVIOUS
<1>1. EpTypeOK
  <2>1. stock \in 0 .. MaxStock
    BY EpollAssumption DEF EpInit
  <2> QED
    BY <2>1 DEF EpInit, EpTypeOK, Idle, Events
<1>2. UserInv /\ PollInv /\ RemovedIsSilent /\ NothingMissed
  BY DEF EpInit, UserInv, PollInv, RemovedIsSilent, NothingMissed, Idle, Live
<1> QED
  BY <1>1, <1>2 DEF IInv

-----------------------------------------------------------------------------
(* The calls of the program.                                               *)

LEMMA PollsCalls ==
  ASSUME IInv, NEW e \in Eids, create(e) \/ release(e)
  PROVE  IInv'
<1> USE DEF IInv
<1>1. user = Idle
  BY DEF create, release, EpTypeOK, Idle
<1>2. /\ UNCHANGED <<pollIds, conn, located, kind, stock, user, io, teller,
                     closer, dropped, missed, torn>>
      /\ polls' \in [Eids -> Poll]
      /\ \A d \in Eids \ {e} : polls'[d] = polls[d]
      /\ polls'[e].watch = {} /\ polls'[e].ready = {}
  BY DEF create, release, EpTypeOK, PollInv, Live, Poll
<1>3. EpTypeOK'
  BY <1>2 DEF EpTypeOK, Poll
<1>4. UserInv'
  BY <1>1, <1>2 DEF UserInv, Idle
<1>5. PollInv'
  BY <1>2 DEF PollInv, Live, EpTypeOK
<1>6. RemovedIsSilent'
  BY <1>2 DEF RemovedIsSilent, EpTypeOK
<1>7. NothingMissed'
  BY <1>2 DEF NothingMissed, Live, Offers, EpTypeOK
<1> QED
  BY <1>3, <1>4, <1>5, <1>6, <1>7

LEMMA Enters ==
  ASSUME IInv, NEW e \in Eids, NEW evs \in SUBSET Events, add_usock(e, evs)
  PROVE  IInv'
<1> USE DEF IInv
<1>1. user = Idle /\ user' = [at |-> "insert", eid |-> e]
  BY DEF add_usock, EpTypeOK, Idle
<1>2. /\ UNCHANGED <<pollIds, conn, located, kind, stock, io, teller,
                     closer, missed, torn>>
      /\ dropped' = dropped \ {e}
      /\ polls' \in [Eids -> Poll]
      /\ \A d \in Eids \ {e} : polls'[d] = polls[d]
      /\ polls'[e].state = "live"
  BY DEF add_usock, EpTypeOK, Live, Poll
<1>3. EpTypeOK'
  BY <1>1, <1>2 DEF EpTypeOK, Poll
<1>4. UserInv'
  BY <1>1, <1>2 DEF UserInv
<1>5. PollInv'
  BY <1>2 DEF PollInv, Live, EpTypeOK
<1>6. RemovedIsSilent'
  BY <1>2 DEF RemovedIsSilent, EpTypeOK
<1>7. NothingMissed'
  BY <1>1, <1>2 DEF NothingMissed, Live, Offers, EpTypeOK, Idle
<1> QED
  BY <1>3, <1>4, <1>5, <1>6, <1>7

LEMMA LooksAfterwards ==
  ASSUME IInv, addEPoll \/ addTests
  PROVE  IInv'
<1> USE DEF IInv
<1>1. user.at \in {"insert", "test"} /\ user.eid \in Eids
  BY DEF addEPoll, addTests, EpTypeOK, Idle
<1>2. /\ UNCHANGED <<polls, conn, located, kind, stock, io, teller, closer,
                     dropped, missed, torn>>
      /\ pollIds \subseteq pollIds' /\ pollIds' \subseteq pollIds \cup {user.eid}
      /\ \/ user' = Idle /\ (conn # "open" \/ (~Offers /\ pollIds' = pollIds))
         \/ user' \in [at : {"test", "tell"}, eid : {user.eid}]
  BY <1>1 DEF addEPoll, addTests, AfterInsert, EpTypeOK, Idle
<1>3. EpTypeOK'
  BY <1>1, <1>2 DEF EpTypeOK, Poll
<1>4. UserInv'
  BY <1>1, <1>2 DEF UserInv, Idle
<1>5. PollInv'
  BY <1>1, <1>2 DEF PollInv, Live, UserInv
<1>6. RemovedIsSilent'
  BY <1>2 DEF RemovedIsSilent
<1>7. NothingMissed'
  BY <1>1, <1>2 DEF NothingMissed, Live, Offers, Idle
<1> QED
  BY <1>3, <1>4, <1>5, <1>6, <1>7

LEMMA TakesOut ==
  ASSUME IInv, NEW e \in Eids, remove_usock(e)
  PROVE  IInv'
<1> USE DEF IInv
<1>1. user = Idle /\ user' \in {Idle, [at |-> "clear", eid |-> e]}
  BY DEF remove_usock, EpTypeOK, Idle
<1>2. /\ UNCHANGED <<pollIds, conn, located, kind, stock, io, teller, closer,
                     dropped, missed, torn>>
      /\ polls' \in [Eids -> Poll]
      /\ \A d \in Eids \ {e} : polls'[d] = polls[d]
      /\ polls'[e].watch = {} /\ polls'[e].state = "live"
      /\ polls'[e].ready = polls[e].ready
  BY DEF remove_usock, EpTypeOK, Live, Unwatched, Poll
<1>3. EpTypeOK'
  BY <1>1, <1>2 DEF EpTypeOK, Poll
<1>4. UserInv'
  BY <1>1, <1>2 DEF UserInv, Idle
<1>5. PollInv'
  BY <1>2 DEF PollInv, Live, EpTypeOK
<1>6. RemovedIsSilent'
  BY <1>2 DEF RemovedIsSilent, EpTypeOK
<1>7. NothingMissed'
  BY <1>1, <1>2 DEF NothingMissed, Live, Offers, EpTypeOK, Idle
<1> QED
  BY <1>3, <1>4, <1>5, <1>6, <1>7

LEMMA Clears ==
  ASSUME IInv, removeEPollClears
  PROVE  IInv'
<1> USE DEF IInv
<1>1. /\ user.at = "clear" /\ user.eid \in Eids
      /\ user' = [at |-> "erase", eid |-> user.eid]
  BY DEF removeEPollClears, EpTypeOK, Idle
<1>2. /\ UNCHANGED <<pollIds, conn, located, kind, stock, io, teller, closer,
                     dropped, missed, torn>>
      /\ polls' = Updated({user.eid}, Events, FALSE)
  BY DEF removeEPollClears
<1>3. /\ polls' \in [Eids -> Poll]
      /\ \A d \in Eids : /\ polls'[d].state = polls[d].state
                         /\ polls'[d].watch = polls[d].watch
                         /\ polls'[d].ready \subseteq polls[d].ready
                         /\ d # user.eid => polls'[d] = polls[d]
      /\ Live(user.eid) => polls'[user.eid].ready = polls[user.eid].ready \ Events
  <2>1. {user.eid} \in SUBSET Eids /\ user.eid \in {user.eid}
    BY <1>1
  <2> HIDE DEF IInv
  <2>2. EpTypeOK
    BY DEF IInv
  <2>3. TakenBack(polls', {user.eid}, Events)
    BY <1>2, <2>1, <2>2, UpdatedIsTakenBack, Zenon
  <2> QED
    BY <1>1, <2>1, <2>3 DEF TakenBack
<1>4. polls'[user.eid].ready = {}
  <2>1. polls[user.eid].ready \subseteq Events
    BY <1>1 DEF EpTypeOK
  <2> QED
    BY <1>1, <1>3, <2>1 DEF PollInv
<1>5. EpTypeOK'
  BY <1>1, <1>2, <1>3 DEF EpTypeOK, Poll
<1>6. UserInv'
  BY <1>1, <1>2, <1>3, <1>4 DEF UserInv
<1>7. PollInv'
  BY <1>2, <1>3 DEF PollInv, Live
<1>8. RemovedIsSilent'
  BY <1>2, <1>3 DEF RemovedIsSilent, EpTypeOK
<1>9. NothingMissed'
  BY <1>1, <1>2, <1>3 DEF NothingMissed, Live, Offers, EpTypeOK
<1> QED
  BY <1>5, <1>6, <1>7, <1>8, <1>9

LEMMA Erases ==
  ASSUME IInv, removeEPollErases
  PROVE  IInv'
<1> USE DEF IInv
<1>1. user.at = "erase" /\ user.eid \in Eids /\ user' = Idle
  BY DEF removeEPollErases, EpTypeOK, Idle
<1>2. /\ UNCHANGED <<polls, conn, located, kind, stock, io, teller, closer,
                     missed, torn>>
      /\ pollIds' = pollIds \ {user.eid} /\ dropped' = dropped \cup {user.eid}
  BY DEF removeEPollErases
<1>3. EpTypeOK'
  BY <1>1, <1>2 DEF EpTypeOK, Poll
<1>4. UserInv' /\ PollInv'
  BY <1>1, <1>2 DEF UserInv, PollInv, Live, Idle
<1>5. RemovedIsSilent'
  BY <1>1, <1>2 DEF RemovedIsSilent, UserInv
<1>6. NothingMissed'
  BY <1>1, <1>2 DEF NothingMissed, Live, Offers
<1> QED
  BY <1>3, <1>4, <1>5, <1>6

-----------------------------------------------------------------------------
(* Those who report: addEPoll itself, recv and send, the receiver thread,  *)
(* CUDT::close.                                                            *)

LEMMA Reports ==
  ASSUME IInv, NEW evs,
         \/ polls' = Updated(pollIds, evs, TRUE)
         \/ polls' = Updated(pollIds, evs, FALSE),
         pollIds' \subseteq pollIds, UNCHANGED dropped,
         user' = user \/ user' = Idle
  PROVE  /\ polls' \in [Eids -> Poll]
         /\ UserInv' /\ PollInv' /\ RemovedIsSilent'
<1>1. EpTypeOK /\ UserInv /\ PollInv /\ RemovedIsSilent
  BY DEF IInv
<1>2. pollIds \in SUBSET Eids /\ dropped \subseteq Eids
  BY <1>1 DEF EpTypeOK
<1>3. /\ polls' \in [Eids -> Poll]
      /\ \A d \in Eids :
           /\ polls'[d].state = polls[d].state
           /\ polls'[d].watch = polls[d].watch
           /\ polls[d].watch = {} => polls'[d].ready \subseteq polls[d].ready
           /\ d \notin pollIds \/ ~Live(d) => polls'[d] = polls[d]
  <2>1. CASE polls' = Updated(pollIds, evs, TRUE)
    <3>1. Told(polls', pollIds, evs)
      BY <1>1, <1>2, <2>1, UpdatedIsTold, Zenon
    <3> QED
      BY <3>1 DEF Told
  <2>2. CASE polls' = Updated(pollIds, evs, FALSE)
    <3>1. TakenBack(polls', pollIds, evs)
      BY <1>1, <1>2, <2>2, UpdatedIsTakenBack, Zenon
    <3> QED
      BY <3>1 DEF TakenBack
  <2> QED
    BY <2>1, <2>2
<1>4. UserInv'
  <2>1. CASE user' = Idle
    BY <2>1 DEF UserInv, Idle
  <2>2. CASE user' = user /\ user # Idle
    <3>1. user.eid \in Eids
      BY <1>1, <2>2 DEF EpTypeOK
    <3> QED
      BY <1>1, <1>3, <2>2, <3>1 DEF UserInv
  <2> QED
    BY <2>1, <2>2
<1>5. PollInv'
  BY <1>1, <1>2, <1>3 DEF PollInv, Live
<1>6. RemovedIsSilent'
  BY <1>1, <1>2, <1>3 DEF RemovedIsSilent, PollInv
<1> QED
  BY <1>3, <1>4, <1>5, <1>6

LEMMA Tells ==
  ASSUME IInv, addTells \/ tells
  PROVE  IInv'
<1>1. EpTypeOK /\ NothingMissed
  BY DEF IInv
<1>2. PICK evs :
        /\ kind \in evs /\ missed' = FALSE
        /\ polls' = Updated(pollIds, evs, TRUE)
        /\ pollIds' = {e \in pollIds : Live(e)}
        /\ user' = user \/ user' = Idle
        /\ teller' = teller \/ teller' = {}
        /\ UNCHANGED <<conn, located, kind, stock, io, closer, dropped, torn>>
  <2>1. CASE addTells
    BY <2>1, kind \in {kind} DEF addTells, update_events
  <2>2. CASE tells
    BY <1>1, <2>2 DEF tells, update_events, EpTypeOK
  <2> QED
    BY <2>1, <2>2
<1>3. pollIds' \subseteq pollIds /\ pollIds \in SUBSET Eids
  BY <1>1, <1>2 DEF EpTypeOK, Poll
<1>4. polls' \in [Eids -> Poll] /\ UserInv' /\ PollInv' /\ RemovedIsSilent'
  BY <1>2, <1>3, Reports
<1>5. EpTypeOK'
  BY <1>1, <1>2, <1>3, <1>4 DEF EpTypeOK, Poll
<1>6. \A e \in pollIds' : kind \in polls'[e].watch => kind \in polls'[e].ready
  <2>1. \A e \in pollIds : /\ polls'[e].watch = polls[e].watch
                           /\ Live(e) => evs \cap polls[e].watch \subseteq polls'[e].ready
    <3>1. Told(polls', pollIds, evs)
      BY <1>1, <1>2, <1>3, UpdatedIsTold, Zenon
    <3> QED
      BY <1>3, <3>1 DEF Told
  <2> QED
    BY <1>2, <2>1
<1>7. NothingMissed'
  BY <1>2, <1>6 DEF NothingMissed
<1> QED
  BY <1>4, <1>5, <1>7 DEF IInv

LEMMA TakesBack ==
  ASSUME IInv, takesBack
  PROVE  IInv'
<1>1. EpTypeOK
  BY DEF IInv
<1>2. /\ polls' = Updated(pollIds, {kind}, FALSE)
      /\ pollIds' \subseteq pollIds /\ missed' = Offers /\ io' = "idle"
      /\ UNCHANGED <<conn, located, kind, stock, user, teller, closer,
                     dropped, torn>>
  BY DEF takesBack, update_events
<1>3. polls' \in [Eids -> Poll] /\ UserInv' /\ PollInv' /\ RemovedIsSilent'
  BY <1>2, Reports
<1>4. missed' \in BOOLEAN
  BY <1>2 DEF Offers
<1>5. EpTypeOK'
  BY <1>1, <1>2, <1>3, <1>4 DEF EpTypeOK, Poll
<1>6. NothingMissed'
  BY <1>2 DEF NothingMissed, Offers
<1> QED
  BY <1>3, <1>5, <1>6 DEF IInv

LEMMA CloseReports ==
  ASSUME IInv, close
  PROVE  IInv'
<1>1. EpTypeOK /\ NothingMissed
  BY DEF IInv
<1>2. /\ polls' = Updated(pollIds, {"err"}, TRUE)
      /\ pollIds' \subseteq pollIds /\ closer' = "unwatch"
      /\ UNCHANGED <<conn, located, kind, stock, user, io, teller, dropped,
                     missed, torn>>
  BY DEF close, update_events
<1>3. polls' \in [Eids -> Poll] /\ UserInv' /\ PollInv' /\ RemovedIsSilent'
  BY <1>2, Reports
<1>4. pollIds \in SUBSET Eids
  BY <1>1 DEF EpTypeOK
<1>5. EpTypeOK'
  BY <1>1, <1>2, <1>3, <1>4 DEF EpTypeOK, Poll
<1>6. \A d \in Eids : /\ polls'[d].state = polls[d].state
                      /\ polls'[d].watch = polls[d].watch
                      /\ polls[d].ready \subseteq polls'[d].ready
  <2>1. Told(polls', pollIds, {"err"})
    BY <1>1, <1>2, <1>4, UpdatedIsTold, Zenon
  <2> QED
    BY <2>1 DEF Told
<1>7. NothingMissed'
  BY <1>1, <1>2, <1>4, <1>6 DEF NothingMissed, Live, Offers
<1> QED
  BY <1>3, <1>5, <1>7 DEF IInv

LEMMA Closes ==
  ASSUME IInv, closes
  PROVE  IInv'
<1> USE DEF IInv
<1>1. /\ polls' = Leaves /\ conn' = "closed" /\ located' = FALSE
      /\ closer' = "done" /\ torn' \in BOOLEAN /\ user = Idle
      /\ UNCHANGED <<pollIds, kind, stock, user, io, teller, dropped, missed>>
  BY DEF closes, EpTypeOK, Idle
<1>2. /\ polls' \in [Eids -> Poll]
      /\ \A d \in Eids : /\ polls'[d].state = polls[d].state
                         /\ polls'[d].ready = polls[d].ready
                         /\ polls'[d].watch \subseteq polls[d].watch
  BY <1>1 DEF Leaves, Unwatched, EpTypeOK, Poll
<1>3. EpTypeOK'
  BY <1>1, <1>2 DEF EpTypeOK, Poll
<1>4. UserInv'
  BY <1>1 DEF UserInv, Idle
<1>5. PollInv'
  BY <1>1, <1>2 DEF PollInv, Live
<1>6. RemovedIsSilent'
  BY <1>1, <1>2 DEF RemovedIsSilent, EpTypeOK
<1>7. NothingMissed'
  BY <1>1 DEF NothingMissed
<1> QED
  BY <1>3, <1>4, <1>5, <1>6, <1>7

-----------------------------------------------------------------------------
(* What happens to the connection: the sets of the epolls stay.            *)

LEMMA ConnectionSteps ==
  ASSUME IInv, uses \/ acknowledges \/ breaks \/ collects
  PROVE  IInv'
<1> USE DEF IInv
<1>1. UNCHANGED <<polls, pollIds, kind, user, closer, dropped, missed, torn>>
  BY DEF uses, acknowledges, breaks, collects
<1>2. /\ conn' \in {"open", "broken", "closed"} /\ located' \in BOOLEAN
      /\ stock' \in 0 .. MaxStock /\ io' \in {"idle", "clear"}
      /\ teller' = {} \/ (kind \in teller' /\ teller' \subseteq Events \cup {"err"})
  <2>1. CASE uses
    <3>1. stock \in 0 .. MaxStock /\ MaxStock \in Nat
      BY EpollAssumption DEF EpTypeOK
    <3>2. PICK n \in 1 .. stock : stock' = stock - n
      BY <2>1 DEF uses
    <3>3. stock' \in 0 .. MaxStock
      BY <3>1, <3>2
    <3>4. io' \in {"idle", "clear"}
      BY <2>1 DEF uses
    <3> QED
      BY <2>1, <3>3, <3>4 DEF uses, EpTypeOK
  <2>2. CASE acknowledges
    <3>1. stock \in 0 .. MaxStock /\ MaxStock \in Nat
      BY EpollAssumption DEF EpTypeOK
    <3>2. PICK n \in 1 .. MaxStock - stock : stock' = stock + n
      BY <2>2 DEF acknowledges
    <3>3. stock' \in 0 .. MaxStock
      BY <3>1, <3>2
    <3> QED
      BY <2>2, <3>3 DEF acknowledges, EpTypeOK, Events
  <2>3. CASE breaks
    BY <2>3 DEF breaks, EpTypeOK, Events
  <2>4. CASE collects
    BY <2>4 DEF collects, EpTypeOK
  <2> QED
    BY <2>1, <2>2, <2>3, <2>4
<1>3. \/ conn' # "open"
      \/ Offers' => Offers /\ conn = "open" /\ teller' = teller
      \/ kind \in teller'
  BY EpollAssumption DEF uses, acknowledges, breaks, collects, Offers, EpTypeOK
<1>4. EpTypeOK'
  BY <1>1, <1>2 DEF EpTypeOK, Poll
<1>5. UserInv' /\ PollInv' /\ RemovedIsSilent'
  BY <1>1 DEF UserInv, PollInv, RemovedIsSilent, Live
<1>6. NothingMissed'
  BY <1>1, <1>3 DEF NothingMissed, Live
<1> QED
  BY <1>4, <1>5, <1>6

-----------------------------------------------------------------------------
LEMMA Stutters == ASSUME IInv, UNCHANGED epVars PROVE IInv'
BY DEF IInv, epVars, EpTypeOK, UserInv, PollInv, RemovedIsSilent,
       NothingMissed, Live, Offers

LEMMA InvIsInductive == IInv /\ [EpStep]_epVars => IInv'
<1> SUFFICES ASSUME IInv, [EpStep]_epVars PROVE IInv'
  OBVIOUS
<1>1. ASSUME NEW e \in Eids, create(e) \/ release(e) PROVE IInv'
  BY <1>1, PollsCalls
<1>2. ASSUME NEW e \in Eids, NEW evs \in {{kind}, Events}, add_usock(e, evs)
      PROVE  IInv'
  <2>1. evs \in SUBSET Events
    BY DEF IInv, EpTypeOK
  <2> QED
    BY <1>2, <2>1, Enters
<1>3. ASSUME NEW e \in Eids, remove_usock(e) PROVE IInv'
  BY <1>3, TakesOut
<1>4. CASE addEPoll \/ addTests
  BY <1>4, LooksAfterwards
<1>5. CASE addTells \/ tells
  BY <1>5, Tells
<1>6. CASE removeEPollClears
  BY <1>6, Clears
<1>7. CASE removeEPollErases
  BY <1>7, Erases
<1>8. CASE takesBack
  BY <1>8, TakesBack
<1>9. CASE close
  BY <1>9, CloseReports
<1>10. CASE closes
  BY <1>10, Closes
<1>11. CASE uses \/ acknowledges \/ breaks \/ collects
  BY <1>11, ConnectionSteps
<1>12. CASE UNCHANGED epVars
  BY <1>12, Stutters
<1> QED
  BY <1>1, <1>2, <1>3, <1>4, <1>5, <1>6, <1>7, <1>8, <1>9, <1>10, <1>11,
     <1>12 DEF EpStep, EpUser, EpOthers

(* Nothing is told about a socket where it was taken out, and nothing is   *)
(* missed where it is watched, but for what recv and send take back: for   *)
(* any number of epolls, in any order of the program's calls with the      *)
(* reports of recv, send, the receiver thread and close.                   *)
THEOREM EpollIsRight == EpSpec => []EpollTells
<1>1. IInv => EpollTells
  BY DEF IInv, EpollTells
<1> QED
  BY InitInv, InvIsInductive, <1>1, PTL DEF EpSpec

-----------------------------------------------------------------------------
(* Loops, and induction over natural numbers.                              *)

\* A set of naturals has a least one.
LEMMA LeastIn ==
  ASSUME NEW T, T \subseteq Nat, T # {}
  PROVE  \E n \in T : \A m \in T : n <= m
<1> DEFINE R == OpToRel(<, Nat)
<1>1. IsWellFoundedOn(R, Nat)
  BY NatLessThanWellFounded
<1>2. PICK n \in T : \A m \in T : <<m, n>> \notin R
  <2> HIDE DEF R
  <2> QED BY <1>1, WFMin
<1>3. \A m \in T : ~(m < n)
  BY <1>2 DEF OpToRel
<1> QED BY <1>3

\* Induction: a set of naturals with 0 and the successors of its elements.
LEMMA AllNaturals ==
  ASSUME NEW P, P \subseteq Nat, 0 \in P, \A k \in P : k + 1 \in P
  PROVE  P = Nat
<1> SUFFICES ASSUME Nat \ P # {} PROVE FALSE
  OBVIOUS
<1>1. PICK n \in Nat \ P : \A m \in Nat \ P : n <= m
  BY LeastIn
<1>2. n # 0 /\ n - 1 \in Nat /\ n \in Nat
  BY <1>1
<1>3. n - 1 \in P
  BY <1>1, <1>2
<1> QED BY <1>1, <1>2, <1>3

\* A loop does not leave a set that its turns do not leave.
LEMMA StaysIn ==
  ASSUME NEW V, NEW f, f[0] \in V, \A k \in Nat : f[k] \in V => f[k + 1] \in V
  PROVE  \A k \in Nat : f[k] \in V
<1> DEFINE P == {k \in Nat : f[k] \in V}
<1>1. P \subseteq Nat /\ 0 \in P /\ \A k \in P : k + 1 \in P
  OBVIOUS
<1>2. P = Nat
  <2> HIDE DEF P
  <2> QED BY <1>1, AllNaturals
<1> QED BY <1>2

\* w begins with a and applies g again and again, ...
Runs(w, V, a, g) == /\ w \in [Nat -> V] /\ w[0] = a
                    /\ \A k \in Nat : w[k + 1] = g[w[k]]

\* ... as there always is one.
LEMMA Iterates ==
  ASSUME NEW V, NEW a \in V, NEW g \in [V -> V]
  PROVE  \E w : Runs(w, V, a, g)
<1> DEFINE Goes(n, w) == /\ w \in [0 .. n -> V] /\ w[0] = a
                         /\ \A k \in 0 .. n - 1 : w[k + 1] = g[w[k]]
<1>1. \A n \in Nat : \E w : Goes(n, w)
  <2> DEFINE T == {n \in Nat : ~\E w : Goes(n, w)}
  <2>1. SUFFICES ASSUME T # {} PROVE FALSE
    OBVIOUS
  <2>2. PICK n \in T : \A m \in T : n <= m
    <3>1. T \subseteq Nat
      OBVIOUS
    <3> HIDE DEF T
    <3> QED BY <2>1, <3>1, LeastIn
  <2>3. n # 0
    <3> DEFINE z == [k \in 0 .. 0 |-> a]
    <3>1. z \in [0 .. 0 -> V] /\ z[0] = a
      OBVIOUS
    <3>2. Goes(0, z)
      <4> HIDE DEF z
      <4> QED BY <3>1
    <3> HIDE DEF z, Goes
    <3> QED BY <3>2
  <2>4. PICK w : Goes(n - 1, w)
    <3>1. n \in Nat /\ n - 1 \in Nat
      BY <2>3
    <3>2. n - 1 \notin T
      <4> HIDE DEF T
      <4> QED BY <2>2, <3>1
    <3> HIDE DEF Goes
    <3> QED BY <3>1, <3>2
  <2>5. n \in Nat /\ n - 1 \in Nat
    BY <2>3
  <2> DEFINE z == [k \in 0 .. n |-> IF k = n THEN g[w[n - 1]] ELSE w[k]]
  <2>6. w[n - 1] \in V /\ g[w[n - 1]] \in V
    BY <2>4, <2>5
  <2>7. z \in [0 .. n -> V]
    <3>1. \A k \in 0 .. n : (IF k = n THEN g[w[n - 1]] ELSE w[k]) \in V
      BY <2>4, <2>5, <2>6
    <3> QED BY <3>1
  <2>8. z[0] = a
    BY <2>3, <2>4, <2>5
  <2>9. ASSUME NEW k \in 0 .. n - 1 PROVE z[k + 1] = g[z[k]]
    <3>1. k \in 0 .. n /\ k # n /\ k + 1 \in 0 .. n
      BY <2>5
    <3>2. z[k] = w[k]
      BY <3>1
    <3>3. CASE k = n - 1
      <4>1. z[k + 1] = g[w[n - 1]]
        BY <2>5, <3>1, <3>3
      <4> QED BY <3>2, <3>3, <4>1
    <3>4. CASE k # n - 1
      <4>1. k \in 0 .. (n - 1) - 1 /\ k + 1 # n
        BY <2>5, <3>4
      <4>2. z[k + 1] = w[k + 1]
        BY <3>1, <4>1
      <4> HIDE DEF z
      <4> QED BY <2>4, <3>2, <4>1, <4>2
    <3> QED BY <3>3, <3>4
  <2>10. Goes(n, z)
    <3> HIDE DEF z
    <3> QED BY <2>7, <2>8, <2>9
  <2> HIDE DEF Goes, z
  <2> QED BY <2>10
<1>2. \A n, m \in Nat : \A v, w : Goes(n, v) /\ Goes(m, w) /\ n <= m => v[n] = w[n]
  <2> SUFFICES ASSUME NEW n \in Nat, NEW m \in Nat, NEW v, NEW w,
                      Goes(n, v), Goes(m, w), n <= m
               PROVE  v[n] = w[n]
    <3> HIDE DEF Goes
    <3> QED OBVIOUS
  <2> DEFINE T == {k \in 0 .. n : v[k] # w[k]}
  <2>1. SUFFICES ASSUME T # {} PROVE FALSE
    OBVIOUS
  <2>2. PICK k \in T : \A j \in T : k <= j
    <3>1. T \subseteq Nat
      OBVIOUS
    <3> HIDE DEF T
    <3> QED BY <2>1, <3>1, LeastIn
  <2>3. k # 0 /\ k \in 0 .. n
    OBVIOUS
  <2>4. k - 1 \in 0 .. n - 1 /\ k - 1 \in 0 .. m - 1 /\ (k - 1) + 1 = k
    BY <2>3
  <2>5. v[k - 1] = w[k - 1]
    BY <2>2, <2>4
  <2>6. v[k] = g[v[k - 1]] /\ w[k] = g[w[k - 1]]
    BY <2>4
  <2> QED BY <2>5, <2>6
<1> DEFINE W(n) == CHOOSE w : Goes(n, w)
           u == [n \in Nat |-> W(n)[n]]
<1>3. \A n \in Nat : Goes(n, W(n))
  <2> HIDE DEF Goes
  <2> QED BY <1>1
<1>4. \A n \in Nat : W(n)[n] \in V
  <2> SUFFICES ASSUME NEW n \in Nat PROVE W(n)[n] \in V
    OBVIOUS
  <2>1. W(n) \in [0 .. n -> V]
    <3> HIDE DEF W
    <3> QED BY <1>3
  <2> HIDE DEF W
  <2> QED BY <2>1
<1>5. u[0] = a
  <2>1. W(0)[0] = a
    <3> HIDE DEF W
    <3> QED BY <1>3
  <2> QED BY <2>1
<1>6. ASSUME NEW k \in Nat PROVE u[k + 1] = g[u[k]]
  <2>1. Goes(k, W(k)) /\ Goes(k + 1, W(k + 1))
    <3> HIDE DEF Goes, W
    <3> QED BY <1>3
  <2> HIDE DEF W
  <2>2. W(k)[k] = W(k + 1)[k]
    <3>1. k \in Nat /\ k + 1 \in Nat /\ k <= k + 1
      OBVIOUS
    <3> HIDE DEF Goes
    <3> QED BY <1>2, <2>1, <3>1
  <2>3. W(k + 1)[k + 1] = g[W(k + 1)[k]]
    BY <2>1
  <2>4. u[k] = W(k)[k] /\ u[k + 1] = W(k + 1)[k + 1]
    BY DEF u
  <2> QED BY <2>2, <2>3, <2>4
<1>7. u \in [Nat -> V]
  BY <1>4
<1> HIDE DEF u
<1> QED BY <1>5, <1>6, <1>7 DEF Runs

-----------------------------------------------------------------------------
(* The sender's buffer.                                                    *)

SndBufs(s) == [next : [1 .. s -> 1 .. s], data : [1 .. s -> Int],
               first : 1 .. s, curr : 1 .. s, last : 1 .. s, size : {s}, count : Int]

\* ring lists the blocks of sb in the order of the links, from the first on.
IsRing(sb, ring) ==
  /\ sb.size \in Nat \ {0} /\ sb \in SndBufs(sb.size)
  /\ ring \in [0 .. sb.size - 1 -> 1 .. sb.size]
  /\ \A i, j \in 0 .. sb.size - 1 : ring[i] = ring[j] => i = j
  /\ \A b \in 1 .. sb.size : \E i \in 0 .. sb.size - 1 : ring[i] = b
  /\ \A i \in 0 .. sb.size - 1 :
       sb.next[ring[i]] = IF i = sb.size - 1 THEN ring[0] ELSE ring[i + 1]
  /\ sb.first = ring[0]

\* The queue lies in the first blocks of the ring.
HoldsQueue(sb, ring, queue, sent) ==
  /\ queue \in Seq(Int) /\ Len(queue) < sb.size /\ sent \in 0 .. Len(queue)
  /\ sb.last = ring[Len(queue)] /\ sb.curr = ring[sent]
  /\ \A k \in 1 .. Len(queue) : sb.data[ring[k - 1]] = queue[k]

RingHolds(sb, queue, sent) ==
  \E ring : IsRing(sb, ring) /\ HoldsQueue(sb, ring, queue, sent)

SbInv ==
  /\ RingHolds(sndBuf, sndQueue, sndSent)
  /\ sndBuf.count = Len(sndQueue) + sndShort /\ sndBuf.count < sndBuf.size
  /\ sndAdded \in Nat /\ sndShort \in Nat

\* A walk goes from block to block.
LEMMA WalkGoes ==
  ASSUME NEW sb, NEW S, NEW b \in S, sb.next \in [S -> S]
  PROVE  /\ \A n \in Nat : Walk(sb, b, n) \in S
         /\ Walk(sb, b, 0) = b
         /\ \A n \in Nat : Walk(sb, b, n + 1) = sb.next[Walk(sb, b, n)]
<1> DEFINE Turn(f) == [k \in Nat |-> IF k = 0 THEN b ELSE sb.next[f[k - 1]]]
           at == CHOOSE f : f = Turn(f)
<1>1. \A n : Walk(sb, b, n) = at[n]
  BY DEF Walk
<1>2. PICK w : Runs(w, S, b, sb.next)
  BY Iterates
<1>3. w = Turn(w)
  <2>1. w \in [Nat -> S] /\ w[0] = b
    BY <1>2 DEF Runs
  <2>2. ASSUME NEW k \in Nat, k # 0 PROVE w[k] = sb.next[w[k - 1]]
    <3>1. k - 1 \in Nat /\ (k - 1) + 1 = k
      BY <2>2
    <3>2. w[(k - 1) + 1] = sb.next[w[k - 1]]
      BY <1>2, <3>1 DEF Runs
    <3> QED BY <3>1, <3>2
  <2>3. \A k \in Nat : w[k] = IF k = 0 THEN b ELSE sb.next[w[k - 1]]
    BY <2>1, <2>2
  <2> QED BY <2>1, <2>3
<1>4. at = Turn(at)
  <2> HIDE DEF Turn
  <2> QED BY <1>3
<1>5. at[0] = b /\ \A k \in Nat : at[k + 1] = sb.next[at[k]]
  <2> HIDE DEF at
  <2>1. \A k \in Nat : at[k] = IF k = 0 THEN b ELSE sb.next[at[k - 1]]
    BY <1>4
  <2>2. \A k \in Nat : k + 1 \in Nat /\ k + 1 # 0 /\ (k + 1) - 1 = k
    OBVIOUS
  <2> HIDE DEF Turn
  <2>3. \A k \in Nat : at[k + 1] = sb.next[at[k]]
    BY <2>1, <2>2
  <2> QED BY <2>1, <2>3
<1> HIDE DEF at, Turn
<1>6. \A k \in Nat : at[k] \in S
  <2>1. at[0] \in S /\ \A k \in Nat : at[k] \in S => at[k + 1] \in S
    BY <1>5
  <2> QED BY <2>1, StaysIn
<1> QED BY <1>1, <1>5, <1>6

\* From a block of the ring one walks to the ones behind it.
LEMMA WalkOnRing ==
  ASSUME NEW sb, NEW ring, IsRing(sb, ring),
         NEW i \in 0 .. sb.size - 1, NEW n \in Nat, i + n < sb.size
  PROVE  Walk(sb, ring[i], n) = ring[i + n]
<1> DEFINE N == sb.size
           P == {k \in Nat : i + k < N => Walk(sb, ring[i], k) = ring[i + k]}
<1>1. /\ N \in Nat \ {0} /\ sb.next \in [1 .. N -> 1 .. N]
      /\ ring \in [0 .. N - 1 -> 1 .. N]
      /\ \A j \in 0 .. N - 1 : sb.next[ring[j]] = IF j = N - 1 THEN ring[0] ELSE ring[j + 1]
  BY DEF IsRing, SndBufs
<1>2. i \in 0 .. N - 1 /\ i + n < N
  OBVIOUS
<1> HIDE DEF N
<1>3. /\ Walk(sb, ring[i], 0) = ring[i]
      /\ \A k \in Nat : Walk(sb, ring[i], k + 1) = sb.next[Walk(sb, ring[i], k)]
  <2> DEFINE S == 1 .. N
             b == ring[i]
  <2>1. b \in S /\ sb.next \in [S -> S]
    BY <1>1, <1>2
  <2> HIDE DEF S, b, P
  <2>2. Walk(sb, b, 0) = b /\ \A k \in Nat : Walk(sb, b, k + 1) = sb.next[Walk(sb, b, k)]
    BY <2>1, WalkGoes
  <2> QED BY <2>2 DEF b
<1>4. 0 \in P
  BY <1>1, <1>2, <1>3
<1>5. ASSUME NEW k \in P PROVE k + 1 \in P
  <2>1. SUFFICES ASSUME i + (k + 1) < N PROVE Walk(sb, ring[i], k + 1) = ring[i + (k + 1)]
    OBVIOUS
  <2>2. k \in Nat /\ Walk(sb, ring[i], k) = ring[i + k]
    BY <1>1, <1>2, <2>1
  <2>3. i + k \in 0 .. N - 1 /\ i + k # N - 1 /\ (i + k) + 1 = i + (k + 1)
    BY <1>1, <1>2, <2>1, <2>2
  <2>4. sb.next[ring[i + k]] = ring[i + (k + 1)]
    BY <1>1, <2>3
  <2> QED BY <1>3, <2>2, <2>4
<1>6. P = Nat
  <2>1. P \subseteq Nat /\ \A k \in P : k + 1 \in P
    BY <1>5
  <2> HIDE DEF P
  <2> QED BY <1>4, <2>1, AllNaturals
<1> QED BY <1>2, <1>6

\* increase puts the new blocks behind the last one, and the queue stays.
LEMMA IncreaseKeeps ==
  ASSUME NEW sb, NEW queue, NEW sent, RingHolds(sb, queue, sent)
  PROVE  /\ RingHolds(Increase(sb), queue, sent)
         /\ Increase(sb).size = sb.size + SndBlocks /\ Increase(sb).count = sb.count
<1> DEFINE N == sb.size
           B == SndBlocks
           L == Len(queue)
           M == N + B
<1>1. PICK ring : IsRing(sb, ring) /\ HoldsQueue(sb, ring, queue, sent)
  BY DEF RingHolds
<1>2. B \in Nat /\ B > 1
  BY BuffersAssumption
<1>3. /\ N \in Nat \ {0} /\ sb.next \in [1 .. N -> 1 .. N] /\ sb.data \in [1 .. N -> Int]
      /\ sb.first \in 1 .. N /\ sb.curr \in 1 .. N /\ sb.last \in 1 .. N /\ sb.count \in Int
      /\ sb = [next |-> sb.next, data |-> sb.data, first |-> sb.first, curr |-> sb.curr,
               last |-> sb.last, size |-> sb.size, count |-> sb.count]
  BY <1>1 DEF IsRing, SndBufs
<1>4. /\ ring \in [0 .. N - 1 -> 1 .. N]
      /\ \A i, j \in 0 .. N - 1 : ring[i] = ring[j] => i = j
      /\ \A b \in 1 .. N : \E i \in 0 .. N - 1 : ring[i] = b
      /\ \A i \in 0 .. N - 1 : sb.next[ring[i]] = IF i = N - 1 THEN ring[0] ELSE ring[i + 1]
      /\ sb.first = ring[0]
  BY <1>1 DEF IsRing
<1>5. /\ queue \in Seq(Int) /\ L \in Nat /\ L < N /\ sent \in 0 .. L
      /\ sb.last = ring[L] /\ sb.curr = ring[sent]
      /\ \A k \in 1 .. L : sb.data[ring[k - 1]] = queue[k]
  BY <1>1 DEF HoldsQueue
<1> DEFINE next == [b \in 1 .. M |-> IF b = sb.last THEN N + 1
                                     ELSE IF b = M THEN sb.next[sb.last]
                                     ELSE IF b \in N + 1 .. M THEN b + 1
                                     ELSE sb.next[b]]
           data == [b \in 1 .. M |-> IF b \in N + 1 .. M THEN Nothing ELSE sb.data[b]]
           big == [next |-> next, data |-> data, first |-> sb.first, curr |-> sb.curr,
                   last |-> sb.last, size |-> M, count |-> sb.count]
<1>6. Increase(sb) = big
  <2>1. Increase(sb) = [sb EXCEPT !.next = next, !.data = data, !.size = M]
    BY DEF Increase
  <2> HIDE DEF next, data, M
  <2> QED BY <1>3, <2>1
<1> DEFINE r == [i \in 0 .. M - 1 |-> IF i <= L THEN ring[i]
                                      ELSE IF i <= L + B THEN N + i - L
                                      ELSE ring[i - B]]
<1>7. M \in Nat \ {0} /\ M = N + B /\ 1 .. N \subseteq 1 .. M
  BY <1>2, <1>3
<1>71. /\ N \in Nat /\ N >= 1 /\ B \in Nat /\ B > 1 /\ L \in Nat /\ L < N
       /\ M = N + B /\ sent \in Nat /\ sent <= L
  BY <1>2, <1>3, <1>5, <1>7
<1> HIDE DEF N, B, L, M
<1>8. \A i \in 0 .. M - 1 : /\ i <= L => i \in 0 .. N - 1 /\ r[i] = ring[i] /\ r[i] \in 1 .. N
                            /\ i > L /\ i <= L + B => r[i] = N + i - L /\ r[i] \in N + 1 .. M
                            /\ i > L + B => /\ i - B \in 0 .. N - 1 /\ i - B > L
                                            /\ r[i] = ring[i - B] /\ r[i] \in 1 .. N
  <2> SUFFICES ASSUME NEW i \in 0 .. M - 1
               PROVE  /\ i <= L => i \in 0 .. N - 1 /\ r[i] = ring[i] /\ r[i] \in 1 .. N
                      /\ i > L /\ i <= L + B => r[i] = N + i - L /\ r[i] \in N + 1 .. M
                      /\ i > L + B => /\ i - B \in 0 .. N - 1 /\ i - B > L
                                      /\ r[i] = ring[i - B] /\ r[i] \in 1 .. N
    OBVIOUS
  <2>1. r[i] = IF i <= L THEN ring[i] ELSE IF i <= L + B THEN N + i - L ELSE ring[i - B]
    OBVIOUS
  <2>2. /\ i <= L => i \in 0 .. N - 1
        /\ i > L + B => i - B \in 0 .. N - 1 /\ i - B > L /\ ~(i <= L) /\ ~(i <= L + B)
        /\ i > L /\ i <= L + B => N + i - L \in N + 1 .. M /\ ~(i <= L)
    BY <1>71
  <2> HIDE DEF r
  <2> QED BY <1>4, <2>1, <2>2
<1>9. DOMAIN r = 0 .. M - 1
  OBVIOUS
<1>10. r \in [0 .. M - 1 -> 1 .. M]
  <2>1. \A i \in 0 .. M - 1 : i <= L \/ (i > L /\ i <= L + B) \/ i > L + B
    BY <1>71
  <2>2. N + 1 .. M \subseteq 1 .. M
    BY <1>3, <1>7
  <2>3. \A i \in 0 .. M - 1 : r[i] \in 1 .. M
    <3> HIDE DEF r
    <3> QED BY <1>7, <1>8, <2>1, <2>2
  <2> QED BY <2>3
<1>11. \A i \in 0 .. M - 1 : r[i] = IF i <= L THEN ring[i]
                                   ELSE IF i <= L + B THEN N + i - L ELSE ring[i - B]
  OBVIOUS
<1>12. /\ DOMAIN next = 1 .. M
       /\ \A b \in 1 .. M : next[b] = IF b = sb.last THEN N + 1
                                      ELSE IF b = M THEN sb.next[sb.last]
                                      ELSE IF b \in N + 1 .. M THEN b + 1
                                      ELSE sb.next[b]
  OBVIOUS
<1>13. data \in [1 .. M -> Int] /\ \A b \in 1 .. N : data[b] = sb.data[b]
  <2>1. \A b \in 1 .. M : (IF b \in N + 1 .. M THEN Nothing ELSE sb.data[b]) \in Int
    BY <1>3, <1>7 DEF Nothing
  <2>2. \A b \in 1 .. N : b \in 1 .. M /\ b \notin N + 1 .. M
    BY <1>3, <1>7
  <2> QED BY <2>1, <2>2
<1> HIDE DEF r, next, data
<1>14. \A i, j \in 0 .. M - 1 : r[i] = r[j] => i = j
  <2> SUFFICES ASSUME NEW i \in 0 .. M - 1, NEW j \in 0 .. M - 1, r[i] = r[j], i < j PROVE FALSE
    OBVIOUS
  <2>1. CASE j <= L
    BY <1>4, <1>5, <1>8, <2>1
  <2>2. CASE j > L /\ j <= L + B
    <3>1. r[j] = N + j - L /\ r[j] > N
      BY <1>71, <1>8, <2>2
    <3>2. CASE i <= L
      BY <1>71, <1>8, <3>1, <3>2
    <3>3. CASE i > L
      <4>1. r[i] = N + i - L
        BY <1>71, <1>8, <2>2, <3>3
      <4> QED BY <1>71, <3>1, <4>1
    <3> QED BY <1>71, <3>2, <3>3
  <2>3. CASE j > L + B
    <3>1. CASE i <= L
      <4>1. ring[i] = ring[j - B] /\ i \in 0 .. N - 1 /\ j - B \in 0 .. N - 1
        BY <1>8, <2>3, <3>1
      <4>2. i = j - B
        BY <1>4, <4>1
      <4> QED BY <1>8, <1>71, <2>3, <3>1, <4>2
    <3>2. CASE i > L /\ i <= L + B
      BY <1>3, <1>8, <2>3, <3>2
    <3>3. CASE i > L + B
      <4>1. ring[i - B] = ring[j - B] /\ i - B \in 0 .. N - 1 /\ j - B \in 0 .. N - 1
        BY <1>8, <2>3, <3>3
      <4>2. i - B = j - B
        BY <1>4, <4>1
      <4> QED BY <1>71, <4>2
    <3>4. i <= L \/ (i > L /\ i <= L + B) \/ i > L + B
      BY <1>71
    <3> QED BY <3>1, <3>2, <3>3, <3>4
  <2>4. j <= L \/ (j > L /\ j <= L + B) \/ j > L + B
    BY <1>71
  <2> QED BY <2>1, <2>2, <2>3, <2>4
<1>15. \A b \in 1 .. M : \E i \in 0 .. M - 1 : r[i] = b
  <2> SUFFICES ASSUME NEW b \in 1 .. M PROVE \E i \in 0 .. M - 1 : r[i] = b
    OBVIOUS
  <2>1. CASE b > N
    <3> DEFINE i == b - N + L
    <3>1. i \in 0 .. M - 1 /\ i > L /\ i <= L + B /\ N + i - L = b
      BY <1>71, <2>1
    <3> HIDE DEF i
    <3> QED BY <1>8, <3>1
  <2>2. CASE b <= N
    <3>1. PICK i \in 0 .. N - 1 : ring[i] = b
      BY <1>3, <1>4, <2>2
    <3>2. CASE i <= L
      <4>1. i \in 0 .. M - 1
        BY <1>71
      <4> QED BY <1>8, <3>1, <3>2, <4>1
    <3>3. CASE i > L
      <4> DEFINE j == i + B
      <4>1. j \in 0 .. M - 1 /\ j > L + B /\ j - B = i
        BY <1>71, <3>3
      <4> HIDE DEF j
      <4> QED BY <1>8, <3>1, <4>1
    <3> QED BY <1>5, <3>2, <3>3
  <2> QED BY <1>3, <2>1, <2>2
<1>16. \A i \in 0 .. M - 1 : next[r[i]] = IF i = M - 1 THEN r[0] ELSE r[i + 1]
  <2> SUFFICES ASSUME NEW i \in 0 .. M - 1
               PROVE  next[r[i]] = IF i = M - 1 THEN r[0] ELSE r[i + 1]
    OBVIOUS
  <2>0. r[i] \in 1 .. M /\ (i # M - 1 => i + 1 \in 0 .. M - 1) /\ 0 \in 0 .. M - 1
    BY <1>7, <1>10
  <2>1. CASE i < L
    <3>1. /\ i <= L /\ i + 1 <= L /\ i # M - 1 /\ i \in 0 .. N - 1 /\ i # N - 1 /\ L \in 0 .. N - 1
          /\ i # L /\ i + 1 \in 0 .. M - 1
      BY <1>71, <2>1
    <3>2. r[i] = ring[i] /\ r[i + 1] = ring[i + 1] /\ r[i] \in 1 .. N
      BY <1>8, <3>1
    <3>3. r[i] # sb.last
      BY <1>4, <1>5, <3>1, <3>2
    <3>4. r[i] # M /\ r[i] \notin N + 1 .. M
      BY <1>71, <3>2
    <3>5. next[r[i]] = sb.next[ring[i]]
      BY <1>12, <2>0, <3>2, <3>3, <3>4
    <3> QED BY <1>4, <3>1, <3>2, <3>5
  <2>2. CASE i = L
    <3>1. i # M - 1 /\ i + 1 \in 0 .. M - 1 /\ i + 1 > L /\ i + 1 <= L + B /\ N + (i + 1) - L = N + 1
      BY <1>71, <2>2
    <3>2. r[i] = sb.last
      BY <1>5, <1>8, <2>2
    <3> QED BY <1>8, <1>12, <2>0, <3>1, <3>2
  <2>3. CASE i > L /\ i < L + B
    <3>1. /\ i <= L + B /\ i # M - 1 /\ i + 1 \in 0 .. M - 1 /\ i + 1 > L /\ i + 1 <= L + B
          /\ N + (i + 1) - L = (N + i - L) + 1 /\ N + i - L # M /\ N + i - L \notin 1 .. N
          /\ N + i - L \in N + 1 .. M
      BY <1>71, <2>3
    <3>2. r[i] = N + i - L /\ r[i + 1] = (N + i - L) + 1
      BY <1>8, <2>3, <3>1
    <3>3. r[i] # sb.last
      BY <1>3, <3>1, <3>2
    <3> QED BY <1>12, <2>0, <3>1, <3>2, <3>3
  <2>4. CASE i = L + B
    <3>1. /\ i > L /\ i <= L + B /\ N + i - L = M /\ M \notin 1 .. N /\ L \in 0 .. N - 1
      BY <1>71, <2>4
    <3>2. r[i] = M
      BY <1>8, <3>1
    <3>3. next[r[i]] = sb.next[ring[L]]
      BY <1>3, <1>5, <1>12, <2>0, <3>1, <3>2
    <3>4. CASE i = M - 1
      <4>1. L = N - 1 /\ 0 <= L
        BY <1>71, <2>4, <3>4
      <4>2. r[0] = ring[0]
        BY <1>8, <2>0, <4>1
      <4> QED BY <1>4, <3>1, <3>3, <3>4, <4>1, <4>2
    <3>5. CASE i # M - 1
      <4>1. L # N - 1 /\ i + 1 \in 0 .. M - 1 /\ i + 1 > L + B /\ (i + 1) - B = L + 1
        BY <1>71, <2>4, <3>5
      <4>2. r[i + 1] = ring[L + 1]
        BY <1>8, <4>1
      <4> QED BY <1>4, <3>1, <3>3, <3>5, <4>1, <4>2
    <3> QED BY <3>4, <3>5
  <2>5. CASE i > L + B
    <3>1. r[i] = ring[i - B] /\ i - B \in 0 .. N - 1 /\ i - B > L /\ r[i] \in 1 .. N
      BY <1>8, <2>5
    <3>2. L \in 0 .. N - 1 /\ i - B # L
      BY <1>71, <3>1
    <3>3. r[i] # sb.last
      BY <1>4, <1>5, <3>1, <3>2
    <3>4. r[i] # M /\ r[i] \notin N + 1 .. M
      BY <1>71, <3>1
    <3>5. next[r[i]] = sb.next[ring[i - B]]
      BY <1>12, <2>0, <3>1, <3>3, <3>4
    <3>6. CASE i = M - 1
      <4>1. i - B = N - 1 /\ 0 <= L
        BY <1>71, <3>6
      <4>2. r[0] = ring[0]
        BY <1>8, <2>0, <4>1
      <4> QED BY <1>4, <3>1, <3>5, <3>6, <4>1, <4>2
    <3>7. CASE i # M - 1
      <4>1. i - B # N - 1 /\ i + 1 \in 0 .. M - 1 /\ i + 1 > L + B /\ (i + 1) - B = (i - B) + 1
        BY <1>71, <2>5, <3>7
      <4>2. r[i + 1] = ring[(i - B) + 1]
        BY <1>8, <4>1
      <4> QED BY <1>4, <3>1, <3>5, <3>7, <4>1, <4>2
    <3> QED BY <3>6, <3>7
  <2>6. i < L \/ i = L \/ (i > L /\ i < L + B) \/ i = L + B \/ i > L + B
    BY <1>71
  <2> QED BY <2>1, <2>2, <2>3, <2>4, <2>5, <2>6
<1>17. next \in [1 .. M -> 1 .. M]
  <2>1. ASSUME NEW b \in 1 .. M PROVE next[b] \in 1 .. M
    <3>1. PICK i \in 0 .. M - 1 : r[i] = b
      BY <1>15
    <3>2. 0 \in 0 .. M - 1 /\ (i # M - 1 => i + 1 \in 0 .. M - 1)
      BY <1>7
    <3>3. next[r[i]] \in 1 .. M
      BY <1>10, <1>16, <3>2
    <3> QED BY <3>1, <3>3
  <2>2. next = [b \in 1 .. M |-> next[b]]
    BY DEF next
  <2> QED BY <2>1, <2>2
<1>18. /\ sb.first = r[0] /\ sb.last = r[L] /\ sb.curr = r[sent]
       /\ \A k \in 1 .. L : data[r[k - 1]] = queue[k]
  <2>1. /\ 0 \in 0 .. M - 1 /\ L \in 0 .. M - 1 /\ sent \in 0 .. M - 1 /\ 0 <= L /\ sent <= L
        /\ \A k \in 1 .. L : k - 1 \in 0 .. M - 1 /\ k - 1 <= L
    BY <1>71
  <2>2. r[0] = ring[0] /\ r[L] = ring[L] /\ r[sent] = ring[sent]
    BY <1>5, <1>8, <2>1
  <2>3. \A k \in 1 .. L : r[k - 1] = ring[k - 1] /\ ring[k - 1] \in 1 .. N
    BY <1>8, <2>1
  <2>4. ASSUME NEW k \in 1 .. L PROVE data[r[k - 1]] = queue[k]
    BY <1>5, <1>13, <2>3
  <2> QED BY <1>4, <1>5, <2>2, <2>4
<1>19. IsRing(big, r)
  <2>1. big \in SndBufs(M)
    <3>1. sb.first \in 1 .. M /\ sb.curr \in 1 .. M /\ sb.last \in 1 .. M
      BY <1>3, <1>7
    <3> QED BY <1>3, <1>13, <1>17, <3>1 DEF SndBufs
  <2> QED BY <1>7, <1>10, <1>14, <1>15, <1>16, <1>18, <2>1 DEF IsRing
<1>20. HoldsQueue(big, r, queue, sent)
  <2>1. L < M
    BY <1>71
  <2> QED BY <1>5, <1>18, <2>1 DEF HoldsQueue, L
<1> QED BY <1>6, <1>19, <1>20 DEF RingHolds, M, N, B

\* What increase brings is enough, and no packet is lost.
LEMMA IncreaseForKeeps ==
  ASSUME NEW sb, NEW queue, NEW sent, NEW n \in Nat, RingHolds(sb, queue, sent), sb.count \in Nat
  PROVE  LET b == IncreaseFor(sb, n) IN
         /\ RingHolds(b, queue, sent) /\ b.count = sb.count /\ sb.count + n < b.size
<1> DEFINE V == {v \in UNION {SndBufs(s) : s \in Nat \ {0}} :
                   RingHolds(v, queue, sent) /\ v.count = sb.count}
           g == [v \in V |-> Increase(v)]
           Turn(f) == [k \in Nat |-> IF k = 0 THEN sb ELSE Increase(f[k - 1])]
           grown == CHOOSE f : f = Turn(f)
<1>1. \A v : v \in V <=> RingHolds(v, queue, sent) /\ v.count = sb.count
  BY DEF RingHolds, IsRing
<1>2. \A v \in V : Increase(v) \in V /\ Increase(v).size = v.size + SndBlocks
  <2> HIDE DEF V
  <2> QED BY <1>1, IncreaseKeeps
<1>3. sb \in V
  BY <1>1
<1>4. PICK w : Runs(w, V, sb, g)
  <2> HIDE DEF V
  <2>1. g \in [V -> V]
    BY <1>2
  <2> HIDE DEF g
  <2> QED BY <1>3, <2>1, Iterates
<1>5. w = Turn(w)
  <2> HIDE DEF V
  <2>1. w \in [Nat -> V] /\ w[0] = sb
    BY <1>4 DEF Runs
  <2>2. ASSUME NEW k \in Nat, k # 0 PROVE w[k] = Increase(w[k - 1])
    <3>1. k - 1 \in Nat /\ (k - 1) + 1 = k
      BY <2>2
    <3>2. w[(k - 1) + 1] = g[w[k - 1]]
      <4> HIDE DEF g
      <4> QED BY <1>4, <3>1 DEF Runs
    <3>3. w[k - 1] \in V
      BY <2>1, <3>1
    <3> QED BY <3>1, <3>2, <3>3
  <2>3. \A k \in Nat : w[k] = IF k = 0 THEN sb ELSE Increase(w[k - 1])
    BY <2>1, <2>2
  <2> QED BY <2>1, <2>3
<1>6. grown = Turn(grown)
  <2> HIDE DEF Turn
  <2> QED BY <1>5
<1> HIDE DEF V, g, grown
<1>7. grown[0] = sb /\ \A k \in Nat : grown[k + 1] = Increase(grown[k])
  <2>1. \A k \in Nat : grown[k] = IF k = 0 THEN sb ELSE Increase(grown[k - 1])
    BY <1>6
  <2>2. \A k \in Nat : k + 1 \in Nat /\ k + 1 # 0 /\ (k + 1) - 1 = k
    OBVIOUS
  <2> HIDE DEF Turn
  <2>3. \A k \in Nat : grown[k + 1] = Increase(grown[k])
    BY <2>1, <2>2
  <2> QED BY <2>1, <2>3
<1> HIDE DEF Turn
<1>8. \A k \in Nat : grown[k] \in V
  <2>1. \A k \in Nat : grown[k] \in V => grown[k + 1] \in V
    BY <1>2, <1>7
  <2> QED BY <1>3, <1>7, <2>1, StaysIn
<1>9. \A k \in Nat : grown[k].size \in Nat /\ grown[k].size >= sb.size + k
  <2> DEFINE P == {k \in Nat : grown[k].size \in Nat /\ grown[k].size >= sb.size + k}
  <2>1. sb.size \in Nat
    BY DEF RingHolds, IsRing
  <2>2. 0 \in P
    BY <1>7, <2>1
  <2>3. ASSUME NEW k \in P PROVE k + 1 \in P
    <3>1. k \in Nat /\ grown[k] \in V /\ grown[k].size \in Nat /\ grown[k].size >= sb.size + k
      BY <1>8
    <3>2. grown[k + 1].size = grown[k].size + SndBlocks
      BY <1>2, <1>7, <3>1
    <3>3. SndBlocks \in Nat /\ SndBlocks > 1
      BY BuffersAssumption
    <3> QED BY <2>1, <3>1, <3>2, <3>3
  <2>4. P = Nat
    <3>1. P \subseteq Nat /\ \A k \in P : k + 1 \in P
      BY <2>3
    <3> HIDE DEF P
    <3> QED BY <2>2, <3>1, AllNaturals
  <2> QED BY <2>4
<1> DEFINE K == {k \in 0 .. n + sb.count : ~Crowded(grown[k], n)}
<1>10. IncreaseFor(sb, n) = grown[Min(K)]
  BY DEF IncreaseFor, grown, Turn
<1>11. Min(K) \in K
  <2>1. n + sb.count \in K
    <3> DEFINE m == n + sb.count
    <3>1. m \in Nat
      OBVIOUS
    <3>2. grown[m] \in V /\ grown[m].size >= sb.size + m /\ grown[m].size \in Nat
      BY <1>8, <1>9, <3>1
    <3>3. grown[m].count = sb.count /\ sb.size \in Nat /\ sb.size > 0
      BY <1>1, <3>2 DEF RingHolds, IsRing
    <3>4. ~(n + grown[m].count >= grown[m].size)
      BY <3>2, <3>3
    <3> QED BY <3>4 DEF Crowded
  <2>2. \E k \in K : \A m \in K : k <= m
    <3>1. K \subseteq Nat
      OBVIOUS
    <3> HIDE DEF K
    <3> QED BY <2>1, <3>1, LeastIn
  <2> HIDE DEF K
  <2> QED BY <2>2 DEF Min
<1>12. Min(K) \in Nat /\ ~Crowded(grown[Min(K)], n)
  <2> DEFINE k == Min(K)
  <2>1. k \in K
    BY <1>11
  <2> HIDE DEF k
  <2>2. k \in Nat /\ ~Crowded(grown[k], n)
    BY <2>1
  <2> QED BY <2>2 DEF k
<1> DEFINE k == Min(K)
<1> HIDE DEF K
<1>13. k \in Nat /\ ~Crowded(grown[k], n)
  BY <1>12
<1> HIDE DEF k
<1>14. RingHolds(grown[k], queue, sent) /\ grown[k].count = sb.count /\ grown[k].size \in Nat
  BY <1>1, <1>8, <1>9, <1>13
<1>15. sb.count + n < grown[k].size
  BY <1>13, <1>14 DEF Crowded
<1> QED BY <1>10, <1>14, <1>15 DEF k

\* The packets go behind the queue, as long as the ring has room for them.
LEMMA FillKeeps ==
  ASSUME NEW sb, NEW queue, NEW sent, NEW packets \in Seq(Int),
         RingHolds(sb, queue, sent), Len(queue) + Len(packets) < sb.size
  PROVE  /\ RingHolds(Fill(sb, packets), queue \o packets, sent)
         /\ Fill(sb, packets).size = sb.size /\ Fill(sb, packets).count = sb.count
<1> DEFINE N == sb.size
           L == Len(queue)
           G == Len(packets)
<1>1. PICK ring : IsRing(sb, ring) /\ HoldsQueue(sb, ring, queue, sent)
  BY DEF RingHolds
<1>2. /\ N \in Nat \ {0} /\ sb.next \in [1 .. N -> 1 .. N] /\ sb.data \in [1 .. N -> Int]
      /\ sb.first \in 1 .. N /\ sb.curr \in 1 .. N /\ sb.last \in 1 .. N /\ sb.count \in Int
      /\ sb = [next |-> sb.next, data |-> sb.data, first |-> sb.first, curr |-> sb.curr,
               last |-> sb.last, size |-> sb.size, count |-> sb.count]
  BY <1>1 DEF IsRing, SndBufs
<1>3. /\ ring \in [0 .. N - 1 -> 1 .. N]
      /\ \A i, j \in 0 .. N - 1 : ring[i] = ring[j] => i = j
  BY <1>1 DEF IsRing
<1>4. /\ queue \in Seq(Int) /\ L \in Nat /\ L < N /\ sent \in 0 .. L
      /\ sb.last = ring[L] /\ sb.curr = ring[sent]
      /\ \A k \in 1 .. L : sb.data[ring[k - 1]] = queue[k]
  <2>1. HoldsQueue(sb, ring, queue, sent)
    BY <1>1
  <2>2. queue \in Seq(Int)
    BY <2>1 DEF HoldsQueue
  <2>3. L \in Nat
    BY <2>2
  <2> QED BY <2>1, <2>2, <2>3 DEF HoldsQueue
<1>5. N \in Nat /\ L \in Nat /\ G \in Nat /\ L + G < N /\ sent \in Nat /\ sent <= L
  BY <1>2, <1>4
<1>6. ASSUME NEW n \in 0 .. G PROVE Walk(sb, sb.last, n) = ring[L + n]
  <2>1. L \in 0 .. sb.size - 1 /\ n \in Nat /\ L + n < sb.size
    BY <1>5
  <2>2. Walk(sb, ring[L], n) = ring[L + n]
    BY <1>1, <2>1, WalkOnRing
  <2> QED BY <1>4, <2>2
<1> DEFINE block(k) == Walk(sb, sb.last, k - 1)
           filled == {block(k) : k \in DOMAIN packets}
           data == [b \in DOMAIN sb.data |-> IF b \in filled
                      THEN packets[CHOOSE k \in DOMAIN packets : block(k) = b]
                      ELSE sb.data[b]]
           last == Walk(sb, sb.last, G)
           full == [next |-> sb.next, data |-> data, first |-> sb.first, curr |-> sb.curr,
                    last |-> last, size |-> N, count |-> sb.count]
<1>7. Fill(sb, packets) = full
  <2>1. Fill(sb, packets) = [sb EXCEPT !.data = data, !.last = last]
    BY DEF Fill
  <2> HIDE DEF data, last
  <2> QED BY <1>2, <2>1
<1>8. DOMAIN packets = 1 .. G /\ \A k \in 1 .. G : packets[k] \in Int
  OBVIOUS
<1>9. \A k \in 1 .. G : block(k) = ring[L + k - 1] /\ L + k - 1 \in 0 .. N - 1
  <2> SUFFICES ASSUME NEW k \in 1 .. G
               PROVE  block(k) = ring[L + k - 1] /\ L + k - 1 \in 0 .. N - 1
    OBVIOUS
  <2>1. k - 1 \in 0 .. G /\ L + (k - 1) = L + k - 1 /\ L + k - 1 \in 0 .. N - 1
    BY <1>5
  <2> QED BY <1>6, <2>1
<1> HIDE DEF block, N, L, G
<1>10. ASSUME NEW k \in 1 .. G
       PROVE  /\ block(k) \in filled
              /\ (CHOOSE j \in DOMAIN packets : block(j) = block(k)) = k
  <2>1. \A j \in 1 .. G : block(j) = block(k) => j = k
    <3> SUFFICES ASSUME NEW j \in 1 .. G, block(j) = block(k) PROVE j = k
      OBVIOUS
    <3>1. L + j - 1 = L + k - 1
      BY <1>3, <1>9
    <3> QED BY <1>5, <3>1
  <2> QED BY <1>8, <2>1
<1>11. ASSUME NEW i \in 0 .. L - 1 PROVE ring[i] \notin filled
  <2> SUFFICES ASSUME NEW k \in 1 .. G, ring[i] = block(k) PROVE FALSE
    BY <1>8
  <2>1. i \in 0 .. N - 1 /\ i # L + k - 1
    BY <1>5
  <2> QED BY <1>3, <1>9, <2>1
<1>12. data \in [1 .. N -> Int]
  <2>1. DOMAIN sb.data = 1 .. N
    BY <1>2
  <2>2. ASSUME NEW b \in 1 .. N, b \in filled
        PROVE  packets[CHOOSE k \in DOMAIN packets : block(k) = b] \in Int
    <3>1. PICK k \in 1 .. G : b = block(k)
      BY <1>8, <2>2
    <3> HIDE DEF filled
    <3> QED BY <1>8, <1>10, <3>1
  <2>3. \A b \in 1 .. N : (IF b \in filled
           THEN packets[CHOOSE k \in DOMAIN packets : block(k) = b] ELSE sb.data[b]) \in Int
    <3> HIDE DEF filled
    <3> QED BY <1>2, <2>2
  <2> HIDE DEF filled
  <2> QED BY <2>1, <2>3
<1>13. \A k \in 1 .. G : data[ring[L + k - 1]] = packets[k]
  <2> SUFFICES ASSUME NEW k \in 1 .. G PROVE data[ring[L + k - 1]] = packets[k]
    OBVIOUS
  <2>1. block(k) \in DOMAIN sb.data
    BY <1>2, <1>3, <1>9
  <2>2. data[block(k)] = packets[CHOOSE j \in DOMAIN packets : block(j) = block(k)]
    <3>1. block(k) \in filled
      BY <1>10
    <3> HIDE DEF filled
    <3> QED BY <2>1, <3>1
  <2> HIDE DEF data, filled
  <2> QED BY <1>9, <1>10, <2>2
<1>14. \A i \in 0 .. L - 1 : data[ring[i]] = sb.data[ring[i]]
  <2> SUFFICES ASSUME NEW i \in 0 .. L - 1 PROVE data[ring[i]] = sb.data[ring[i]]
    OBVIOUS
  <2>1. i \in 0 .. N - 1
    BY <1>5
  <2>2. ring[i] \in DOMAIN sb.data /\ ring[i] \notin filled
    BY <1>2, <1>3, <1>11, <2>1
  <2> HIDE DEF filled
  <2> QED BY <2>2
<1> HIDE DEF data, filled
<1> DEFINE q == queue \o packets
<1>15. /\ q \in Seq(Int) /\ Len(q) = L + G
       /\ \A k \in 1 .. L + G : q[k] = IF k <= L THEN queue[k] ELSE packets[k - L]
  BY <1>4 DEF L, G
<1> HIDE DEF q
<1>16. last = ring[L + G] /\ last \in 1 .. N
  <2>1. G \in 0 .. G /\ L + G \in 0 .. N - 1
    BY <1>5
  <2> QED BY <1>3, <1>6, <2>1
<1> HIDE DEF last
<1>17. IsRing(full, ring)
  <2>1. full \in SndBufs(N)
    BY <1>2, <1>12, <1>16 DEF SndBufs
  <2> QED BY <1>1, <2>1 DEF IsRing, N
<1>18. ASSUME NEW k \in 1 .. L + G PROVE data[ring[k - 1]] = q[k]
  <2>1. CASE k <= L
    <3>1. k \in 1 .. L /\ k - 1 \in 0 .. L - 1
      BY <1>5, <2>1
    <3> QED BY <1>4, <1>14, <1>15, <2>1, <3>1
  <2>2. CASE k > L
    <3>1. k - L \in 1 .. G /\ L + (k - L) - 1 = k - 1 /\ ~(k <= L)
      BY <1>5, <2>2
    <3> QED BY <1>13, <1>15, <3>1
  <2> QED BY <1>5, <2>1, <2>2
<1>19. HoldsQueue(full, ring, q, sent)
  <2>1. L + G < N /\ sent \in 0 .. L + G
    BY <1>5
  <2> QED BY <1>4, <1>15, <1>16, <1>18, <2>1 DEF HoldsQueue
<1> QED BY <1>7, <1>17, <1>19 DEF RingHolds, N, q

\* What is acknowledged goes to the end of the ring, as room.
LEMMA AckKeeps ==
  ASSUME NEW sb, NEW queue, NEW sent, RingHolds(sb, queue, sent), NEW offset \in 1 .. sent
  PROVE  RingHolds([sb EXCEPT !.first = Walk(sb, @, offset), !.count = @ - offset],
                   SubSeq(queue, offset + 1, Len(queue)), sent - offset)
<1> DEFINE N == sb.size
           L == Len(queue)
           o == offset
<1>1. PICK ring : IsRing(sb, ring) /\ HoldsQueue(sb, ring, queue, sent)
  BY DEF RingHolds
<1>2. /\ N \in Nat \ {0} /\ sb.next \in [1 .. N -> 1 .. N] /\ sb.data \in [1 .. N -> Int]
      /\ sb.first \in 1 .. N /\ sb.curr \in 1 .. N /\ sb.last \in 1 .. N /\ sb.count \in Int
      /\ sb = [next |-> sb.next, data |-> sb.data, first |-> sb.first, curr |-> sb.curr,
               last |-> sb.last, size |-> sb.size, count |-> sb.count]
  BY <1>1 DEF IsRing, SndBufs
<1>3. /\ ring \in [0 .. N - 1 -> 1 .. N]
      /\ \A i, j \in 0 .. N - 1 : ring[i] = ring[j] => i = j
      /\ \A b \in 1 .. N : \E i \in 0 .. N - 1 : ring[i] = b
      /\ \A i \in 0 .. N - 1 : sb.next[ring[i]] = IF i = N - 1 THEN ring[0] ELSE ring[i + 1]
      /\ sb.first = ring[0]
  BY <1>1 DEF IsRing
<1>4. /\ queue \in Seq(Int) /\ L \in Nat /\ L < N /\ sent \in 0 .. L
      /\ sb.last = ring[L] /\ sb.curr = ring[sent]
      /\ \A k \in 1 .. L : sb.data[ring[k - 1]] = queue[k]
  <2>1. /\ queue \in Seq(Int) /\ L < N /\ sent \in 0 .. L
        /\ sb.last = ring[L] /\ sb.curr = ring[sent]
        /\ \A k \in 1 .. L : sb.data[ring[k - 1]] = queue[k]
    BY <1>1, Zenon DEF HoldsQueue
  <2>2. L \in Nat
    BY <2>1, LenProperties
  <2> QED BY <2>1, <2>2, Zenon
<1>5. /\ N \in Nat /\ L \in Nat /\ L < N /\ sent \in Nat /\ sent <= L
      /\ o \in Nat /\ o >= 1 /\ o <= sent
  BY <1>2, <1>4
<1>6. Walk(sb, sb.first, o) = ring[o]
  <2>1. 0 \in 0 .. sb.size - 1 /\ o \in Nat /\ 0 + o < sb.size /\ 0 + o = o
    BY <1>5
  <2>2. Walk(sb, ring[0], o) = ring[0 + o]
    BY <1>1, <2>1, WalkOnRing
  <2> QED BY <1>3, <2>1, <2>2
<1> DEFINE r == [i \in 0 .. N - 1 |-> IF i + o < N THEN ring[i + o] ELSE ring[i + o - N]]
           to(i) == IF i + o < N THEN i + o ELSE i + o - N
           q == SubSeq(queue, o + 1, L)
           new == [sb EXCEPT !.first = Walk(sb, @, o), !.count = @ - o]
<1>7. /\ new \in SndBufs(N) /\ new.next = sb.next /\ new.data = sb.data
      /\ new.first = ring[o] /\ new.curr = sb.curr /\ new.last = sb.last /\ new.size = sb.size
  <2> DEFINE b == Walk(sb, sb.first, o)
  <2>1. sb \in SndBufs(N)
    BY <1>1 DEF IsRing
  <2>2. b = ring[o]
    BY <1>6
  <2>3. b \in 1 .. N
    <3>1. o \in 0 .. N - 1
      BY <1>5
    <3> QED BY <1>3, <2>2, <3>1
  <2> DEFINE c == sb.count - o
             m == [sb EXCEPT !.first = b]
  <2>4. new = [sb EXCEPT !.first = b, !.count = c]
    OBVIOUS
  <2>5. [sb EXCEPT !.first = b, !.count = c] = [m EXCEPT !.count = c]
    BY <2>1 DEF SndBufs
  <2>6. c \in Int
    BY <1>2, <1>5
  <2> HIDE DEF b, c, N, new, o
  <2>7. /\ m \in SndBufs(N) /\ m.next = sb.next /\ m.data = sb.data
        /\ m.first = b /\ m.curr = sb.curr /\ m.last = sb.last /\ m.size = sb.size
    BY <2>1, <2>3 DEF SndBufs
  <2> HIDE DEF m
  <2>8. /\ [m EXCEPT !.count = c] \in SndBufs(N) /\ [m EXCEPT !.count = c].next = m.next
        /\ [m EXCEPT !.count = c].data = m.data /\ [m EXCEPT !.count = c].first = m.first
        /\ [m EXCEPT !.count = c].curr = m.curr /\ [m EXCEPT !.count = c].last = m.last
        /\ [m EXCEPT !.count = c].size = m.size
    BY <2>6, <2>7 DEF SndBufs
  <2> QED BY <2>2, <2>4, <2>5, <2>7, <2>8
<1>8. /\ q \in Seq(Int) /\ Len(q) = L - o
      /\ \A k \in 1 .. L - o : q[k] = queue[o + k]
  <2>1. o + 1 \in 1 .. L + 1 /\ L \in 0 .. L
    BY <1>5
  <2>2. Len(q) = L - o
    BY <1>4, <1>5
  <2>3. ASSUME NEW k \in 1 .. L - o PROVE q[k] = queue[o + k]
    <3>1. k + (o + 1) - 1 = o + k
      BY <1>5
    <3> QED BY <1>4, <1>5, <2>2, <3>1
  <2>4. q \in Seq(Int)
    <3>1. \A k \in 1 .. L - o : o + k \in 1 .. L
      BY <1>5
    <3>2. \A k \in 1 .. L - o : q[k] \in Int
      BY <1>4, <2>3, <3>1
    <3> QED BY <1>4, <1>5, <2>2, <3>2
  <2> QED BY <2>2, <2>3, <2>4
<1> HIDE DEF N, L, q, new
<1>9. \A i \in 0 .. N - 1 : r[i] = ring[to(i)] /\ to(i) \in 0 .. N - 1
  <2> SUFFICES ASSUME NEW i \in 0 .. N - 1 PROVE r[i] = ring[to(i)] /\ to(i) \in 0 .. N - 1
    OBVIOUS
  <2>1. to(i) \in 0 .. N - 1
    BY <1>5
  <2> QED BY <2>1
<1>10. r \in [0 .. N - 1 -> 1 .. N]
  <2>1. DOMAIN r = 0 .. N - 1 /\ r = [i \in 0 .. N - 1 |-> r[i]]
    OBVIOUS
  <2>2. \A i \in 0 .. N - 1 : r[i] \in 1 .. N
    <3> HIDE DEF r, to
    <3> QED BY <1>3, <1>9
  <2> HIDE DEF r
  <2> QED BY <2>1, <2>2
<1> HIDE DEF r
<1>11. \A i, j \in 0 .. N - 1 : r[i] = r[j] => i = j
  <2> SUFFICES ASSUME NEW i \in 0 .. N - 1, NEW j \in 0 .. N - 1, r[i] = r[j] PROVE i = j
    OBVIOUS
  <2>1. to(i) = to(j)
    <3> HIDE DEF to
    <3> QED BY <1>3, <1>9
  <2> QED BY <1>5, <2>1
<1>12. \A b \in 1 .. N : \E i \in 0 .. N - 1 : r[i] = b
  <2> SUFFICES ASSUME NEW b \in 1 .. N PROVE \E i \in 0 .. N - 1 : r[i] = b
    OBVIOUS
  <2>1. PICK j \in 0 .. N - 1 : ring[j] = b
    BY <1>3
  <2> DEFINE i == IF j >= o THEN j - o ELSE j + N - o
  <2>2. i \in 0 .. N - 1 /\ to(i) = j
    BY <1>5
  <2> HIDE DEF i, to
  <2> QED BY <1>9, <2>1, <2>2
<1>13. \A i \in 0 .. N - 1 : sb.next[r[i]] = IF i = N - 1 THEN r[0] ELSE r[i + 1]
  <2> SUFFICES ASSUME NEW i \in 0 .. N - 1
               PROVE  sb.next[r[i]] = IF i = N - 1 THEN r[0] ELSE r[i + 1]
    OBVIOUS
  <2>1. /\ 0 \in 0 .. N - 1 /\ to(0) = o /\ (i # N - 1 => i + 1 \in 0 .. N - 1)
        /\ i = N - 1 => to(i) # N - 1 /\ to(i) + 1 = o
        /\ i # N - 1 /\ to(i) = N - 1 => to(i + 1) = 0
        /\ i # N - 1 /\ to(i) # N - 1 => to(i + 1) = to(i) + 1
    BY <1>5
  <2> HIDE DEF to
  <2>2. sb.next[r[i]] = IF to(i) = N - 1 THEN ring[0] ELSE ring[to(i) + 1]
    BY <1>3, <1>9
  <2>3. r[0] = ring[o]
    BY <1>9, <2>1
  <2>4. i # N - 1 => r[i + 1] = ring[to(i + 1)]
    BY <1>9, <2>1
  <2> QED BY <2>1, <2>2, <2>3, <2>4
<1>14. \A i \in 0 .. N - 1 - o : r[i] = ring[i + o]
  <2> SUFFICES ASSUME NEW i \in 0 .. N - 1 - o PROVE r[i] = ring[i + o]
    OBVIOUS
  <2>1. i \in 0 .. N - 1 /\ to(i) = i + o
    BY <1>5
  <2> HIDE DEF to
  <2> QED BY <1>9, <2>1
<1>15. IsRing(new, r)
  <2>1. new.first = r[0]
    <3>1. 0 \in 0 .. N - 1 - o /\ 0 + o = o
      BY <1>5
    <3> QED BY <1>7, <1>14, <3>1
  <2> QED BY <1>2, <1>7, <1>10, <1>11, <1>12, <1>13, <2>1 DEF IsRing, N
<1>16. HoldsQueue(new, r, q, sent - o)
  <2>1. L - o < N /\ sent - o \in 0 .. L - o
    BY <1>5
  <2>2. sb.last = r[L - o] /\ sb.curr = r[sent - o]
    <3>1. L - o \in 0 .. N - 1 - o /\ sent - o \in 0 .. N - 1 - o /\ (L - o) + o = L /\ (sent - o) + o = sent
      BY <1>5
    <3> QED BY <1>4, <1>14, <3>1
  <2>3. ASSUME NEW k \in 1 .. L - o PROVE sb.data[r[k - 1]] = q[k]
    <3>1. k - 1 \in 0 .. N - 1 - o /\ (k - 1) + o = (o + k) - 1 /\ o + k \in 1 .. L
      BY <1>5
    <3>2. r[k - 1] = ring[(o + k) - 1]
      BY <1>14, <3>1
    <3> QED BY <1>4, <1>8, <3>1, <3>2
  <2> QED BY <1>7, <1>8, <2>1, <2>2, <2>3 DEF HoldsQueue, N
<1> QED BY <1>15, <1>16 DEF RingHolds, new, q, L

\* A packet is sent for the first time.
LEMMA ReadKeeps ==
  ASSUME NEW sb, NEW queue, NEW sent, RingHolds(sb, queue, sent), sb.curr # sb.last
  PROVE  RingHolds([sb EXCEPT !.curr = sb.next[@]], queue, sent + 1)
<1> DEFINE N == sb.size
           L == Len(queue)
           new == [sb EXCEPT !.curr = sb.next[@]]
<1>1. PICK ring : IsRing(sb, ring) /\ HoldsQueue(sb, ring, queue, sent)
  BY DEF RingHolds
<1>2. /\ N \in Nat \ {0} /\ sb \in SndBufs(N) /\ ring \in [0 .. N - 1 -> 1 .. N]
      /\ \A i \in 0 .. N - 1 : sb.next[ring[i]] = IF i = N - 1 THEN ring[0] ELSE ring[i + 1]
  BY <1>1 DEF IsRing
<1>3. L \in Nat /\ L < N /\ sent \in 0 .. L /\ sb.last = ring[L] /\ sb.curr = ring[sent]
  BY <1>1 DEF HoldsQueue
<1>4. sent # L
  BY <1>3
<1>5. sent + 1 \in 0 .. L /\ sent \in 0 .. N - 1 /\ sent # N - 1 /\ sent + 1 \in 0 .. N - 1
  BY <1>2, <1>3, <1>4
<1>6. sb.next[sb.curr] = ring[sent + 1] /\ ring[sent + 1] \in 1 .. N
  BY <1>2, <1>3, <1>5
<1>7. /\ new \in SndBufs(N) /\ new.next = sb.next /\ new.data = sb.data /\ new.first = sb.first
      /\ new.last = sb.last /\ new.size = sb.size /\ new.curr = ring[sent + 1]
  BY <1>2, <1>6 DEF SndBufs
<1> HIDE DEF new
<1>8. IsRing(new, ring)
  BY <1>1, <1>7 DEF IsRing
<1>9. HoldsQueue(new, ring, queue, sent + 1)
  BY <1>1, <1>5, <1>7 DEF HoldsQueue
<1> QED BY <1>8, <1>9 DEF RingHolds, new

LEMMA SbInitially == SbInit => SbInv
<1> SUFFICES ASSUME SbInit PROVE SbInv
  OBVIOUS
<1> DEFINE B == SndBlocks
           ring == [i \in 0 .. B - 1 |-> i + 1]
<1>1. B \in Nat /\ B > 1
  BY BuffersAssumption
<1>2. /\ sndBuf = [next |-> [b \in 1 .. B |-> (b % B) + 1], data |-> [b \in 1 .. B |-> Nothing],
                   first |-> 1, curr |-> 1, last |-> 1, size |-> B, count |-> 0]
      /\ sndQueue = <<>> /\ sndAdded = 0 /\ sndSent = 0 /\ sndShort = 0
  BY DEF SbInit, NewSndBuf
<1> HIDE DEF B
<1>3. \A b \in 1 .. B : (b % B) + 1 = IF b = B THEN 1 ELSE b + 1
  BY <1>1, SMTT(30)
<1>4. \A b \in 1 .. B : (b % B) + 1 \in 1 .. B
  BY <1>1, <1>3
<1>5. sndBuf \in SndBufs(B)
  <2>1. [b \in 1 .. B |-> (b % B) + 1] \in [1 .. B -> 1 .. B]
    BY <1>4
  <2>2. [b \in 1 .. B |-> Nothing] \in [1 .. B -> Int]
    BY DEF Nothing
  <2>3. 1 \in 1 .. B
    BY <1>1
  <2> QED BY <1>2, <2>1, <2>2, <2>3 DEF SndBufs
<1>6. ring \in [0 .. B - 1 -> 1 .. B] /\ \A i \in 0 .. B - 1 : ring[i] = i + 1
  <2>1. \A i \in 0 .. B - 1 : i + 1 \in 1 .. B
    BY <1>1
  <2> QED BY <2>1
<1> HIDE DEF ring
<1>7. \A i \in 0 .. B - 1 : sndBuf.next[ring[i]] = IF i = B - 1 THEN ring[0] ELSE ring[i + 1]
  <2> SUFFICES ASSUME NEW i \in 0 .. B - 1
               PROVE  sndBuf.next[ring[i]] = IF i = B - 1 THEN ring[0] ELSE ring[i + 1]
    OBVIOUS
  <2>1. i + 1 \in 1 .. B /\ 0 \in 0 .. B - 1 /\ (i # B - 1 => i + 1 \in 0 .. B - 1)
        /\ (i + 1 = B <=> i = B - 1)
    BY <1>1
  <2>2. sndBuf.next[i + 1] = ((i + 1) % B) + 1
    BY <1>2, <2>1
  <2>3. sndBuf.next[i + 1] = IF i = B - 1 THEN 1 ELSE (i + 1) + 1
    BY <1>3, <2>1, <2>2
  <2> QED BY <1>6, <2>1, <2>3
<1>8. IsRing(sndBuf, ring)
  <2>1. sndBuf.size = B /\ sndBuf.first = 1
    BY <1>2
  <2>2. \A b \in 1 .. B : \E i \in 0 .. B - 1 : ring[i] = b
    <3>1. \A b \in 1 .. B : b - 1 \in 0 .. B - 1 /\ (b - 1) + 1 = b
      BY <1>1
    <3> QED BY <1>6, <3>1
  <2>3. \A i, j \in 0 .. B - 1 : ring[i] = ring[j] => i = j
    BY <1>1, <1>6
  <2>4. ring[0] = 1 /\ B \in Nat \ {0}
    BY <1>1, <1>6
  <2>5. ring \in [0 .. B - 1 -> 1 .. B]
    BY <1>6
  <2> QED BY <1>5, <1>7, <2>1, <2>2, <2>3, <2>4, <2>5 DEF IsRing
<1>9. HoldsQueue(sndBuf, ring, sndQueue, sndSent)
  <2>1. sndBuf.size = B /\ sndBuf.last = 1 /\ sndBuf.curr = 1 /\ ring[0] = 1
    BY <1>1, <1>2, <1>6
  <2>2. sndQueue \in Seq(Int) /\ Len(sndQueue) = 0 /\ sndSent \in 0 .. 0
    BY <1>2
  <2> QED BY <1>1, <2>1, <2>2 DEF HoldsQueue
<1>10. /\ sndBuf.count = 0 /\ sndBuf.size = B /\ Len(sndQueue) = 0
       /\ sndAdded = 0 /\ sndShort = 0
  BY <1>2
<1>11. RingHolds(sndBuf, sndQueue, sndSent)
  BY <1>8, <1>9 DEF RingHolds
<1> QED BY <1>1, <1>10, <1>11 DEF SbInv

LEMMA SbAddKeeps ==
  ASSUME SbInv, NEW n \in 1 .. MaxAdd, NEW got \in 0 .. n, SbAdd(n, got)
  PROVE  SbInv'
<1> DEFINE packets == [k \in 1 .. got |-> sndAdded + k]
           big == IncreaseFor(sndBuf, n)
           full == Fill(big, packets)
<1>1. n \in Nat /\ got \in Nat /\ got <= n
  BY BuffersAssumption
<1>2. /\ sndBuf' = [full EXCEPT !.count = @ + n]
      /\ sndQueue' = sndQueue \o packets /\ sndAdded' = sndAdded + got
      /\ sndShort' = sndShort + n - got /\ sndSent' = sndSent
  BY DEF SbAdd, Add
<1>3. /\ RingHolds(sndBuf, sndQueue, sndSent) /\ sndBuf.count = Len(sndQueue) + sndShort
      /\ sndAdded \in Nat /\ sndShort \in Nat
  BY DEF SbInv
<1>4. sndQueue \in Seq(Int) /\ Len(sndQueue) \in Nat
  BY <1>3 DEF RingHolds, HoldsQueue
<1>5. packets \in Seq(Int) /\ Len(packets) = got
  BY <1>1, <1>3
<1> HIDE DEF packets
<1>6. sndBuf.count \in Nat
  BY <1>3, <1>4
<1>7. RingHolds(big, sndQueue, sndSent) /\ big.count = sndBuf.count /\ sndBuf.count + n < big.size
  BY <1>1, <1>3, <1>6, IncreaseForKeeps
<1>8. big.size \in Nat
  BY <1>7 DEF RingHolds, IsRing
<1> HIDE DEF big
<1>9. Len(sndQueue) + Len(packets) < big.size
  BY <1>1, <1>3, <1>4, <1>5, <1>7, <1>8
<1>10. /\ RingHolds(full, sndQueue \o packets, sndSent)
       /\ full.size = big.size /\ full.count = big.count
  BY <1>5, <1>7, <1>9, FillKeeps
<1> HIDE DEF full
<1> DEFINE new == [full EXCEPT !.count = @ + n]
<1>11. PICK ring : IsRing(full, ring) /\ HoldsQueue(full, ring, sndQueue \o packets, sndSent)
  BY <1>10 DEF RingHolds
<1>12. full \in SndBufs(full.size)
  BY <1>11 DEF IsRing
<1>13. /\ new \in SndBufs(full.size) /\ new.next = full.next /\ new.data = full.data
       /\ new.first = full.first /\ new.last = full.last /\ new.size = full.size
       /\ new.curr = full.curr /\ new.count = full.count + n
  BY <1>1, <1>12 DEF SndBufs
<1> HIDE DEF new
<1>14. IsRing(new, ring) /\ HoldsQueue(new, ring, sndQueue \o packets, sndSent)
  BY <1>11, <1>13 DEF IsRing, HoldsQueue
<1>15. RingHolds(sndBuf', sndQueue', sndSent')
  BY <1>2, <1>14 DEF RingHolds, new
<1>16. sndBuf'.count = sndBuf.count + n /\ sndBuf'.size = big.size
  <2>1. sndBuf' = new
    BY <1>2 DEF new
  <2>2. sndBuf'.count = full.count + n /\ sndBuf'.size = full.size
    BY <1>13, <2>1
  <2>3. full.count = sndBuf.count
    BY <1>7, <1>10
  <2>4. full.size = big.size
    BY <1>10
  <2> QED BY <2>2, <2>3, <2>4
<1>17. Len(sndQueue') = Len(sndQueue) + got
  <2>1. sndQueue' = sndQueue \o packets
    BY <1>2
  <2>2. Len(sndQueue \o packets) = Len(sndQueue) + Len(packets)
    BY <1>4, <1>5, ConcatProperties
  <2> QED BY <1>5, <2>1, <2>2
<1>18. sndAdded \in Nat /\ sndShort \in Nat
  BY DEF SbInv
<1>19. sndAdded' = sndAdded + got /\ sndShort' = sndShort + n - got
  BY <1>2
<1>20. /\ sndBuf'.count = Len(sndQueue') + sndShort' /\ sndBuf'.count < sndBuf'.size
       /\ sndAdded' \in Nat /\ sndShort' \in Nat
  BY <1>1, <1>3, <1>4, <1>6, <1>7, <1>8, <1>16, <1>17, <1>18, <1>19
<1> QED BY <1>15, <1>20 DEF SbInv

LEMMA SbReadKeeps == SbInv /\ SbRead => SbInv'
<1> SUFFICES ASSUME SbInv, SbRead PROVE SbInv'
  OBVIOUS
<1> DEFINE new == [sndBuf EXCEPT !.curr = sndBuf.next[@]]
<1>1. /\ sndBuf.curr # sndBuf.last /\ sndBuf' = new /\ sndSent' = sndSent + 1
      /\ sndQueue' = sndQueue /\ sndAdded' = sndAdded /\ sndShort' = sndShort
  BY DEF SbRead
<1>2. RingHolds(new, sndQueue, sndSent + 1)
  BY <1>1, ReadKeeps DEF SbInv
<1>3. sndBuf \in SndBufs(sndBuf.size)
  BY DEF SbInv, RingHolds, IsRing
<1>4. new.count = sndBuf.count /\ new.size = sndBuf.size
  BY <1>3 DEF SndBufs
<1> QED BY <1>1, <1>2, <1>4 DEF SbInv

LEMMA SbAckKeeps ==
  ASSUME SbInv, NEW offset \in 1 .. sndSent, SbAck(offset)
  PROVE  SbInv'
<1> DEFINE new == [sndBuf EXCEPT !.first = Walk(sndBuf, @, offset), !.count = @ - offset]
           q == SubSeq(sndQueue, offset + 1, Len(sndQueue))
<1>1. /\ sndBuf' = new /\ sndSent' = sndSent - offset /\ sndQueue' = q
      /\ sndAdded' = sndAdded /\ sndShort' = sndShort
  BY DEF SbAck
<1>2. RingHolds(new, q, sndSent - offset)
  BY AckKeeps DEF SbInv
<1>3. sndBuf \in SndBufs(sndBuf.size) /\ sndBuf.size \in Nat
  BY DEF SbInv, RingHolds, IsRing
<1>4. new.count = sndBuf.count - offset /\ new.size = sndBuf.size
  BY <1>3 DEF SndBufs
<1>5. sndQueue \in Seq(Int) /\ sndSent \in 0 .. Len(sndQueue)
  BY DEF SbInv, RingHolds, HoldsQueue
<1>6. offset \in Nat /\ offset <= Len(sndQueue)
  BY <1>5
<1>7. Len(q) = Len(sndQueue) - offset
  BY <1>5, <1>6
<1>8. sndBuf.count = Len(sndQueue) + sndShort /\ sndBuf.count < sndBuf.size /\ sndShort \in Nat
  BY DEF SbInv
<1>9. new.count = Len(q) + sndShort /\ new.count < new.size
  <2> HIDE DEF new, q
  <2> QED BY <1>3, <1>4, <1>5, <1>6, <1>7, <1>8
<1> QED BY <1>1, <1>2, <1>9 DEF SbInv

LEMMA SbInvIsInductive == SbInv /\ [SbStep]_sbVars => SbInv'
<1> SUFFICES ASSUME SbInv, [SbStep]_sbVars PROVE SbInv'
  OBVIOUS
<1>1. CASE UNCHANGED sbVars
  BY <1>1 DEF sbVars, SbInv
<1>2. ASSUME NEW n \in 1 .. MaxAdd, NEW got \in 0 .. n, SbAdd(n, got) PROVE SbInv'
  BY <1>2, SbAddKeeps
<1>3. CASE SbRead
  BY <1>3, SbReadKeeps
<1>4. ASSUME NEW offset \in 1 .. sndSent, SbAck(offset) PROVE SbInv'
  BY <1>4, SbAckKeeps
<1> QED BY <1>1, <1>2, <1>3, <1>4 DEF SbStep

LEMMA SbInvIsTheQueue == SbInv => SndBufferIsTheQueue
<1> SUFFICES ASSUME SbInv PROVE SndBufferIsTheQueue
  OBVIOUS
<1> DEFINE N == sndBuf.size
           L == Len(sndQueue)
           at(k) == Walk(sndBuf, sndBuf.first, k)
<1>1. PICK ring : IsRing(sndBuf, ring) /\ HoldsQueue(sndBuf, ring, sndQueue, sndSent)
  BY DEF SbInv, RingHolds
<1>2. /\ N \in Nat \ {0} /\ ring \in [0 .. N - 1 -> 1 .. N] /\ sndBuf.first = ring[0]
      /\ \A b \in 1 .. N : \E i \in 0 .. N - 1 : ring[i] = b
  BY <1>1 DEF IsRing
<1>3. /\ L \in Nat /\ L < N /\ sndSent \in 0 .. L /\ sndBuf.last = ring[L]
      /\ sndBuf.curr = ring[sndSent]
      /\ \A k \in 1 .. L : sndBuf.data[ring[k - 1]] = sndQueue[k]
  BY <1>1 DEF HoldsQueue
<1>4. ASSUME NEW k \in 0 .. N - 1 PROVE at(k) = ring[k]
  <2>1. 0 \in 0 .. sndBuf.size - 1 /\ k \in Nat /\ 0 + k < sndBuf.size /\ 0 + k = k
    BY <1>2
  <2>2. Walk(sndBuf, ring[0], k) = ring[0 + k]
    BY <1>1, <2>1, WalkOnRing
  <2> QED BY <1>2, <2>1, <2>2
<1> HIDE DEF at, N, L
<1>5. ASSUME NEW k \in 1 .. L PROVE Resent(sndBuf, k - 1) = sndQueue[k]
  <2>1. k - 1 \in 0 .. N - 1
    BY <1>2, <1>3
  <2> QED BY <1>3, <1>4, <2>1 DEF Resent, at
<1>6. at(L) = sndBuf.last /\ at(sndSent) = sndBuf.curr
  <2>1. L \in 0 .. N - 1 /\ sndSent \in 0 .. N - 1
    BY <1>2, <1>3
  <2> QED BY <1>3, <1>4, <2>1
<1>7. {at(k) : k \in 0 .. N - 1} = 1 .. N
  BY <1>2, <1>4
<1>8. sndBuf.count = L + sndShort
  BY DEF SbInv, L
<1> QED BY <1>5, <1>6, <1>7, <1>8 DEF SndBufferIsTheQueue, at, N, L

\* Whatever is added, from memory or from a file that ends early, however
\* often the ring has to grow for it, and whatever is sent, acknowledged and
\* sent again, the sender's buffer holds the packets not yet acknowledged in
\* their order, and a packet to be sent again is found where it is.
THEOREM SndBufferIsAlwaysTheQueue == SbSpec => []SndBufferIsTheQueue
BY SbInitially, SbInvIsInductive, SbInvIsTheQueue, PTL DEF SbSpec

-----------------------------------------------------------------------------
(* Arithmetic.                                                             *)

LEMMA DivMod == ASSUME NEW u \in Nat, NEW d \in Nat \ {0}
  PROVE /\ u = (u \div d) * d + (u % d) /\ u % d \in 0 .. d - 1 /\ u \div d \in Nat
  BY SMTT(30)

LEMMA ModSmall == ASSUME NEW d \in Nat \ {0}, NEW x \in 0 .. d - 1
  PROVE x % d = x /\ (x + d) % d = x
<1>1. x % d = x
  BY SMTT(30)
<1>2. (x + d) % d = x
  BY SMTT(30)
<1> QED BY <1>1, <1>2

LEMMA Reaches == ASSUME NEW d \in Nat \ {0}, NEW a \in 0 .. d - 1, NEW b \in 0 .. d - 1
  PROVE \E k \in 0 .. d - 1 : (a + k) % d = b
<1>1. CASE b >= a
  <2>1. b - a \in 0 .. d - 1 /\ a + (b - a) = b
    BY <1>1
  <2> QED BY <2>1, ModSmall
<1>2. CASE ~(b >= a)
  <2>1. b - a + d \in 0 .. d - 1 /\ a + (b - a + d) = b + d
    BY <1>2
  <2> QED BY <2>1, ModSmall
<1> QED BY <1>1, <1>2

LEMMA MinIs == ASSUME NEW T, T \subseteq Nat, T # {}
               PROVE  Min(T) \in T
<1>1. \E n \in T : \A m \in T : n <= m
  BY LeastIn
<1> QED BY <1>1 DEF Min

-----------------------------------------------------------------------------
(* The units.                                                              *)

UnitQs == [flag : [AllUnits -> Nat], pkt : [AllUnits -> Int], entries : 1 .. MaxEntries,
           count : Int, curr : Nat, avail : Nat]

\* The search stands in an entry there is, and no unit of the others is in use.
IsUnits(uq) ==
  /\ uq \in UnitQs
  /\ uq.curr < uq.entries
  /\ uq.curr * UnitBlock <= uq.avail /\ uq.avail < uq.curr * UnitBlock + UnitBlock
  /\ \A u \in AllUnits : u >= uq.entries * UnitBlock => uq.flag[u] = 0

LEMMA UnitBounds ==
  /\ UnitBlock \in Nat /\ UnitBlock > 1 /\ MaxEntries \in Nat /\ MaxEntries > 0
  /\ GrowNum \in Nat /\ GrowDen \in Nat /\ GrowNum < GrowDen
  /\ (UnitBlock - 1) * GrowDen >= GrowNum * UnitBlock
  /\ IsFiniteSet(AllUnits) /\ Cardinality(AllUnits) = UnitBlock * MaxEntries
  /\ AllUnits \subseteq Nat
<1>1. /\ UnitBlock \in Nat /\ UnitBlock > 1 /\ MaxEntries \in Nat /\ MaxEntries > 0
      /\ GrowNum \in Nat /\ GrowDen \in Nat /\ GrowNum < GrowDen
      /\ (UnitBlock - 1) * GrowDen >= GrowNum * UnitBlock
  BY BuffersAssumption
<1> DEFINE n == UnitBlock * MaxEntries - 1
<1>2. n \in Int /\ n >= 0 /\ n + 1 = UnitBlock * MaxEntries
  BY <1>1
<1> HIDE DEF n
<1>3. IsFiniteSet(0 .. n) /\ Cardinality(0 .. n) = IF 0 > n THEN 0 ELSE n - 0 + 1
  BY <1>2, FS_Interval
<1>4. Cardinality(0 .. n) = n + 1
  BY <1>2, <1>3
<1> QED BY <1>1, <1>2, <1>3, <1>4 DEF AllUnits, n

\* Units and the entries they are in.
LEMMA UnitOfEntry ==
  ASSUME NEW e \in 1 .. MaxEntries, NEW k \in 0 .. e - 1, NEW j \in 0 .. UnitBlock - 1
  PROVE  k * UnitBlock + j \in AllUnits /\ k * UnitBlock + j < e * UnitBlock
<1>1. UnitBlock \in Nat /\ MaxEntries \in Nat /\ k \in Nat /\ j \in Nat /\ e \in Nat
      /\ k + 1 <= e /\ e <= MaxEntries /\ j < UnitBlock
  BY UnitBounds
<1>2. (k + 1) * UnitBlock <= e * UnitBlock /\ e * UnitBlock <= MaxEntries * UnitBlock
  BY <1>1
<1>3. (k + 1) * UnitBlock = k * UnitBlock + UnitBlock /\ MaxEntries * UnitBlock = UnitBlock * MaxEntries
      /\ k * UnitBlock \in Nat
  BY <1>1
<1> QED BY <1>1, <1>2, <1>3 DEF AllUnits

LEMMA InUseIs ==
  ASSUME NEW uq, IsUnits(uq)
  PROVE  /\ IsFiniteSet(InUse(uq)) /\ InUse(uq) \subseteq AllUnits
         /\ Cardinality(InUse(uq)) \in Nat
         /\ Cardinality(InUse(uq)) <= uq.entries * UnitBlock
         /\ Cardinality(InUse(uq)) >= MaxEntries * UnitBlock => InUse(uq) = AllUnits
<1>1. InUse(uq) \subseteq AllUnits
  BY DEF InUse
<1>2. /\ IsFiniteSet(InUse(uq)) /\ Cardinality(InUse(uq)) <= Cardinality(AllUnits)
      /\ Cardinality(AllUnits) = Cardinality(InUse(uq)) => AllUnits = InUse(uq)
  BY <1>1, UnitBounds, FS_Subset
<1>3. Cardinality(InUse(uq)) \in Nat
  BY <1>2, FS_CardinalityType
<1>4. Cardinality(InUse(uq)) <= uq.entries * UnitBlock
  <2> DEFINE n == uq.entries * UnitBlock - 1
  <2>1. uq.entries \in Nat /\ uq.entries > 0 /\ UnitBlock \in Nat /\ UnitBlock > 1
    BY UnitBounds DEF IsUnits, UnitQs
  <2>2. n \in Int /\ n >= 0 /\ n + 1 = uq.entries * UnitBlock
    BY <2>1
  <2>3. \A u \in InUse(uq) : ~(u >= uq.entries * UnitBlock) /\ u \in Nat
    BY UnitBounds DEF InUse, IsUnits
  <2> HIDE DEF n
  <2>4. InUse(uq) \subseteq 0 .. n
    BY <2>2, <2>3
  <2>5. IsFiniteSet(0 .. n) /\ Cardinality(0 .. n) = IF 0 > n THEN 0 ELSE n - 0 + 1
    BY <2>2, FS_Interval
  <2>6. Cardinality(0 .. n) = n + 1
    BY <2>2, <2>5
  <2>7. Cardinality(InUse(uq)) <= Cardinality(0 .. n)
    BY <2>4, <2>5, FS_Subset
  <2> QED BY <2>2, <2>6, <2>7
<1> QED BY <1>1, <1>2, <1>3, <1>4, UnitBounds

\* When all units of the first entries but one of each are in use, so many are.
LEMMA InUseAtLeast ==
  ASSUME NEW uq, IsUnits(uq),
         \A k \in 0 .. uq.entries - 1 : \A j \in 0 .. UnitBlock - 2 : uq.flag[k * UnitBlock + j] # 0
  PROVE  Cardinality(InUse(uq)) >= uq.entries * (UnitBlock - 1)
<1> DEFINE Below(k) == {u \in InUse(uq) : u < k * UnitBlock}
           P == {k \in Nat : k <= uq.entries => Cardinality(Below(k)) >= k * (UnitBlock - 1)}
<1>0. /\ uq.entries \in Nat /\ uq.entries \in 1 .. MaxEntries /\ UnitBlock \in Nat /\ UnitBlock > 1
      /\ MaxEntries \in Nat
  BY UnitBounds DEF IsUnits, UnitQs
<1>1. \A k : Below(k) \subseteq InUse(uq) /\ IsFiniteSet(Below(k)) /\ Cardinality(Below(k)) \in Nat
             /\ Cardinality(Below(k)) <= Cardinality(InUse(uq))
  <2> TAKE k
  <2> DEFINE B == Below(k)
  <2>1. B \subseteq InUse(uq)
    OBVIOUS
  <2> HIDE DEF B
  <2>2. IsFiniteSet(B) /\ Cardinality(B) <= Cardinality(InUse(uq))
    BY <2>1, InUseIs, FS_Subset
  <2>3. Cardinality(B) \in Nat
    BY <2>2, FS_CardinalityType
  <2> QED BY <2>1, <2>2, <2>3 DEF B
<1>2. 0 \in P
  <2> DEFINE c == Cardinality(Below(0))
  <2>1. c \in Nat
    BY <1>1
  <2> HIDE DEF c
  <2>2. c >= 0 * (UnitBlock - 1)
    BY <1>0, <2>1
  <2> QED BY <2>2 DEF c
<1>3. ASSUME NEW k \in P PROVE k + 1 \in P
  <2>1. k \in Nat
    OBVIOUS
  <2>2. SUFFICES ASSUME k + 1 <= uq.entries
                 PROVE  Cardinality(Below(k + 1)) >= (k + 1) * (UnitBlock - 1)
    BY <2>1
  <2> DEFINE a == k * UnitBlock
             b == k * UnitBlock + UnitBlock - 2
             B == Below(k)
             C == Below(k + 1)
             I == a .. b
  <2>3. a \in Nat /\ b \in Int /\ b = a + UnitBlock - 2 /\ (k + 1) * UnitBlock = a + UnitBlock
    BY <1>0, <2>1
  <2>4. IsFiniteSet(I) /\ Cardinality(I) = UnitBlock - 1
    <3> HIDE DEF a, b
    <3>1. a \in Int /\ b \in Int
      BY <2>3
    <3>2. IsFiniteSet(a .. b) /\ Cardinality(a .. b) = IF a > b THEN 0 ELSE b - a + 1
      BY <3>1, FS_Interval
    <3>3. a <= b /\ b - a + 1 = UnitBlock - 1
      BY <1>0, <2>3
    <3> QED BY <3>1, <3>2, <3>3
  <2>5. Cardinality(B) >= k * (UnitBlock - 1)
    BY <1>0, <2>1, <2>2
  <2>6. I \subseteq C
    <3> SUFFICES ASSUME NEW u \in I PROVE u \in C
      OBVIOUS
    <3>1. u \in Nat /\ u - a \in 0 .. UnitBlock - 2 /\ u < (k + 1) * UnitBlock
      BY <1>0, <2>3
    <3>2. k \in 0 .. uq.entries - 1 /\ k * UnitBlock + (u - a) = u /\ u - a \in 0 .. UnitBlock - 1
      BY <1>0, <2>1, <2>2, <2>3, <3>1
    <3>3. uq.flag[u] # 0
      BY <3>1, <3>2
    <3>4. u \in AllUnits
      BY <1>0, <3>2, UnitOfEntry
    <3> QED BY <3>1, <3>3, <3>4 DEF InUse
  <2>7. B \subseteq C /\ B \cap I = {}
    <3>1. \A u \in InUse(uq) : u \in Nat
      BY UnitBounds DEF InUse
    <3> QED BY <1>0, <2>1, <2>3, <3>1
  <2>8. IsFiniteSet(B) /\ IsFiniteSet(C) /\ Cardinality(B) \in Nat /\ Cardinality(C) \in Nat
    BY <1>1
  <2> HIDE DEF B, C, I
  <2>9. Cardinality(B \cup I) = Cardinality(B) + Cardinality(I) - Cardinality(B \cap I)
    BY <2>4, <2>8, FS_Union
  <2>10. Cardinality({}) = 0
    BY FS_EmptySet
  <2>11. Cardinality(B \cup I) <= Cardinality(C)
    BY <2>6, <2>7, <2>8, FS_Subset
  <2>12. Cardinality(C) >= Cardinality(B) + (UnitBlock - 1)
    <3>1. Cardinality(B \cap I) = 0
      BY <2>7, <2>10
    <3>2. Cardinality(B \cup I) = Cardinality(B) + (UnitBlock - 1)
      BY <1>0, <2>4, <2>8, <2>9, <3>1
    <3> QED BY <2>11, <3>2
  <2>13. (k + 1) * (UnitBlock - 1) = k * (UnitBlock - 1) + (UnitBlock - 1)
         /\ k * (UnitBlock - 1) \in Nat
    BY <1>0, <2>1
  <2>14. Cardinality(C) >= (k + 1) * (UnitBlock - 1)
    BY <1>0, <2>5, <2>8, <2>12, <2>13
  <2> QED BY <2>14 DEF C
<1>4. P = Nat
  <2>1. P \subseteq Nat /\ \A k \in P : k + 1 \in P
    BY <1>3
  <2> HIDE DEF P
  <2> QED BY <1>2, <2>1, AllNaturals
<1>5. uq.entries \in P
  BY <1>0, <1>4
<1> DEFINE c == Cardinality(Below(uq.entries))
<1>6. c \in Nat /\ c <= Cardinality(InUse(uq)) /\ c >= uq.entries * (UnitBlock - 1)
  BY <1>0, <1>1, <1>5
<1> HIDE DEF c
<1>7. uq.entries * (UnitBlock - 1) \in Nat /\ Cardinality(InUse(uq)) \in Nat
  <2> DEFINE e == uq.entries
             m == UnitBlock - 1
  <2>1. e \in Nat /\ m \in Nat
    BY <1>0
  <2> HIDE DEF e, m
  <2>2. e * m \in Nat
    BY <2>1
  <2>3. Cardinality(InUse(uq)) \in Nat
    BY InUseIs
  <2> QED BY <2>2, <2>3 DEF e, m
<1> QED BY <1>6, <1>7

\* increase() adds an entry, if it does, and nothing else.
LEMMA GrowKeeps ==
  ASSUME NEW uq, IsUnits(uq)
  PROVE  LET n == Cardinality(InUse(uq))
             g == Grow(uq)
         IN /\ IsUnits(g) /\ g.flag = uq.flag /\ g.pkt = uq.pkt /\ g.count = n
            /\ g.curr = uq.curr /\ g.avail = uq.avail
            /\ \/ /\ g.entries = uq.entries
                  /\ n * GrowDen < GrowNum * uq.entries * UnitBlock \/ uq.entries = MaxEntries
               \/ g.entries = uq.entries + 1
<1> DEFINE n == Cardinality(InUse(uq))
           same == n * GrowDen < GrowNum * uq.entries * UnitBlock \/ uq.entries = MaxEntries
           g1 == [uq EXCEPT !.count = n]
           g2 == [uq EXCEPT !.count = n, !.entries = @ + 1]
<1>1. uq \in UnitQs /\ uq.entries \in 1 .. MaxEntries /\ MaxEntries \in Nat /\ uq.entries \in Nat
      /\ UnitBlock \in Nat
  BY UnitBounds DEF IsUnits, UnitQs
<1>2. n \in Int
  BY InUseIs
<1> HIDE DEF n
<1>3. g1 \in UnitQs /\ g1.flag = uq.flag /\ g1.pkt = uq.pkt /\ g1.count = n /\ g1.curr = uq.curr
      /\ g1.avail = uq.avail /\ g1.entries = uq.entries
  BY <1>1, <1>2 DEF UnitQs
<1>4. CASE same
  <2>1. Grow(uq) = g1
    BY <1>4 DEF Grow, n
  <2> HIDE DEF g1
  <2>2. IsUnits(g1)
    BY <1>3 DEF IsUnits
  <2> QED BY <1>3, <1>4, <2>1, <2>2 DEF n
<1>5. CASE ~same
  <2>1. Grow(uq) = g2
    BY <1>5 DEF Grow, n
  <2>2. uq.entries + 1 \in 1 .. MaxEntries
    BY <1>1, <1>5
  <2>3. g2 = [g1 EXCEPT !.entries = uq.entries + 1]
    BY <1>1 DEF UnitQs
  <2> HIDE DEF g1
  <2>4. g2 \in UnitQs /\ g2.flag = uq.flag /\ g2.pkt = uq.pkt /\ g2.count = n /\ g2.curr = uq.curr
        /\ g2.avail = uq.avail /\ g2.entries = uq.entries + 1
    <3> HIDE DEF g2
    <3> QED BY <1>3, <2>2, <2>3 DEF UnitQs
  <2> HIDE DEF g2
  <2>5. g2.entries * UnitBlock >= uq.entries * UnitBlock
    BY <1>1, <2>4
  <2>6. uq.entries * UnitBlock \in Nat /\ g2.entries * UnitBlock \in Nat
    BY <1>1, <2>4
  <2>7. \A u \in AllUnits : u >= g2.entries * UnitBlock => u >= uq.entries * UnitBlock
    BY <2>5, <2>6, UnitBounds
  <2>8. \A u \in AllUnits : u >= g2.entries * UnitBlock => g2.flag[u] = 0
    BY <2>4, <2>7 DEF IsUnits
  <2>9. g2.curr < g2.entries
    BY <1>1, <2>4 DEF IsUnits, UnitQs
  <2>10. IsUnits(g2)
    BY <2>4, <2>8, <2>9 DEF IsUnits
  <2> QED BY <2>1, <2>4, <2>10 DEF n
<1> QED BY <1>4, <1>5

\* The search ends at a free unit, or has seen all units but one of each entry
\* in use, in the current entry from where it began.
LEMMA SearchIs ==
  ASSUME NEW uq, IsUnits(uq)
  PROVE  LET r == Search(uq)
             back == [uq EXCEPT !.avail = uq.curr * UnitBlock]
         IN /\ r.unit # NoUnit =>
                 /\ r.unit \in AllUnits /\ r.unit < uq.entries * UnitBlock /\ uq.flag[r.unit] = 0
                 /\ IsUnits(r.uq) /\ r.uq.flag = uq.flag /\ r.uq.pkt = uq.pkt
                 /\ r.uq.entries = uq.entries /\ r.uq.count = uq.count
            /\ r.unit = NoUnit =>
                 /\ r.uq = Grow(back) /\ IsUnits(back)
                 /\ \A k \in 0 .. uq.entries - 1 : \A j \in 0 .. UnitBlock - 2 :
                      k # uq.curr \/ uq.avail = uq.curr * UnitBlock
                        => uq.flag[k * UnitBlock + j] # 0
<1> DEFINE entry(k) == (uq.curr + k) % uq.entries
           base(k) == entry(k) * UnitBlock
           from(k) == IF k = 0 THEN uq.avail ELSE base(k)
           free(k) == {u \in from(k) .. base(k) + UnitBlock - 2 : uq.flag[u] = 0}
           unit(k) == IF free(k) # {} THEN Min(free(k)) ELSE base(k)
           found == {k \in 0 .. uq.entries - 1 : uq.flag[unit(k)] = 0}
           first == Min(found)
           hit == [uq EXCEPT !.curr = entry(first), !.avail = unit(first)]
           back == [uq EXCEPT !.avail = base(0)]
<1>0. /\ uq \in UnitQs /\ uq.entries \in 1 .. MaxEntries /\ uq.entries \in Nat \ {0} /\ uq.curr \in Nat
      /\ uq.curr < uq.entries /\ uq.curr \in 0 .. uq.entries - 1
      /\ uq.avail \in Nat /\ UnitBlock \in Nat /\ UnitBlock > 1
      /\ uq.curr * UnitBlock <= uq.avail /\ uq.avail < uq.curr * UnitBlock + UnitBlock
  BY UnitBounds DEF IsUnits, UnitQs
<1>1. Search(uq) = IF found # {} THEN [unit |-> unit(first), uq |-> hit]
                   ELSE [unit |-> NoUnit, uq |-> Grow(back)]
  BY DEF Search
<1>2. ASSUME NEW k \in 0 .. uq.entries - 1
      PROVE  /\ entry(k) \in 0 .. uq.entries - 1 /\ base(k) \in Nat
             /\ unit(k) \in base(k) .. base(k) + UnitBlock - 1
             /\ free(k) # {} => unit(k) \in free(k)
  <2>1. entry(k) \in 0 .. uq.entries - 1
    <3>1. uq.curr + k \in Nat
      BY <1>0
    <3> QED BY <1>0, <3>1, DivMod
  <2>2. base(k) \in Nat
    <3> HIDE DEF entry
    <3> QED BY <1>0, <2>1
  <2>3. from(k) \in Nat /\ from(k) >= base(k)
    <3>1. entry(0) = uq.curr
      <4>1. uq.curr + 0 = uq.curr
        BY <1>0
      <4> QED BY <1>0, <4>1, ModSmall
    <3> HIDE DEF entry
    <3> QED BY <1>0, <2>1, <2>2, <3>1
  <2> HIDE DEF base, entry, from
  <2>4. free(k) \subseteq Nat
    BY <2>2, <2>3
  <2>5. free(k) # {} => unit(k) \in free(k)
    BY <2>4, MinIs
  <2>6. free(k) = {} => unit(k) = base(k)
    OBVIOUS
  <2>7. unit(k) \in base(k) .. base(k) + UnitBlock - 1
    <3>1. CASE free(k) = {}
      BY <1>0, <2>2, <2>6, <3>1
    <3>2. CASE free(k) # {}
      <4> HIDE DEF unit
      <4> QED BY <1>0, <2>2, <2>3, <2>5, <3>2
    <3> QED BY <3>1, <3>2
  <2> QED BY <2>1, <2>2, <2>5, <2>7
<1>3. entry(0) = uq.curr
  <2>1. uq.curr + 0 = uq.curr
    BY <1>0
  <2> QED BY <1>0, <2>1, ModSmall
<1>4. CASE found # {}
  <2>1. first \in found
    <3>1. found \subseteq Nat
      OBVIOUS
    <3> HIDE DEF found
    <3> QED BY <1>4, <3>1, MinIs
  <2> DEFINE c == entry(first)
             a == unit(first)
  <2>2. first \in 0 .. uq.entries - 1 /\ uq.flag[a] = 0
    <3> HIDE DEF first, unit
    <3> QED BY <2>1
  <2>3. c \in 0 .. uq.entries - 1 /\ a \in c * UnitBlock .. c * UnitBlock + UnitBlock - 1
        /\ c * UnitBlock \in Nat
    <3> HIDE DEF first, unit, entry, base
    <3>1. /\ entry(first) \in 0 .. uq.entries - 1 /\ base(first) \in Nat
          /\ unit(first) \in base(first) .. base(first) + UnitBlock - 1
      BY <1>2, <2>2
    <3> QED BY <3>1 DEF base
  <2>4. Search(uq) = [unit |-> a, uq |-> [uq EXCEPT !.curr = c, !.avail = a]]
    BY <1>1, <1>4, Zenon
  <2> HIDE DEF a, c, found, first, unit, free, from, base, entry, hit
  <2> DEFINE r == [uq EXCEPT !.curr = c, !.avail = a]
  <2>5. c \in Nat /\ c < uq.entries /\ a \in Nat /\ a - c * UnitBlock \in 0 .. UnitBlock - 1
        /\ c * UnitBlock + (a - c * UnitBlock) = a
        /\ c * UnitBlock <= a /\ a < c * UnitBlock + UnitBlock
    BY <1>0, <2>3
  <2>6. a \in AllUnits /\ a < uq.entries * UnitBlock
    BY <1>0, <2>3, <2>5, UnitOfEntry
  <2>7. a # NoUnit
    BY <2>5 DEF NoUnit
  <2>8. r \in UnitQs /\ r.flag = uq.flag /\ r.pkt = uq.pkt /\ r.entries = uq.entries
        /\ r.count = uq.count /\ r.curr = c /\ r.avail = a
    BY <1>0, <2>5 DEF UnitQs
  <2> HIDE DEF r
  <2>9. IsUnits(r)
    BY <2>5, <2>8 DEF IsUnits
  <2>10. Search(uq).unit = a /\ Search(uq).uq = r
    BY <2>4 DEF r
  <2> QED BY <2>2, <2>6, <2>7, <2>8, <2>9, <2>10
<1>5. CASE found = {}
  <2>1. Search(uq).unit = NoUnit /\ Search(uq).uq = Grow(back)
    <3> HIDE DEF back, found, hit, first, unit
    <3> QED BY <1>1, <1>5
  <2>2. back = [uq EXCEPT !.avail = uq.curr * UnitBlock]
    BY <1>3
  <2>3. IsUnits([uq EXCEPT !.avail = uq.curr * UnitBlock])
    <3> DEFINE b == uq.curr * UnitBlock
               m == [uq EXCEPT !.avail = b]
    <3>1. b \in Nat /\ b < b + UnitBlock
      BY <1>0
    <3>2. b = uq.curr * UnitBlock
      OBVIOUS
    <3> HIDE DEF b
    <3>3. m \in UnitQs /\ m.avail = b /\ m.curr = uq.curr /\ m.flag = uq.flag /\ m.entries = uq.entries
      BY <1>0, <3>1 DEF UnitQs
    <3> HIDE DEF m
    <3>4. m.curr * UnitBlock = b
      BY <3>2, <3>3
    <3>5. IsUnits(m)
      BY <3>1, <3>3, <3>4 DEF IsUnits
    <3> QED BY <3>5 DEF m, b
  <2>4. ASSUME NEW e \in 0 .. uq.entries - 1, NEW j \in 0 .. UnitBlock - 2,
               e # uq.curr \/ uq.avail = uq.curr * UnitBlock
        PROVE  uq.flag[e * UnitBlock + j] # 0
    <3>1. PICK k \in 0 .. uq.entries - 1 : entry(k) = e
      BY <1>0, Reaches
    <3>2. from(k) = e * UnitBlock
      <4>1. k = 0 => e = uq.curr
        BY <1>3, <3>1
      <4> HIDE DEF entry
      <4> QED BY <2>4, <3>1, <4>1
    <3>3. uq.flag[unit(k)] # 0
      <4> HIDE DEF unit
      <4> QED BY <1>5
    <3>4. free(k) = {}
      <4>1. free(k) # {} => unit(k) \in free(k)
        BY <1>2
      <4>2. \A u \in free(k) : uq.flag[u] = 0
        OBVIOUS
      <4> HIDE DEF unit, free
      <4> QED BY <3>3, <4>1, <4>2
    <3>5. e * UnitBlock + j \in from(k) .. base(k) + UnitBlock - 2
      <4>1. base(k) = e * UnitBlock /\ e * UnitBlock \in Nat
        <5> HIDE DEF entry
        <5> QED BY <1>0, <3>1
      <4> HIDE DEF base, from
      <4> QED BY <1>0, <3>2, <4>1
    <3> HIDE DEF from, base
    <3> QED BY <3>4, <3>5
  <2> QED BY <2>1, <2>2, <2>3, <2>4
<1> QED BY <1>4, <1>5

\* m is uq, with the entry it may have grown by before it is searched.
Searched(uq, m) ==
  /\ IsUnits(m) /\ m.flag = uq.flag /\ m.pkt = uq.pkt /\ m.curr = uq.curr /\ m.avail = uq.avail
  /\ m.entries >= uq.entries

\* A unit that was asked for is a free one; when there is none, either all of
\* the units there may be are in use or a search has seen no free one.
LEMMA AskedFor ==
  ASSUME NEW uq, IsUnits(uq)
  PROVE  LET r == getNextAvailUnit(uq) IN
         /\ IsUnits(r.uq) /\ r.uq.flag = uq.flag /\ r.uq.pkt = uq.pkt /\ r.uq.entries >= uq.entries
         /\ r.unit # NoUnit =>
              r.unit \in AllUnits /\ uq.flag[r.unit] = 0 /\ r.unit < r.uq.entries * UnitBlock
         /\ r.unit = NoUnit =>
              \/ r.uq.entries = MaxEntries /\ InUse(uq) = AllUnits
              \/ \E m : /\ Searched(uq, m) /\ Search(m).unit = NoUnit
                        /\ r.uq = Search(m).uq
<1> DEFINE m == IF uq.count * GrowDen > uq.entries * UnitBlock * GrowNum THEN Grow(uq) ELSE uq
           r == getNextAvailUnit(uq)
           n == Cardinality(InUse(uq))
<1>0. /\ uq.entries \in Nat /\ uq.entries > 0 /\ uq.entries <= MaxEntries /\ uq.count \in Int
      /\ UnitBlock \in Nat /\ UnitBlock > 1 /\ GrowNum \in Nat /\ GrowDen \in Nat /\ GrowNum < GrowDen
      /\ MaxEntries \in Nat
  BY UnitBounds DEF IsUnits, UnitQs
<1>1. r = IF m.count >= m.entries * UnitBlock THEN [unit |-> NoUnit, uq |-> m] ELSE Search(m)
  BY DEF getNextAvailUnit
<1>2. /\ n \in Nat /\ n <= uq.entries * UnitBlock
      /\ n >= MaxEntries * UnitBlock => InUse(uq) = AllUnits
  BY InUseIs
<1> HIDE DEF n
<1>3. /\ Searched(uq, m)
      /\ \/ m = uq /\ ~(uq.count * GrowDen > uq.entries * UnitBlock * GrowNum)
         \/ /\ m.count = n
            /\ \/ /\ m.entries = uq.entries
                  /\ n * GrowDen < GrowNum * uq.entries * UnitBlock \/ uq.entries = MaxEntries
               \/ m.entries = uq.entries + 1
  <2>1. CASE uq.count * GrowDen > uq.entries * UnitBlock * GrowNum
    <3>1. m = Grow(uq)
      BY <2>1
    <3>2. /\ IsUnits(m) /\ m.flag = uq.flag /\ m.pkt = uq.pkt /\ m.count = n
          /\ m.curr = uq.curr /\ m.avail = uq.avail
          /\ \/ /\ m.entries = uq.entries
                /\ n * GrowDen < GrowNum * uq.entries * UnitBlock \/ uq.entries = MaxEntries
             \/ m.entries = uq.entries + 1
      <4> HIDE DEF m
      <4> QED BY <3>1, GrowKeeps DEF n
    <3> HIDE DEF m
    <3>3. m.entries >= uq.entries
      BY <1>0, <3>2
    <3>4. Searched(uq, m)
      BY <3>2, <3>3 DEF Searched
    <3> QED BY <3>2, <3>4
  <2>2. CASE ~(uq.count * GrowDen > uq.entries * UnitBlock * GrowNum)
    <3>1. m = uq
      BY <2>2
    <3> HIDE DEF m
    <3>2. Searched(uq, m)
      BY <1>0, <3>1 DEF Searched
    <3> QED BY <2>2, <3>1, <3>2
  <2> QED BY <2>1, <2>2
<1>4. m.entries \in Nat /\ m.entries <= MaxEntries
  <2> HIDE DEF m
  <2>1. IsUnits(m)
    BY <1>3 DEF Searched
  <2> QED BY <1>0, <2>1 DEF IsUnits, UnitQs
<1> HIDE DEF m, r
<1>5. CASE m.count >= m.entries * UnitBlock
  <2>1. r.unit = NoUnit /\ r.uq = m
    BY <1>1, <1>5
  <2>2. m.entries = MaxEntries /\ InUse(uq) = AllUnits
    <3> DEFINE U == uq.entries * UnitBlock
    <3>1. U \in Nat /\ U > 0
      BY <1>0
    <3>2. U * GrowDen > U * GrowNum /\ U * GrowNum = GrowNum * uq.entries * UnitBlock
          /\ U * GrowDen \in Nat /\ U * GrowNum \in Nat
      <4>1. GrowNum * uq.entries * UnitBlock = GrowNum * (uq.entries * UnitBlock)
        BY <1>0
      <4> HIDE DEF U
      <4>2. U * GrowDen > U * GrowNum /\ U * GrowDen \in Nat /\ U * GrowNum \in Nat
            /\ U * GrowNum = GrowNum * U
        BY <1>0, <3>1
      <4> QED BY <4>1, <4>2 DEF U
    <3>3. CASE m = uq /\ ~(uq.count * GrowDen > U * GrowNum)
      <4>1. uq.count >= U
        BY <1>5, <3>3
      <4> HIDE DEF U
      <4>2. uq.count * GrowDen >= U * GrowDen
        BY <1>0, <3>1, <4>1
      <4>3. uq.count * GrowDen \in Int
        BY <1>0
      <4> QED BY <3>2, <3>3, <4>2, <4>3
    <3>4. CASE m.count = n /\ m.entries = uq.entries
               /\ (n * GrowDen < GrowNum * uq.entries * UnitBlock \/ uq.entries = MaxEntries)
      <4>1. n >= U
        BY <1>5, <3>4
      <4> HIDE DEF U
      <4>2. n * GrowDen >= U * GrowDen /\ n * GrowDen \in Nat
        <5>1. n \in Nat /\ U \in Nat /\ GrowDen \in Nat /\ n >= U
          BY <1>0, <1>2, <3>1, <4>1
        <5> QED BY <5>1
      <4>3. ~(n * GrowDen < GrowNum * uq.entries * UnitBlock)
        BY <3>2, <4>2
      <4>4. uq.entries = MaxEntries
        BY <3>4, <4>3
      <4>5. n >= MaxEntries * UnitBlock
        BY <4>1, <4>4 DEF U
      <4> QED BY <1>2, <3>4, <4>4, <4>5
    <3>5. CASE m.count = n /\ m.entries = uq.entries + 1
      <4>1. (uq.entries + 1) * UnitBlock = U + UnitBlock
        BY <1>0
      <4>2. n <= U
        BY <1>2
      <4>3. n >= (uq.entries + 1) * UnitBlock
        BY <1>5, <3>5
      <4>4. n \in Nat /\ U \in Nat /\ UnitBlock \in Nat /\ UnitBlock > 1
        BY <1>0, <1>2, <3>1
      <4> HIDE DEF U
      <4>5. n >= U + UnitBlock
        BY <4>1, <4>3
      <4> QED BY <4>2, <4>4, <4>5
    <3> QED BY <1>3, <3>3, <3>4, <3>5
  <2> QED BY <1>3, <2>1, <2>2 DEF r, Searched
<1>6. CASE ~(m.count >= m.entries * UnitBlock)
  <2>1. r = Search(m)
    BY <1>1, <1>6
  <2> DEFINE back == [m EXCEPT !.avail = m.curr * UnitBlock]
  <2>2. IsUnits(m) /\ m.flag = uq.flag /\ m.pkt = uq.pkt /\ m.entries >= uq.entries
    BY <1>3 DEF Searched
  <2>3. /\ r.unit # NoUnit =>
             /\ r.unit \in AllUnits /\ r.unit < m.entries * UnitBlock /\ m.flag[r.unit] = 0
             /\ IsUnits(r.uq) /\ r.uq.flag = m.flag /\ r.uq.pkt = m.pkt
             /\ r.uq.entries = m.entries
        /\ r.unit = NoUnit => r.uq = Grow(back) /\ IsUnits(back)
    BY <2>1, <2>2, SearchIs
  <2>4. CASE r.unit # NoUnit
    BY <2>2, <2>3, <2>4 DEF r
  <2>5. CASE r.unit = NoUnit
    <3>1. r.uq = Grow(back) /\ IsUnits(back)
      BY <2>3, <2>5
    <3>2. back.flag = m.flag /\ back.pkt = m.pkt /\ back.entries = m.entries
      BY <2>2 DEF IsUnits, UnitQs
    <3> HIDE DEF back
    <3>3. /\ IsUnits(r.uq) /\ r.uq.flag = back.flag /\ r.uq.pkt = back.pkt
          /\ r.uq.entries = back.entries \/ r.uq.entries = back.entries + 1
      BY <3>1, GrowKeeps
    <3>4. r.uq.entries >= uq.entries
      BY <1>0, <1>4, <2>2, <3>2, <3>3
    <3>5. \E x : Searched(uq, x) /\ Search(x).unit = NoUnit /\ r.uq = Search(x).uq
      BY <1>3, <2>1, <2>5
    <3> QED BY <2>2, <2>5, <3>2, <3>3, <3>4, <3>5 DEF r
  <2> QED BY <2>4, <2>5
<1> QED BY <1>5, <1>6

LEMMA SecondIsFound ==
  ASSUME NEW uq, IsUnits(uq)
  PROVE  LET r1 == getNextAvailUnit(uq)
             r2 == getNextAvailUnit(r1.uq)
         IN (r1.unit = NoUnit /\ r2.unit = NoUnit) =>
              /\ r2.uq.entries = MaxEntries
              /\ \A u \in AllUnits : u % UnitBlock # UnitBlock - 1 => uq.flag[u] # 0
<1> DEFINE r1 == getNextAvailUnit(uq)
           g == r1.uq
           r2 == getNextAvailUnit(g)
           n == Cardinality(InUse(uq))
<1>1. SUFFICES ASSUME r1.unit = NoUnit, r2.unit = NoUnit
               PROVE  /\ r2.uq.entries = MaxEntries
                      /\ \A u \in AllUnits : u % UnitBlock # UnitBlock - 1 => uq.flag[u] # 0
  OBVIOUS
<1>2. /\ IsUnits(g) /\ g.flag = uq.flag /\ g.entries >= uq.entries
      /\ \/ g.entries = MaxEntries /\ InUse(uq) = AllUnits
         \/ \E m : Searched(uq, m) /\ Search(m).unit = NoUnit /\ g = Search(m).uq
  BY <1>1, AskedFor
<1> HIDE DEF g
<1>3. /\ IsUnits(r2.uq) /\ r2.uq.flag = g.flag /\ r2.uq.entries >= g.entries
      /\ \/ r2.uq.entries = MaxEntries /\ InUse(g) = AllUnits
         \/ \E m : Searched(g, m) /\ Search(m).unit = NoUnit /\ r2.uq = Search(m).uq
  BY <1>1, <1>2, AskedFor
<1> HIDE DEF r1, r2
<1>4. \A x : IsUnits(x) => x.entries \in Nat /\ x.entries <= MaxEntries /\ x.entries > 0
                           /\ x.entries \in 1 .. MaxEntries /\ x.curr \in Nat
  BY UnitBounds DEF IsUnits, UnitQs
<1>5. /\ UnitBlock \in Nat /\ UnitBlock > 1 /\ GrowNum \in Nat /\ GrowDen \in Nat /\ MaxEntries \in Nat
      /\ (UnitBlock - 1) * GrowDen >= GrowNum * UnitBlock
  BY UnitBounds
<1>6. CASE InUse(uq) = AllUnits /\ r2.uq.entries = MaxEntries
  BY <1>6 DEF InUse
<1>7. CASE g.entries = MaxEntries /\ InUse(uq) = AllUnits
  <2>1. r2.uq.entries = MaxEntries
    BY <1>2, <1>3, <1>4, <1>5, <1>7
  <2> QED BY <1>6, <1>7, <2>1
<1>8. CASE r2.uq.entries = MaxEntries /\ InUse(g) = AllUnits
  <2>1. InUse(uq) = AllUnits
    BY <1>2, <1>8 DEF InUse
  <2> QED BY <1>6, <1>8, <2>1
<1>9. ASSUME NEW m, Searched(uq, m), Search(m).unit = NoUnit, g = Search(m).uq,
             NEW x, Searched(g, x), Search(x).unit = NoUnit, r2.uq = Search(x).uq
      PROVE  /\ r2.uq.entries = MaxEntries
             /\ \A u \in AllUnits : u % UnitBlock # UnitBlock - 1 => uq.flag[u] # 0
  <2> DEFINE back == [m EXCEPT !.avail = m.curr * UnitBlock]
             xack == [x EXCEPT !.avail = x.curr * UnitBlock]
  <2>1. IsUnits(m) /\ m.flag = uq.flag /\ IsUnits(x) /\ x.flag = g.flag /\ x.curr = g.curr
        /\ x.avail = g.avail /\ x.entries >= g.entries
    BY <1>9 DEF Searched
  <2>2. g = Grow(back) /\ IsUnits(back)
    BY <1>9, <2>1, SearchIs
  <2>3. back.flag = m.flag /\ back.entries = m.entries /\ back.curr = m.curr
        /\ back.avail = m.curr * UnitBlock
    BY <2>1 DEF IsUnits, UnitQs
  <2> HIDE DEF back
  <2>4. InUse(back) = InUse(uq) /\ InUse(x) = InUse(uq)
    BY <1>2, <2>1, <2>3 DEF InUse
  <2>5. /\ g.curr = back.curr /\ g.avail = back.avail
        /\ \/ /\ g.entries = m.entries
              /\ n * GrowDen < GrowNum * m.entries * UnitBlock \/ m.entries = MaxEntries
           \/ g.entries = m.entries + 1
    BY <2>2, <2>3, <2>4, GrowKeeps
  <2>6. x.avail = x.curr * UnitBlock
    BY <2>1, <2>3, <2>5
  <2>7. \A k \in 0 .. x.entries - 1 : \A j \in 0 .. UnitBlock - 2 : x.flag[k * UnitBlock + j] # 0
    BY <1>9, <2>1, <2>6, SearchIs
  <2>8. n >= x.entries * (UnitBlock - 1) /\ n \in Nat
    BY <2>1, <2>4, <2>7, InUseAtLeast, InUseIs
  <2> HIDE DEF n
  <2>9. m.entries \in Nat /\ m.entries > 0 /\ x.entries \in Nat /\ x.entries \in 1 .. MaxEntries
        /\ x.entries <= MaxEntries /\ g.entries \in Nat
    BY <1>2, <1>4, <2>1
  <2>10. CASE g.entries = m.entries + 1
    <3>1. m.entries \in 0 .. x.entries - 1 /\ 0 \in 0 .. UnitBlock - 2 /\ 0 \in 0 .. UnitBlock - 1
      BY <1>5, <2>1, <2>9, <2>10
    <3> DEFINE u == m.entries * UnitBlock + 0
    <3>2. x.flag[u] # 0 /\ u \in AllUnits
      BY <2>7, <2>9, <3>1, UnitOfEntry
    <3>3. u >= m.entries * UnitBlock
      BY <1>5, <2>9
    <3> HIDE DEF u
    <3>4. m.flag[u] = 0
      BY <2>1, <3>2, <3>3 DEF IsUnits
    <3> QED BY <1>2, <2>1, <3>2, <3>4
  <2>11. CASE g.entries = m.entries /\ n * GrowDen < GrowNum * m.entries * UnitBlock
    <3> DEFINE e == m.entries
    <3>1. e \in Nat /\ x.entries >= e
      BY <2>1, <2>9, <2>11
    <3>2. n * GrowDen < GrowNum * e * UnitBlock
      BY <2>11
    <3> HIDE DEF e
    <3>3. x.entries * (UnitBlock - 1) >= e * (UnitBlock - 1) /\ e * (UnitBlock - 1) \in Nat
          /\ x.entries * (UnitBlock - 1) \in Nat
      BY <1>5, <2>9, <3>1
    <3>4. n >= e * (UnitBlock - 1)
      BY <2>8, <3>3
    <3>5. n * GrowDen >= e * (UnitBlock - 1) * GrowDen
      BY <1>5, <2>8, <3>3, <3>4
    <3>6. e * (UnitBlock - 1) * GrowDen = e * ((UnitBlock - 1) * GrowDen)
          /\ GrowNum * e * UnitBlock = e * (GrowNum * UnitBlock)
      BY <1>5, <3>1
    <3>7. e * ((UnitBlock - 1) * GrowDen) >= e * (GrowNum * UnitBlock)
      <4> DEFINE a == (UnitBlock - 1) * GrowDen
                 b == GrowNum * UnitBlock
      <4>1. a \in Nat /\ b \in Nat /\ a >= b
        BY <1>5
      <4> HIDE DEF a, b
      <4>2. e * a >= e * b
        BY <3>1, <4>1
      <4> QED BY <4>2 DEF a, b
    <3>8. e * (UnitBlock - 1) * GrowDen \in Nat /\ GrowNum * e * UnitBlock \in Nat /\ n * GrowDen \in Nat
      BY <1>5, <2>8, <3>1
    <3> QED BY <3>2, <3>5, <3>6, <3>7, <3>8
  <2>12. CASE g.entries = m.entries /\ m.entries = MaxEntries
    <3>1. x.entries = MaxEntries /\ r2.uq.entries = MaxEntries
      BY <1>2, <1>3, <1>4, <1>5, <2>1, <2>9, <2>12
    <3>2. ASSUME NEW u \in AllUnits, u % UnitBlock # UnitBlock - 1 PROVE uq.flag[u] # 0
      <4> DEFINE k == u \div UnitBlock
                 j == u % UnitBlock
      <4>1. u \in Nat /\ u < MaxEntries * UnitBlock
        BY <1>5 DEF AllUnits
      <4>2. u = k * UnitBlock + j /\ j \in 0 .. UnitBlock - 1 /\ k \in Nat
        <5>1. UnitBlock \in Nat \ {0}
          BY <1>5
        <5> QED BY <4>1, <5>1, DivMod, Zenon
      <4>3. j # UnitBlock - 1
        BY <3>2
      <4> HIDE DEF k, j
      <4>4. j \in 0 .. UnitBlock - 2
        BY <1>5, <4>2, <4>3
      <4>5. k < MaxEntries
        <5>1. SUFFICES ASSUME k >= MaxEntries PROVE FALSE
          BY <1>5, <4>2
        <5>2. k * UnitBlock >= MaxEntries * UnitBlock /\ k * UnitBlock \in Nat
              /\ MaxEntries * UnitBlock \in Nat
          BY <1>5, <4>2, <5>1
        <5> QED BY <1>5, <4>1, <4>2, <5>2
      <4>6. k \in 0 .. x.entries - 1
        BY <1>5, <3>1, <4>2, <4>5
      <4>7. x.flag[k * UnitBlock + j] # 0
        BY <2>7, <4>4, <4>6
      <4> QED BY <1>2, <2>1, <4>2, <4>7
    <3> QED BY <3>1, <3>2
  <2> QED BY <2>5, <2>10, <2>11, <2>12
<1> QED BY <1>2, <1>3, <1>7, <1>8, <1>9

-----------------------------------------------------------------------------
(* The receiver's buffer.                                                  *)

Positions == 0 .. RcvSlots - 1

RcvBufs == [slot : [Positions -> AllUnits \cup {NoUnit}], start : Positions, ack : Positions,
            max : Nat, notch : Int]

\* The units in use are those in the slots, each in one.
Placed(slot, flag) ==
  /\ \A p, q \in Positions : slot[p] = slot[q] /\ slot[p] # NoUnit => p = q
  /\ \A p \in Positions : slot[p] # NoUnit => flag[slot[p]] # 0
  /\ \A u \in AllUnits : flag[u] # 0 => \E p \in Positions : slot[p] = u

Sound(rb, uq) == rb \in RcvBufs /\ IsUnits(uq) /\ Placed(rb.slot, uq.flag)

LEMMA PositionsAre ==
  /\ RcvSlots \in Nat \ {0} /\ RcvSlots > 2 /\ Positions \subseteq Nat
  /\ \A n \in Nat : n % RcvSlots \in Positions
  /\ \A p \in Positions : NextPos(p) \in Positions
<1>1. RcvSlots \in Nat \ {0} /\ RcvSlots > 2
  BY BuffersAssumption
<1>2. \A n \in Nat : n % RcvSlots \in 0 .. RcvSlots - 1
  BY <1>1, DivMod
<1>3. \A p \in 0 .. RcvSlots - 1 : p + 1 \in Nat
  BY <1>1
<1> QED BY <1>1, <1>2, <1>3 DEF Positions, NextPos

\* The unit of slot p goes back.
Emptied(rb, p) == [rb EXCEPT !.slot = [@ EXCEPT ![p] = NoUnit]]
Freed(uq, u) == [uq EXCEPT !.flag = [@ EXCEPT ![u] = 0], !.pkt = [@ EXCEPT ![u] = Nothing],
                           !.count = @ - 1]

LEMMA FreedIs ==
  ASSUME NEW uq \in UnitQs, NEW u
  PROVE  /\ Freed(uq, u) \in UnitQs /\ Freed(uq, u).flag = [uq.flag EXCEPT ![u] = 0]
         /\ Freed(uq, u).pkt = [uq.pkt EXCEPT ![u] = Nothing]
         /\ Freed(uq, u).entries = uq.entries /\ Freed(uq, u).count = uq.count - 1
         /\ Freed(uq, u).curr = uq.curr /\ Freed(uq, u).avail = uq.avail
         /\ Freed(uq, u) = [uq EXCEPT !.flag[u] = 0, !.pkt[u] = Nothing, !.count = @ - 1]
<1> DEFINE f == [uq.flag EXCEPT ![u] = 0]
           k == [uq.pkt EXCEPT ![u] = Nothing]
           m1 == [uq EXCEPT !.flag = f]
           m2 == [m1 EXCEPT !.pkt = k]
           m3 == [m2 EXCEPT !.count = uq.count - 1]
<1>1. uq.flag \in [AllUnits -> Nat] /\ uq.pkt \in [AllUnits -> Int] /\ uq.count \in Int
  BY DEF UnitQs
<1>2. f \in [AllUnits -> Nat]
  BY <1>1
<1>3. k \in [AllUnits -> Int]
  <2>1. Nothing \in Int
    BY DEF Nothing
  <2> QED BY <1>1, <2>1
<1> HIDE DEF f, k
<1>4. m1 \in UnitQs /\ m1.flag = f /\ m1.pkt = uq.pkt /\ m1.entries = uq.entries
      /\ m1.count = uq.count /\ m1.curr = uq.curr /\ m1.avail = uq.avail
  BY <1>2 DEF UnitQs
<1>5. m2 \in UnitQs /\ m2.flag = f /\ m2.pkt = k /\ m2.entries = uq.entries
      /\ m2.count = uq.count /\ m2.curr = uq.curr /\ m2.avail = uq.avail
  <2> HIDE DEF m1
  <2> QED BY <1>3, <1>4 DEF UnitQs
<1>6. m3 \in UnitQs /\ m3.flag = f /\ m3.pkt = k /\ m3.entries = uq.entries
      /\ m3.count = uq.count - 1 /\ m3.curr = uq.curr /\ m3.avail = uq.avail
  <2> HIDE DEF m1, m2
  <2>1. uq.count - 1 \in Int
    BY <1>1
  <2> QED BY <1>5, <2>1 DEF UnitQs
<1>7. Freed(uq, u) = m3
  <2>1. Freed(uq, u) = [uq EXCEPT !.flag = f, !.pkt = k, !.count = uq.count - 1]
    BY DEF Freed, UnitQs, f, k
  <2> QED BY <2>1 DEF UnitQs
<1>8. Freed(uq, u) = [uq EXCEPT !.flag[u] = 0, !.pkt[u] = Nothing, !.count = @ - 1]
  BY DEF UnitQs, Freed
<1> HIDE DEF m3
<1> QED BY <1>6, <1>7, <1>8 DEF f, k

LEMMA ReleaseKeepsSound ==
  ASSUME NEW rb, NEW uq, Sound(rb, uq), NEW p \in Positions
  PROVE  Sound(Emptied(rb, p), Freed(uq, rb.slot[p]))
<1> DEFINE u == rb.slot[p]
           e == Emptied(rb, p)
           f == Freed(uq, u)
<1>1. /\ rb \in RcvBufs /\ rb.slot \in [Positions -> AllUnits \cup {NoUnit}]
      /\ uq \in UnitQs /\ uq.flag \in [AllUnits -> Nat] /\ Placed(rb.slot, uq.flag)
  BY DEF Sound, RcvBufs, IsUnits, UnitQs
<1>2. e \in RcvBufs /\ e.slot = [rb.slot EXCEPT ![p] = NoUnit]
  BY <1>1 DEF Emptied, RcvBufs
<1>3. f \in UnitQs /\ f.flag = [uq.flag EXCEPT ![u] = 0] /\ f.entries = uq.entries
      /\ f.curr = uq.curr /\ f.avail = uq.avail
  <2> HIDE DEF u
  <2> QED BY <1>1, FreedIs
<1> HIDE DEF e, f, u
<1>4. \A v \in AllUnits : f.flag[v] = IF v = u THEN 0 ELSE uq.flag[v]
  BY <1>1, <1>3
<1>5. \A q \in Positions : e.slot[q] = IF q = p THEN NoUnit ELSE rb.slot[q]
  BY <1>1, <1>2
<1>6. IsUnits(f)
  BY <1>3, <1>4 DEF Sound, IsUnits
<1>7. Placed(e.slot, f.flag)
  <2>1. ASSUME NEW a \in Positions, NEW b \in Positions, e.slot[a] = e.slot[b], e.slot[a] # NoUnit
        PROVE  a = b
    BY <1>1, <1>5, <2>1 DEF Placed
  <2>2. ASSUME NEW a \in Positions, e.slot[a] # NoUnit PROVE f.flag[e.slot[a]] # 0
    <3>1. a # p /\ e.slot[a] = rb.slot[a] /\ rb.slot[a] \in AllUnits
      BY <1>1, <1>5, <2>2
    <3>2. rb.slot[a] # u
      BY <1>1, <2>2, <3>1 DEF Placed, u
    <3> QED BY <1>1, <1>4, <2>2, <3>1, <3>2 DEF Placed
  <2>3. ASSUME NEW v \in AllUnits, f.flag[v] # 0 PROVE \E a \in Positions : e.slot[a] = v
    <3>1. v # u /\ uq.flag[v] # 0
      BY <1>4, <2>3
    <3>2. PICK a \in Positions : rb.slot[a] = v
      BY <1>1, <3>1 DEF Placed
    <3> QED BY <1>5, <3>1, <3>2 DEF u
  <2> QED BY <2>1, <2>2, <2>3 DEF Placed
<1>8. Sound(e, f)
  BY <1>2, <1>6, <1>7 DEF Sound
<1> QED BY <1>8 DEF e, f, u

\* What is read of the slots, an empty one included.
Values == Int \cup {f[NoUnit] : f \in [AllUnits -> Int]}

LEMMA ValueOf ==
  ASSUME NEW rb \in RcvBufs, NEW uq \in UnitQs, NEW p \in Positions
  PROVE  uq.pkt[rb.slot[p]] \in Values
<1>1. uq.pkt \in [AllUnits -> Int] /\ rb.slot[p] \in AllUnits \cup {NoUnit}
  BY DEF RcvBufs, UnitQs
<1>2. CASE rb.slot[p] \in AllUnits
  BY <1>1, <1>2 DEF Values
<1>3. CASE rb.slot[p] = NoUnit
  BY <1>1, <1>3 DEF Values
<1> QED BY <1>1, <1>2, <1>3

Streaming == [rb : RcvBufs, uq : UnitQs, out : Seq(Values \X Int), rs : Int, left : Int]

LEMMA StreamRelease ==
  ASSUME NEW st \in Streaming, NEW p \in Positions
  PROVE  LET r == Release(st, p) IN
         /\ r \in Streaming
         /\ r.rb = Emptied(st.rb, p) /\ r.uq = Freed(st.uq, st.rb.slot[p])
         /\ r.out = st.out /\ r.rs = st.rs /\ r.left = st.left
<1> DEFINE r == Release(st, p)
           u == st.rb.slot[p]
           s1 == [st EXCEPT !.rb = Emptied(st.rb, p)]
           s2 == [s1 EXCEPT !.uq = Freed(st.uq, u)]
<1>1. st.rb \in RcvBufs /\ st.uq \in UnitQs
  BY DEF Streaming
<1>2. Emptied(st.rb, p) \in RcvBufs /\ Freed(st.uq, u) \in UnitQs
  BY <1>1, FreedIs DEF Emptied, RcvBufs
<1>3. s1 \in Streaming /\ s1.rb = Emptied(st.rb, p) /\ s1.uq = st.uq /\ s1.out = st.out
      /\ s1.rs = st.rs /\ s1.left = st.left
  BY <1>2 DEF Streaming
<1>4. s2 \in Streaming /\ s2.rb = s1.rb /\ s2.uq = Freed(st.uq, u) /\ s2.out = s1.out
      /\ s2.rs = s1.rs /\ s2.left = s1.left
  <2> HIDE DEF s1
  <2> QED BY <1>2, <1>3 DEF Streaming
<1>5. r = s2
  <2>1. Freed(st.uq, u) = [st.uq EXCEPT !.flag[u] = 0, !.pkt[u] = Nothing, !.count = @ - 1]
    BY <1>1, FreedIs
  <2>2. Emptied(st.rb, p) = [st.rb EXCEPT !.slot[p] = NoUnit]
    BY <1>1 DEF Emptied, RcvBufs
  <2> DEFINE A == Emptied(st.rb, p)
             B == Freed(st.uq, u)
  <2>3. r = [st EXCEPT !.rb = A, !.uq = B]
    BY <1>1, <2>1, <2>2 DEF Release, Streaming
  <2> HIDE DEF A, B
  <2> QED BY <2>3 DEF Streaming, A, B
<1> HIDE DEF r, s1, s2
<1> QED BY <1>3, <1>4, <1>5 DEF r

Bytes(x, n) == [k \in 1 .. n |-> <<x.uq.pkt[x.rb.slot[x.rb.start]], x.rb.notch + k>>]

\* A turn of the loop of readBuffer ends the loop, reads the rest of a packet
\* and releases its unit, or reads a part of the packet.
ReadTurn(x, r) ==
  \/ r = x
  \/ /\ x.rb.start # x.rb.ack /\ x.rs >= RestOf(x)
     /\ r.rs = x.rs - RestOf(x) /\ r.out = x.out \o Bytes(x, RestOf(x))
     /\ r.rb.slot = [x.rb.slot EXCEPT ![x.rb.start] = NoUnit]
     /\ r.rb.start = NextPos(x.rb.start) /\ r.rb.ack = x.rb.ack /\ r.rb.notch = 0
     /\ r.uq.pkt = [x.uq.pkt EXCEPT ![x.rb.slot[x.rb.start]] = Nothing]
  \/ /\ x.rb.start # x.rb.ack /\ ~(x.rs >= RestOf(x))
     /\ r.rs = 0 /\ r.out = x.out \o Bytes(x, x.rs)
     /\ r.rb.slot = x.rb.slot /\ r.rb.start = x.rb.start /\ r.rb.ack = x.rb.ack
     /\ r.rb.notch = x.rb.notch + x.rs
     /\ r.uq.pkt = x.uq.pkt

\* A buffer whose start, or whose notch, is set.
LEMMA StartIs ==
  ASSUME NEW b \in RcvBufs, NEW s \in Positions, NEW r, r = [b EXCEPT !.start = s]
  PROVE  r \in RcvBufs /\ r.slot = b.slot /\ r.start = s /\ r.ack = b.ack
<1> QED BY DEF RcvBufs

LEMMA NotchIs ==
  ASSUME NEW b \in RcvBufs, NEW n \in Int, NEW r, r = [b EXCEPT !.notch = n]
  PROVE  r \in RcvBufs /\ r.slot = b.slot /\ r.start = b.start /\ r.ack = b.ack /\ r.notch = n
<1> QED BY DEF RcvBufs

LEMMA ReadUnitKeeps ==
  ASSUME NEW x \in Streaming, Sound(x.rb, x.uq)
  PROVE  /\ ReadUnit(x) \in Streaming /\ Sound(ReadUnit(x).rb, ReadUnit(x).uq)
         /\ ReadTurn(x, ReadUnit(x))
<1> DEFINE p == x.rb.start
           pkt == x.uq.pkt[x.rb.slot[p]]
           n == Min({RestOf(x), x.rs})
           more == [k \in 1 .. n |-> <<pkt, x.rb.notch + k>>]
           y == [x EXCEPT !.out = @ \o [k \in 1 .. n |-> <<pkt, x.rb.notch + k>>], !.rs = @ - n]
           z == Release(y, p)
<1>0. /\ x.rb \in RcvBufs /\ x.uq \in UnitQs /\ x.out \in Seq(Values \X Int) /\ x.rs \in Int
      /\ x.left \in Int /\ p \in Positions /\ x.rb.notch \in Int /\ PktBytes \in Int
  <2>1. /\ x.rb \in RcvBufs /\ x.uq \in UnitQs /\ x.out \in Seq(Values \X Int) /\ x.rs \in Int
        /\ x.left \in Int
    BY DEF Streaming
  <2>2. p \in Positions /\ x.rb.notch \in Int
    BY <2>1 DEF RcvBufs
  <2>3. PktBytes \in Int
    BY BuffersAssumption
  <2> QED BY <2>1, <2>2, <2>3, Zenon
<1>1. n \in {RestOf(x), x.rs} /\ n <= x.rs /\ n <= RestOf(x)
  <2>1. RestOf(x) \in Int
    BY <1>0 DEF RestOf
  <2>2. \E a \in {RestOf(x), x.rs} : \A b \in {RestOf(x), x.rs} : a <= b
    BY <1>0, <2>1
  <2> QED BY <2>2 DEF Min
<1>2. n \in Int /\ RestOf(x) \in Int
  BY <1>0, <1>1 DEF RestOf
<1>3. more \in Seq(Values \X Int)
  <2>1. pkt \in Values
    BY <1>0, ValueOf
  <2> HIDE DEF n, pkt
  <2>2. \A k \in 1 .. n : <<pkt, x.rb.notch + k>> \in Values \X Int
    BY <1>0, <1>2, <2>1
  <2>3. CASE n >= 0
    <3>1. more \in [1 .. n -> Values \X Int]
      BY <2>2
    <3>2. n \in Nat
      BY <1>2, <2>3
    <3> QED BY <3>1, <3>2, SeqDef
  <2>4. CASE n < 0
    <3>1. 1 .. n = 1 .. 0
      BY <1>2, <2>4
    <3>2. more = [k \in 1 .. 0 |-> <<pkt, x.rb.notch + k>>]
      BY <3>1
    <3>3. more \in [1 .. 0 -> Values \X Int]
      BY <3>2
    <3> QED BY <3>3, SeqDef
  <2> QED BY <1>2, <2>3, <2>4
<1>4. more = Bytes(x, n)
  BY DEF Bytes
<1> HIDE DEF n, more
<1>5. y = [x EXCEPT !.out = @ \o more, !.rs = @ - n]
  BY DEF more
<1>6. y \in Streaming /\ y.rb = x.rb /\ y.uq = x.uq /\ y.out = x.out \o more /\ y.rs = x.rs - n
  <2> DEFINE o == x.out \o more
             y1 == [x EXCEPT !.out = o]
             y2 == [y1 EXCEPT !.rs = x.rs - n]
  <2> HIDE DEF y
  <2>1. o \in Seq(Values \X Int) /\ x.rs - n \in Int
    BY <1>0, <1>2, <1>3, ConcatProperties
  <2>2. y = y2
    BY <1>0, <1>5 DEF Streaming
  <2> HIDE DEF o
  <2>3. y1 \in Streaming /\ y1.rb = x.rb /\ y1.uq = x.uq /\ y1.out = o
    BY <2>1 DEF Streaming
  <2> HIDE DEF y1
  <2>4. y2 \in Streaming /\ y2.rb = x.rb /\ y2.uq = x.uq /\ y2.out = o /\ y2.rs = x.rs - n
    BY <2>1, <2>3 DEF Streaming
  <2> HIDE DEF y2
  <2> QED BY <2>2, <2>4 DEF o
<1> HIDE DEF y, p
<1>7. /\ z \in Streaming /\ Sound(z.rb, z.uq) /\ z.rb \in RcvBufs
      /\ z.rb.slot = [x.rb.slot EXCEPT ![p] = NoUnit] /\ z.rb.ack = x.rb.ack
      /\ z.uq.pkt = [x.uq.pkt EXCEPT ![x.rb.slot[p]] = Nothing]
      /\ z.out = y.out /\ z.rs = y.rs
  <2>1. /\ z \in Streaming /\ z.rb = Emptied(y.rb, p) /\ z.uq = Freed(y.uq, y.rb.slot[p])
        /\ z.out = y.out /\ z.rs = y.rs
    BY <1>0, <1>6, StreamRelease
  <2> HIDE DEF z
  <2>2. Sound(z.rb, z.uq)
    BY <1>0, <1>6, <2>1, ReleaseKeepsSound
  <2>3. z.rb.slot = [x.rb.slot EXCEPT ![p] = NoUnit] /\ z.rb.ack = x.rb.ack
    BY <1>0, <1>6, <2>1 DEF Emptied, RcvBufs
  <2>4. z.uq.pkt = [x.uq.pkt EXCEPT ![x.rb.slot[p]] = Nothing]
    <3> DEFINE u == x.rb.slot[p]
    <3> HIDE DEF u
    <3>1. Freed(x.uq, u).pkt = [x.uq.pkt EXCEPT ![u] = Nothing]
      BY <1>0, FreedIs
    <3>2. z.uq = Freed(x.uq, u)
      BY <1>6, <2>1 DEF u
    <3> QED BY <3>1, <3>2 DEF u
  <2> QED BY <2>1, <2>2, <2>3, <2>4 DEF Sound
<1>9. CASE ReadUnit(x) = x
  BY <1>9 DEF ReadTurn
<1>10. CASE /\ ReadUnit(x) = [z EXCEPT !.rb.start = NextPos(p), !.rb.notch = 0, !.left = @ - 1]
            /\ p # x.rb.ack /\ x.rs >= RestOf(x)
  <2> DEFINE b1 == [z.rb EXCEPT !.start = NextPos(p)]
             b2 == [b1 EXCEPT !.notch = 0]
             z1 == [z EXCEPT !.rb = b2]
             z2 == [z1 EXCEPT !.left = z.left - 1]
  <2> HIDE DEF z
  <2>1. NextPos(p) \in Positions /\ z.left - 1 \in Int /\ 0 \in Int
    BY <1>0, <1>7, PositionsAre DEF Streaming
  <2>2. b1 \in RcvBufs /\ b1.slot = z.rb.slot /\ b1.start = NextPos(p) /\ b1.ack = z.rb.ack
    BY <1>7, <2>1, StartIs
  <2>3. b2 \in RcvBufs /\ b2.slot = z.rb.slot /\ b2.start = NextPos(p) /\ b2.ack = z.rb.ack
        /\ b2.notch = 0
    <3> HIDE DEF b1
    <3> QED BY <2>1, <2>2, NotchIs
  <2>4. z1 \in Streaming /\ z1.rb = b2 /\ z1.uq = z.uq /\ z1.out = z.out /\ z1.rs = z.rs
    <3> HIDE DEF b2
    <3> QED BY <1>7, <2>3 DEF Streaming
  <2>5. z2 \in Streaming /\ z2.rb = b2 /\ z2.uq = z.uq /\ z2.out = z.out /\ z2.rs = z.rs
    <3> HIDE DEF z1, b2
    <3> QED BY <2>1, <2>4 DEF Streaming
  <2>6. ReadUnit(x) = z2
    BY <1>7, <1>10 DEF Streaming, RcvBufs
  <2>7. n = RestOf(x)
    BY <1>0, <1>1, <1>2, <1>10
  <2> HIDE DEF z2, b2
  <2>8. Sound(z2.rb, z2.uq)
    BY <1>7, <2>3, <2>5 DEF Sound
  <2>9. ReadTurn(x, z2)
    BY <1>4, <1>6, <1>7, <1>10, <2>3, <2>5, <2>7 DEF ReadTurn, p
  <2> QED BY <2>5, <2>6, <2>8, <2>9
<1>11. CASE ReadUnit(x) = [y EXCEPT !.rb.notch = @ + n] /\ p # x.rb.ack /\ ~(x.rs >= RestOf(x))
  <2> DEFINE b == [x.rb EXCEPT !.notch = x.rb.notch + n]
             z1 == [y EXCEPT !.rb = b]
  <2>1. x.rb.notch + n \in Int
    BY <1>0, <1>2
  <2>2. b \in RcvBufs /\ b.slot = x.rb.slot /\ b.start = x.rb.start /\ b.ack = x.rb.ack
        /\ b.notch = x.rb.notch + n
    BY <1>0, <2>1, NotchIs
  <2>3. ReadUnit(x) = z1
    BY <1>6, <1>11 DEF Streaming, RcvBufs
  <2>4. z1 \in Streaming /\ z1.rb = b /\ z1.uq = x.uq /\ z1.out = y.out /\ z1.rs = y.rs
    <3> HIDE DEF b
    <3> QED BY <1>6, <2>2 DEF Streaming
  <2>5. n = x.rs /\ x.rs - n = 0
    BY <1>0, <1>1, <1>2, <1>11
  <2> HIDE DEF b, z1
  <2>6. Sound(z1.rb, z1.uq)
    BY <2>2, <2>4 DEF Sound
  <2>7. ReadTurn(x, z1)
    BY <1>4, <1>6, <1>11, <2>2, <2>4, <2>5 DEF ReadTurn, p
  <2> QED BY <2>3, <2>4, <2>6, <2>7
<1>12. \/ ReadUnit(x) = x
       \/ /\ ReadUnit(x) = [z EXCEPT !.rb.start = NextPos(p), !.rb.notch = 0, !.left = @ - 1]
          /\ p # x.rb.ack /\ x.rs >= RestOf(x)
       \/ ReadUnit(x) = [y EXCEPT !.rb.notch = @ + n] /\ p # x.rb.ack /\ ~(x.rs >= RestOf(x))
  BY Zenon DEF ReadUnit, y, p, n
<1> QED BY <1>9, <1>10, <1>11, <1>12

LEMMA DataSizeIs ==
  ASSUME NEW rb \in RcvBufs
  PROVE  getRcvDataSize(rb) \in 0 .. RcvSlots - 1
<1>1. rb.start \in Positions /\ rb.ack \in Positions
  BY DEF RcvBufs
<1> QED BY <1>1, PositionsAre DEF Positions, getRcvDataSize

\* A loop over the packets there are does not leave a set its turns keep.
LEMMA ReadBytesStays ==
  ASSUME NEW rb \in RcvBufs, NEW uq, NEW len, NEW left, NEW V,
         [rb |-> rb, uq |-> uq, out |-> <<>>, rs |-> len, left |-> left] \in V,
         \A x \in V : ReadUnit(x) \in V
  PROVE  ReadBytes(rb, uq, len, left) \in V
<1> DEFINE a == [rb |-> rb, uq |-> uq, out |-> <<>>, rs |-> len, left |-> left]
           g == [x \in V |-> ReadUnit(x)]
           Turn(f) == [k \in Nat |-> IF k = 0 THEN a ELSE ReadUnit(f[k - 1])]
           after == CHOOSE f : f = Turn(f)
<1>1. ReadBytes(rb, uq, len, left) = after[getRcvDataSize(rb)]
  BY DEF ReadBytes
<1>2. a \in V
  OBVIOUS
<1>3. \A x \in V : ReadUnit(x) \in V
  OBVIOUS
<1> HIDE DEF a
<1>4. PICK w : Runs(w, V, a, g)
  <2>1. g \in [V -> V]
    BY <1>3
  <2> HIDE DEF g
  <2> QED BY <1>2, <2>1, Iterates
<1>5. w = Turn(w)
  <2>1. w \in [Nat -> V] /\ w[0] = a
    BY <1>4 DEF Runs
  <2>2. ASSUME NEW k \in Nat, k # 0 PROVE w[k] = ReadUnit(w[k - 1])
    <3>1. k - 1 \in Nat /\ (k - 1) + 1 = k
      BY <2>2
    <3>2. w[(k - 1) + 1] = g[w[k - 1]]
      <4> HIDE DEF g
      <4> QED BY <1>4, <3>1 DEF Runs
    <3> QED BY <2>1, <3>1, <3>2
  <2>3. \A k \in Nat : w[k] = IF k = 0 THEN a ELSE ReadUnit(w[k - 1])
    BY <2>1, <2>2
  <2> QED BY <2>1, <2>3
<1>6. after = Turn(after)
  <2> HIDE DEF Turn
  <2> QED BY <1>5
<1> HIDE DEF g, after
<1>7. after[0] = a /\ \A k \in Nat : after[k + 1] = ReadUnit(after[k])
  <2>1. \A k \in Nat : after[k] = IF k = 0 THEN a ELSE ReadUnit(after[k - 1])
    BY <1>6
  <2>2. \A k \in Nat : k + 1 \in Nat /\ k + 1 # 0 /\ (k + 1) - 1 = k
    OBVIOUS
  <2> HIDE DEF Turn
  <2> QED BY <2>1, <2>2
<1> HIDE DEF Turn
<1>8. \A k \in Nat : after[k] \in V
  <2>1. \A k \in Nat : after[k] \in V => after[k + 1] \in V
    BY <1>3, <1>7
  <2> QED BY <1>2, <1>7, <2>1, StaysIn
<1>9. getRcvDataSize(rb) \in Nat
  <2>1. getRcvDataSize(rb) \in 0 .. RcvSlots - 1 /\ RcvSlots \in Nat
    BY DataSizeIs, PositionsAre
  <2> DEFINE n == getRcvDataSize(rb)
  <2> HIDE DEF n
  <2>2. n \in Nat
    BY <2>1 DEF n
  <2> QED BY <2>2 DEF n
<1> QED BY <1>1, <1>8, <1>9

LEMMA ReadBytesKeeps ==
  ASSUME NEW rb, NEW uq, Sound(rb, uq), NEW len \in Int, NEW left \in Int
  PROVE  LET st == ReadBytes(rb, uq, len, left) IN
         st \in Streaming /\ Sound(st.rb, st.uq)
<1> DEFINE V == {x \in Streaming : Sound(x.rb, x.uq)}
<1>1. rb \in RcvBufs
  BY DEF Sound
<1>2. [rb |-> rb, uq |-> uq, out |-> <<>>, rs |-> len, left |-> left] \in V
  <2>1. <<>> \in Seq(Values \X Int)
    OBVIOUS
  <2> QED BY <2>1 DEF Streaming, Sound, IsUnits
<1>3. \A x \in V : ReadUnit(x) \in V
  BY ReadUnitKeeps
<1>4. ReadBytes(rb, uq, len, left) \in V
  <2> HIDE DEF V
  <2> QED BY <1>1, <1>2, <1>3, ReadBytesStays
<1> QED BY <1>4

Messaging == [rb : RcvBufs, uq : UnitQs, out : Seq(Values)]

Taking == [rb : RcvBufs, uq : UnitQs, out : Seq(Values), p : Positions]

LEMMA MsgRelease ==
  ASSUME NEW st \in Messaging, NEW p \in Positions
  PROVE  LET r == Release(st, p) IN
         /\ r \in Messaging
         /\ r.rb = Emptied(st.rb, p) /\ r.uq = Freed(st.uq, st.rb.slot[p])
         /\ r.out = st.out
<1> DEFINE r == Release(st, p)
           u == st.rb.slot[p]
           s1 == [st EXCEPT !.rb = Emptied(st.rb, p)]
           s2 == [s1 EXCEPT !.uq = Freed(st.uq, u)]
<1>1. st.rb \in RcvBufs /\ st.uq \in UnitQs
  BY DEF Messaging
<1>2. Emptied(st.rb, p) \in RcvBufs /\ Freed(st.uq, u) \in UnitQs
  BY <1>1, FreedIs DEF Emptied, RcvBufs
<1>3. s1 \in Messaging /\ s1.rb = Emptied(st.rb, p) /\ s1.uq = st.uq /\ s1.out = st.out
  BY <1>2 DEF Messaging
<1>4. s2 \in Messaging /\ s2.rb = s1.rb /\ s2.uq = Freed(st.uq, u) /\ s2.out = s1.out
  <2> HIDE DEF s1
  <2> QED BY <1>2, <1>3 DEF Messaging
<1>5. r = s2
  <2>1. Freed(st.uq, u) = [st.uq EXCEPT !.flag[u] = 0, !.pkt[u] = Nothing, !.count = @ - 1]
    BY <1>1, FreedIs
  <2>2. Emptied(st.rb, p) = [st.rb EXCEPT !.slot[p] = NoUnit]
    BY <1>1 DEF Emptied, RcvBufs
  <2> DEFINE A == Emptied(st.rb, p)
             B == Freed(st.uq, u)
  <2>3. r = [st EXCEPT !.rb = A, !.uq = B]
    BY <1>1, <2>1, <2>2 DEF Release, Messaging
  <2> HIDE DEF A, B
  <2> QED BY <2>3 DEF Messaging, A, B
<1> HIDE DEF r, s1, s2
<1> QED BY <1>3, <1>4, <1>5 DEF r

LEMMA TakeRelease ==
  ASSUME NEW st \in Taking, NEW p \in Positions
  PROVE  LET r == Release(st, p) IN
         /\ r \in Taking
         /\ r.rb = Emptied(st.rb, p) /\ r.uq = Freed(st.uq, st.rb.slot[p])
         /\ r.out = st.out /\ r.p = st.p
<1> DEFINE r == Release(st, p)
           u == st.rb.slot[p]
           s1 == [st EXCEPT !.rb = Emptied(st.rb, p)]
           s2 == [s1 EXCEPT !.uq = Freed(st.uq, u)]
<1>1. st.rb \in RcvBufs /\ st.uq \in UnitQs
  BY DEF Taking
<1>2. Emptied(st.rb, p) \in RcvBufs /\ Freed(st.uq, u) \in UnitQs
  BY <1>1, FreedIs DEF Emptied, RcvBufs
<1>3. s1 \in Taking /\ s1.rb = Emptied(st.rb, p) /\ s1.uq = st.uq /\ s1.out = st.out /\ s1.p = st.p
  BY <1>2 DEF Taking
<1>4. s2 \in Taking /\ s2.rb = s1.rb /\ s2.uq = Freed(st.uq, u) /\ s2.out = s1.out /\ s2.p = s1.p
  <2> HIDE DEF s1
  <2> QED BY <1>2, <1>3 DEF Taking
<1>5. r = s2
  <2>1. Freed(st.uq, u) = [st.uq EXCEPT !.flag[u] = 0, !.pkt[u] = Nothing, !.count = @ - 1]
    BY <1>1, FreedIs
  <2>2. Emptied(st.rb, p) = [st.rb EXCEPT !.slot[p] = NoUnit]
    BY <1>1 DEF Emptied, RcvBufs
  <2> DEFINE A == Emptied(st.rb, p)
             B == Freed(st.uq, u)
  <2>3. r = [st EXCEPT !.rb = A, !.uq = B]
    BY <1>1, <2>1, <2>2 DEF Release, Taking
  <2> HIDE DEF A, B
  <2> QED BY <2>3 DEF Taking, A, B
<1> HIDE DEF r, s1, s2
<1> QED BY <1>3, <1>4, <1>5 DEF r

LEMMA StartMoves ==
  ASSUME NEW b \in RcvBufs, NEW s \in Positions
  PROVE  LET c == [b EXCEPT !.start = s] IN
         /\ c \in RcvBufs /\ c.slot = b.slot /\ c.start = s /\ c.ack = b.ack /\ c.max = b.max
         /\ c.notch = b.notch
  BY DEF RcvBufs

\* scanMsg skips a position.
LEMMA SkipOneKeeps ==
  ASSUME NEW x \in Messaging, Sound(x.rb, x.uq)
  PROVE  SkipOne(x) \in Messaging /\ Sound(SkipOne(x).rb, SkipOne(x).uq)
<1> DEFINE p == x.rb.start
           z == Release(x, p)
<1>0. x.rb \in RcvBufs /\ x.uq \in UnitQs /\ p \in Positions /\ NextPos(p) \in Positions
  BY PositionsAre DEF Messaging, RcvBufs
<1>1. z \in Messaging /\ Sound(z.rb, z.uq) /\ z.rb \in RcvBufs /\ z.rb.start = p
  <2>1. z \in Messaging /\ z.rb = Emptied(x.rb, p) /\ z.uq = Freed(x.uq, x.rb.slot[p])
    BY <1>0, MsgRelease
  <2>2. Emptied(x.rb, p).start = p
    BY <1>0 DEF Emptied, RcvBufs
  <2> HIDE DEF z, p
  <2>3. Sound(z.rb, z.uq)
    BY <1>0, <2>1, ReleaseKeepsSound
  <2> QED BY <2>1, <2>2, <2>3 DEF Sound
<1>2. ASSUME NEW y \in Messaging, Sound(y.rb, y.uq), y.rb.start = p
      PROVE  LET r == [y EXCEPT !.rb.start = NextPos(@)] IN r \in Messaging /\ Sound(r.rb, r.uq)
  <2> DEFINE b == [y.rb EXCEPT !.start = NextPos(p)]
             r == [y EXCEPT !.rb = b]
  <2>1. b \in RcvBufs /\ b.slot = y.rb.slot
    BY <1>0, <1>2, StartMoves DEF Messaging
  <2>2. [y EXCEPT !.rb.start = NextPos(@)] = r
    BY <1>2 DEF Messaging, RcvBufs
  <2> HIDE DEF b
  <2>3. r \in Messaging /\ r.rb = b /\ r.uq = y.uq
    BY <2>1 DEF Messaging
  <2> HIDE DEF r
  <2>4. r \in Messaging /\ Sound(r.rb, r.uq)
    BY <1>2, <2>1, <2>3 DEF Sound
  <2> QED BY <2>2, <2>4
<1> HIDE DEF z, p
<1>3. \/ SkipOne(x) = x
      \/ SkipOne(x) = [x EXCEPT !.rb.start = NextPos(@)]
      \/ SkipOne(x) = [z EXCEPT !.rb.start = NextPos(@)]
  BY DEF SkipOne, z, p
<1>4. CASE SkipOne(x) = x
  BY <1>4
<1>5. CASE SkipOne(x) = [x EXCEPT !.rb.start = NextPos(@)]
  <2>1. x.rb.start = p
    BY DEF p
  <2> QED BY <1>2, <1>5, <2>1
<1>6. CASE SkipOne(x) = [z EXCEPT !.rb.start = NextPos(@)]
  BY <1>1, <1>2, <1>6
<1> QED BY <1>3, <1>4, <1>5, <1>6

LEMMA SkipBadRuns ==
  ASSUME NEW st \in Messaging, Sound(st.rb, st.uq)
  PROVE  \E x : /\ x[0] = st /\ SkipBad(st) = x[getRcvDataSize(st.rb)]
                /\ \A k \in Nat : /\ x[k] \in Messaging /\ Sound(x[k].rb, x[k].uq)
                                  /\ x[k + 1] = SkipOne(x[k])
<1> DEFINE V == {x \in Messaging : Sound(x.rb, x.uq)}
           a == st
           g == [x \in V |-> SkipOne(x)]
           Turn(f) == [k \in Nat |-> IF k = 0 THEN a ELSE SkipOne(f[k - 1])]
           after == CHOOSE f : f = Turn(f)
<1>1. SkipBad(st) = after[getRcvDataSize(st.rb)]
  BY DEF SkipBad
<1>2. a \in V
  OBVIOUS
<1>3. \A x \in V : SkipOne(x) \in V
  BY SkipOneKeeps
<1> HIDE DEF a
<1>4. PICK w : Runs(w, V, a, g)
  <2> HIDE DEF V
  <2>1. g \in [V -> V]
    BY <1>3
  <2> HIDE DEF g
  <2> QED BY <1>2, <2>1, Iterates
<1>5. w = Turn(w)
  <2> HIDE DEF V
  <2>1. w \in [Nat -> V] /\ w[0] = a
    BY <1>4 DEF Runs
  <2>2. ASSUME NEW k \in Nat, k # 0 PROVE w[k] = SkipOne(w[k - 1])
    <3>1. k - 1 \in Nat /\ (k - 1) + 1 = k
      BY <2>2
    <3>2. w[(k - 1) + 1] = g[w[k - 1]]
      <4> HIDE DEF g
      <4> QED BY <1>4, <3>1 DEF Runs
    <3> QED BY <2>1, <3>1, <3>2
  <2>3. \A k \in Nat : w[k] = IF k = 0 THEN a ELSE SkipOne(w[k - 1])
    BY <2>1, <2>2
  <2> QED BY <2>1, <2>3
<1>6. after = Turn(after)
  <2> HIDE DEF Turn
  <2> QED BY <1>5
<1> HIDE DEF g, after
<1>7. after[0] = a /\ \A k \in Nat : after[k + 1] = SkipOne(after[k])
  <2>1. \A k \in Nat : after[k] = IF k = 0 THEN a ELSE SkipOne(after[k - 1])
    BY <1>6
  <2>2. \A k \in Nat : k + 1 \in Nat /\ k + 1 # 0 /\ (k + 1) - 1 = k
    OBVIOUS
  <2> HIDE DEF Turn
  <2> QED BY <2>1, <2>2
<1> HIDE DEF Turn
<1>8. \A k \in Nat : after[k] \in V
  <2> HIDE DEF V
  <2>1. \A k \in Nat : after[k] \in V => after[k + 1] \in V
    BY <1>3, <1>7
  <2> QED BY <1>2, <1>7, <2>1, StaysIn
<1>9. \A k \in Nat : after[k] \in Messaging /\ Sound(after[k].rb, after[k].uq)
  BY <1>8
<1>10. after[0] = st
  BY <1>7 DEF a
<1> HIDE DEF V
<1> QED BY <1>1, <1>7, <1>9, <1>10

LEMMA SkipBadKeeps ==
  ASSUME NEW st \in Messaging, Sound(st.rb, st.uq)
  PROVE  SkipBad(st) \in Messaging /\ Sound(SkipBad(st).rb, SkipBad(st).uq)
<1>1. getRcvDataSize(st.rb) \in Nat
  BY DataSizeIs, PositionsAre DEF Sound
<1> QED BY <1>1, SkipBadRuns

\* What scanMsg looks for: the first and the last unit of a message.
Looks == [found : BOOLEAN, p : Positions \cup {Nothing}, q : Positions, passack : BOOLEAN]

LEMMA ScanOneKeeps ==
  ASSUME NEW st, NEW m \in Looks, m.found => m.p \in Positions
  PROVE  ScanOne(st, m) \in Looks /\ (ScanOne(st, m).found => ScanOne(st, m).p \in Positions)
<1> DEFINE use == Usable(st, m.q)
           head == IF ~use THEN Nothing ELSE IF IsFirst(st, m.q) THEN m.q ELSE m.p
           found == use /\ IsLast(st, m.q) /\ head # Nothing
           r1 == [m EXCEPT !.found = TRUE, !.p = head]
           pa == m.passack \/ NextPos(m.q) = st.rb.ack
           r2 == [m EXCEPT !.p = head, !.q = NextPos(m.q), !.passack = pa]
<1>1. m.q \in Positions /\ m.p \in Positions \cup {Nothing} /\ NextPos(m.q) \in Positions
  BY PositionsAre DEF Looks
<1>2. head \in Positions \cup {Nothing}
  <2> HIDE DEF use
  <2> QED BY <1>1
<1>3. m.found \in BOOLEAN /\ m.passack \in BOOLEAN
  BY DEF Looks
<1>4. pa \in BOOLEAN
  BY Zenon
<1> HIDE DEF head, pa, use
<1>5. CASE m.found
  BY <1>5 DEF ScanOne
<1>6. CASE ~m.found /\ found /\ (~m.passack \/ ~InOrder(st, m.q))
  <2>1. ScanOne(st, m) = r1
    BY <1>6 DEF ScanOne, use, head
  <2>2. r1 \in Looks /\ r1.p = head
    BY <1>2 DEF Looks
  <2>3. head \in Positions
    BY <1>2, <1>6
  <2> HIDE DEF r1
  <2> QED BY <2>1, <2>2, <2>3
<1>7. CASE ~m.found /\ ~(found /\ (~m.passack \/ ~InOrder(st, m.q)))
  <2>1. ScanOne(st, m) = r2
    BY <1>7, Zenon DEF ScanOne, use, head, pa
  <2> DEFINE m1 == [m EXCEPT !.p = head]
             m2 == [m1 EXCEPT !.q = NextPos(m.q)]
             m3 == [m2 EXCEPT !.passack = pa]
  <2>2. m1 \in Looks /\ m1.found = m.found
    BY <1>2 DEF Looks
  <2>3. m2 \in Looks /\ m2.found = m.found
    <3> HIDE DEF m1
    <3> QED BY <1>1, <2>2 DEF Looks
  <2>4. m3 \in Looks /\ m3.found = m.found
    <3> HIDE DEF m2
    <3> QED BY <1>4, <2>3 DEF Looks
  <2>5. r2 = m3
    BY DEF Looks
  <2> HIDE DEF r2, m3
  <2> QED BY <1>7, <2>1, <2>4, <2>5
<1> QED BY <1>5, <1>6, <1>7

ScanStart(st) == [found |-> FALSE, p |-> Nothing, q |-> st.rb.start,
                  passack |-> st.rb.start = st.rb.ack]
Seen(m) == [m EXCEPT !.found = @ \/ (m.p # Nothing /\ NextPos(m.q) = m.p)]

LEMMA ScanRuns ==
  ASSUME NEW st, st.rb \in RcvBufs
  PROVE  \E x : /\ x[0] = ScanStart(st)
                /\ Scan(st) = Seen(x[st.rb.max + getRcvDataSize(st.rb) + 1])
                /\ \A k \in Nat : /\ x[k] \in Looks /\ (x[k].found => x[k].p \in Positions)
                                  /\ x[k + 1] = ScanOne(st, x[k])
<1> DEFINE V == {x \in Looks : x.found => x.p \in Positions}
           a == ScanStart(st)
           g == [x \in V |-> ScanOne(st, x)]
           Turn(f) == [k \in Nat |-> IF k = 0 THEN a ELSE ScanOne(st, f[k - 1])]
           after == CHOOSE f : f = Turn(f)
           m == after[st.rb.max + getRcvDataSize(st.rb) + 1]
<1>1. Scan(st) = Seen(m)
  BY DEF Scan, ScanStart, Seen
<1>2. a \in V
  <2> DEFINE b == st.rb.start = st.rb.ack
  <2>1. b \in BOOLEAN
    BY Zenon
  <2> HIDE DEF b
  <2>2. st.rb.start \in Positions
    BY DEF RcvBufs
  <2>3. [found |-> FALSE, p |-> Nothing, q |-> st.rb.start, passack |-> b] \in V
    BY <2>1, <2>2 DEF Looks
  <2> QED BY <2>3 DEF b, ScanStart
<1>3. \A x \in V : ScanOne(st, x) \in V
  BY ScanOneKeeps
<1> HIDE DEF a
<1>4. PICK w : Runs(w, V, a, g)
  <2> HIDE DEF V
  <2>1. g \in [V -> V]
    BY <1>3
  <2> HIDE DEF g
  <2> QED BY <1>2, <2>1, Iterates
<1>5. w = Turn(w)
  <2> HIDE DEF V
  <2>1. w \in [Nat -> V] /\ w[0] = a
    BY <1>4 DEF Runs
  <2>2. ASSUME NEW k \in Nat, k # 0 PROVE w[k] = ScanOne(st, w[k - 1])
    <3>1. k - 1 \in Nat /\ (k - 1) + 1 = k
      BY <2>2
    <3>2. w[(k - 1) + 1] = g[w[k - 1]]
      <4> HIDE DEF g
      <4> QED BY <1>4, <3>1 DEF Runs
    <3> QED BY <2>1, <3>1, <3>2
  <2>3. \A k \in Nat : w[k] = IF k = 0 THEN a ELSE ScanOne(st, w[k - 1])
    BY <2>1, <2>2
  <2> QED BY <2>1, <2>3
<1>6. after = Turn(after)
  <2> HIDE DEF Turn
  <2> QED BY <1>5
<1> HIDE DEF g, after
<1>7. after[0] = a /\ \A k \in Nat : after[k + 1] = ScanOne(st, after[k])
  <2>1. \A k \in Nat : after[k] = IF k = 0 THEN a ELSE ScanOne(st, after[k - 1])
    BY <1>6
  <2>2. \A k \in Nat : k + 1 \in Nat /\ k + 1 # 0 /\ (k + 1) - 1 = k
    OBVIOUS
  <2> HIDE DEF Turn
  <2> QED BY <2>1, <2>2
<1> HIDE DEF Turn
<1>8. \A k \in Nat : after[k] \in V
  <2> HIDE DEF V
  <2>1. \A k \in Nat : after[k] \in V => after[k + 1] \in V
    BY <1>3, <1>7
  <2> QED BY <1>2, <1>7, <2>1, StaysIn
<1>9. \A k \in Nat : after[k] \in Looks /\ (after[k].found => after[k].p \in Positions)
  BY <1>8
<1>10. after[0] = ScanStart(st)
  BY <1>7 DEF a
<1> HIDE DEF V
<1> QED BY <1>1, <1>7, <1>9, <1>10

\* Whether a message was found, or one that fills the buffer.
LEMMA ScanIsLook ==
  ASSUME NEW m \in Looks
  PROVE  LET f == m.found \/ (m.p # Nothing /\ NextPos(m.q) = m.p)
             r == Seen(m)
         IN /\ r \in Looks /\ r.p = m.p /\ r.q = m.q /\ r.passack = m.passack
            /\ r.found = f
<1> DEFINE f == m.found \/ (m.p # Nothing /\ NextPos(m.q) = m.p)
           r == [m EXCEPT !.found = f]
<1>1. f \in BOOLEAN
  BY Zenon
<1>2. Seen(m) = r
  BY Zenon DEF Seen
<1> HIDE DEF f
<1>3. r \in Looks /\ r.p = m.p /\ r.q = m.q /\ r.passack = m.passack /\ r.found = f
  BY <1>1 DEF Looks
<1> HIDE DEF r
<1> QED BY <1>2, <1>3, Zenon DEF f

LEMMA ScanFinds ==
  ASSUME NEW st, st.rb \in RcvBufs
  PROVE  Scan(st) \in Looks /\ (Scan(st).found => Scan(st).p \in Positions)
<1> DEFINE n == st.rb.max + getRcvDataSize(st.rb) + 1
<1>1. n \in Nat
  <2>1. st.rb.max \in Nat /\ getRcvDataSize(st.rb) \in Nat
    BY DataSizeIs, PositionsAre DEF RcvBufs
  <2> QED BY <2>1
<1>2. PICK x : /\ Scan(st) = Seen(x[n])
               /\ \A k \in Nat : x[k] \in Looks /\ (x[k].found => x[k].p \in Positions)
  BY ScanRuns
<1> DEFINE m == x[n]
<1>3. m \in Looks /\ (m.found => m.p \in Positions)
  BY <1>1, <1>2
<1>4. Scan(st) = Seen(m)
  BY <1>2
<1> HIDE DEF m
<1>5. m.p \in Positions \cup {Nothing}
  BY <1>3 DEF Looks
<1> DEFINE r == Seen(m)
<1>6. r \in Looks /\ r.p = m.p /\ r.found = (m.found \/ (m.p # Nothing /\ NextPos(m.q) = m.p))
  BY <1>3, ScanIsLook, Zenon
<1>7. Scan(st) = r
  BY <1>4
<1> HIDE DEF r
<1>8. r.found => r.p \in Positions
  BY <1>3, <1>5, <1>6, Zenon
<1> QED BY <1>6, <1>7, <1>8

\* readMsg takes the data of a unit, and marks it or releases it.
LEMMA TakingAre ==
  ASSUME NEW x \in Taking
  PROVE  x.rb \in RcvBufs /\ x.uq \in UnitQs /\ x.out \in Seq(Values) /\ x.p \in Positions
<1> QED BY DEF Taking

\* What readMsg does of one unit.
LEMMA TakeUnitIs ==
  ASSUME NEW x \in Taking, NEW m \in Looks
  PROVE  LET r == TakeUnit(x, m)
             u == x.rb.slot[x.p]
         IN /\ r \in Taking
            /\ x.p = NextPos(m.q) => r = x
            /\ x.p # NextPos(m.q) =>
                 /\ r.out = Append(x.out, x.uq.pkt[u]) /\ r.p = NextPos(x.p)
                 /\ m.passack => /\ r.rb = x.rb /\ r.uq.pkt = x.uq.pkt
                                 /\ r.uq.flag = [x.uq.flag EXCEPT ![u] = 2]
                                 /\ r.uq.entries = x.uq.entries /\ r.uq.curr = x.uq.curr
                                 /\ r.uq.avail = x.uq.avail
                 /\ ~m.passack => r.rb = Emptied(x.rb, x.p) /\ r.uq = Freed(x.uq, u)
<1> DEFINE r == TakeUnit(x, m)
           u == x.rb.slot[x.p]
           o == Append(x.out, x.uq.pkt[u])
           s1 == [x EXCEPT !.out = o]
           s2 == [s1 EXCEPT !.p = NextPos(x.p)]
<1>0. /\ x.rb \in RcvBufs /\ x.uq \in UnitQs /\ x.out \in Seq(Values) /\ x.p \in Positions
      /\ NextPos(x.p) \in Positions
  BY TakingAre, PositionsAre
<1>1. o \in Seq(Values)
  <2>1. x.uq.pkt[u] \in Values
    BY <1>0, ValueOf
  <2> QED BY <1>0, <2>1, AppendProperties
<1>2. [x EXCEPT !.out = Append(@, x.uq.pkt[u]), !.p = NextPos(@)] = s2
  BY DEF Taking
<1> HIDE DEF o, u
<1>3. s1 \in Taking /\ s1.rb = x.rb /\ s1.uq = x.uq /\ s1.out = o
  BY <1>1 DEF Taking
<1>4. s2 \in Taking /\ s2.rb = x.rb /\ s2.uq = x.uq /\ s2.out = o /\ s2.p = NextPos(x.p)
  <2> HIDE DEF s1
  <2> QED BY <1>0, <1>3 DEF Taking
<1> HIDE DEF s2
<1>5. r = IF x.p = NextPos(m.q) THEN x
          ELSE IF m.passack THEN MarkRead(s2, u) ELSE Release(s2, x.p)
  BY <1>2 DEF TakeUnit, u
<1>6. CASE x.p = NextPos(m.q)
  BY <1>5, <1>6
<1>7. CASE x.p # NextPos(m.q) /\ m.passack
  <2> DEFINE fl == [x.uq.flag EXCEPT ![u] = 2]
             k == [x.uq EXCEPT !.flag = fl]
             y == [s2 EXCEPT !.uq = k]
  <2>1. MarkRead(s2, u) = y
    BY <1>4 DEF MarkRead, Taking, UnitQs
  <2>2. fl \in [AllUnits -> Nat]
    BY <1>0 DEF UnitQs
  <2> HIDE DEF fl
  <2>3. /\ k \in UnitQs /\ k.flag = fl /\ k.pkt = x.uq.pkt /\ k.entries = x.uq.entries
        /\ k.curr = x.uq.curr /\ k.avail = x.uq.avail
    BY <1>0, <2>2 DEF UnitQs
  <2> HIDE DEF k
  <2>4. y \in Taking /\ y.rb = x.rb /\ y.uq = k /\ y.out = o /\ y.p = NextPos(x.p)
    BY <1>4, <2>3 DEF Taking
  <2> HIDE DEF y
  <2>5. r = y
    BY <1>5, <1>7, <2>1
  <2> HIDE DEF r
  <2> QED BY <1>7, <2>3, <2>4, <2>5 DEF fl, o, r, u
<1>8. CASE x.p # NextPos(m.q) /\ ~m.passack
  <2> DEFINE z == Release(s2, x.p)
  <2>1. /\ z \in Taking /\ z.rb = Emptied(x.rb, x.p) /\ z.uq = Freed(x.uq, u) /\ z.out = o
        /\ z.p = NextPos(x.p)
    BY <1>0, <1>4, TakeRelease DEF u
  <2> HIDE DEF z
  <2>2. r = z
    BY <1>5, <1>8 DEF z
  <2> HIDE DEF r
  <2> QED BY <1>8, <2>1, <2>2 DEF o, r, u
<1> QED BY <1>6, <1>7, <1>8

LEMMA TakeUnitKeeps ==
  ASSUME NEW x \in Taking, Sound(x.rb, x.uq), NEW m \in Looks
  PROVE  TakeUnit(x, m) \in Taking /\ Sound(TakeUnit(x, m).rb, TakeUnit(x, m).uq)
<1> DEFINE u == x.rb.slot[x.p]
           r == TakeUnit(x, m)
<1>0. x.rb \in RcvBufs /\ x.uq \in UnitQs /\ x.p \in Positions /\ r \in Taking
  BY TakingAre, TakeUnitIs
<1>1. CASE x.p = NextPos(m.q)
  BY <1>0, <1>1, TakeUnitIs
<1>2. CASE x.p # NextPos(m.q) /\ m.passack
  <2> DEFINE k == r.uq
             fl == k.flag
  <2>1. /\ r.rb = x.rb /\ fl = [x.uq.flag EXCEPT ![u] = 2] /\ k.entries = x.uq.entries
        /\ k.curr = x.uq.curr /\ k.avail = x.uq.avail
    BY <1>2, TakeUnitIs
  <2>2. k \in UnitQs
    BY <1>0, TakingAre
  <2>3. x.uq.flag \in [AllUnits -> Nat]
    BY <1>0 DEF UnitQs
  <2> HIDE DEF r, k
  <2>4. \A v \in AllUnits : fl[v] = IF v = u THEN 2 ELSE x.uq.flag[v]
    BY <2>1, <2>3
  <2>5. Placed(x.rb.slot, x.uq.flag) /\ IsUnits(x.uq)
    BY DEF Sound
  <2>6. /\ \A q \in Positions : x.rb.slot[q] # NoUnit => x.rb.slot[q] \in AllUnits
        /\ u # NoUnit => u \in AllUnits /\ x.uq.flag[u] # 0
    BY <1>0, <2>5 DEF Placed, RcvBufs
  <2>7. \A v \in AllUnits : fl[v] # 0 <=> x.uq.flag[v] # 0
    <3>1. u \in AllUnits => u # NoUnit
      BY UnitBounds DEF NoUnit
    <3> QED BY <2>4, <2>6, <3>1
  <2> HIDE DEF fl
  <2>8. Placed(x.rb.slot, fl)
    BY <2>5, <2>6, <2>7 DEF Placed
  <2>9. IsUnits(k)
    BY <2>1, <2>2, <2>5, <2>7 DEF IsUnits, fl
  <2> QED BY <1>0, <2>1, <2>8, <2>9 DEF Sound, fl, k, r
<1>3. CASE x.p # NextPos(m.q) /\ ~m.passack
  <2>1. r.rb = Emptied(x.rb, x.p) /\ r.uq = Freed(x.uq, x.rb.slot[x.p])
    BY <1>3, TakeUnitIs
  <2> HIDE DEF r
  <2>2. Sound(r.rb, r.uq)
    BY <1>0, <2>1, ReleaseKeepsSound
  <2> QED BY <1>0, <2>2 DEF r
<1> QED BY <1>1, <1>2, <1>3

TakeStart(st, m) == [rb |-> st.rb, uq |-> st.uq, out |-> <<>>, p |-> m.p]
Advanced(x, m) == [x EXCEPT !.rb.start = NextPos(m.q)]

LEMMA TakeMsgRuns ==
  ASSUME NEW st \in Messaging, Sound(st.rb, st.uq), NEW m \in Looks, m.p \in Positions
  PROVE  \E x : /\ x[0] = TakeStart(st, m)
                /\ TakeMsg(st, m) = IF m.passack THEN x[RcvSlots] ELSE Advanced(x[RcvSlots], m)
                /\ \A k \in Nat : /\ x[k] \in Taking /\ Sound(x[k].rb, x[k].uq)
                                  /\ x[k + 1] = TakeUnit(x[k], m)
<1> DEFINE V == {x \in Taking : Sound(x.rb, x.uq)}
           a == TakeStart(st, m)
           g == [x \in V |-> TakeUnit(x, m)]
           Turn(f) == [k \in Nat |-> IF k = 0 THEN a ELSE TakeUnit(f[k - 1], m)]
           after == CHOOSE f : f = Turn(f)
           all == after[RcvSlots]
<1>1. TakeMsg(st, m) = IF m.passack THEN all ELSE [all EXCEPT !.rb.start = NextPos(m.q)]
  BY DEF TakeMsg, TakeStart
<1>2. a \in V
  <2>1. <<>> \in Seq(Values)
    OBVIOUS
  <2> QED BY <2>1 DEF Taking, Messaging, TakeStart
<1>3. \A x \in V : TakeUnit(x, m) \in V
  BY TakeUnitKeeps
<1> HIDE DEF a
<1>4. PICK w : Runs(w, V, a, g)
  <2> HIDE DEF V
  <2>1. g \in [V -> V]
    BY <1>3
  <2> HIDE DEF g
  <2> QED BY <1>2, <2>1, Iterates
<1>5. w = Turn(w)
  <2> HIDE DEF V
  <2>1. w \in [Nat -> V] /\ w[0] = a
    BY <1>4 DEF Runs
  <2>2. ASSUME NEW k \in Nat, k # 0 PROVE w[k] = TakeUnit(w[k - 1], m)
    <3>1. k - 1 \in Nat /\ (k - 1) + 1 = k
      BY <2>2
    <3>2. w[(k - 1) + 1] = g[w[k - 1]]
      <4> HIDE DEF g
      <4> QED BY <1>4, <3>1 DEF Runs
    <3> QED BY <2>1, <3>1, <3>2
  <2>3. \A k \in Nat : w[k] = IF k = 0 THEN a ELSE TakeUnit(w[k - 1], m)
    BY <2>1, <2>2
  <2> QED BY <2>1, <2>3
<1>6. after = Turn(after)
  <2> HIDE DEF Turn
  <2> QED BY <1>5
<1> HIDE DEF g, after
<1>7. after[0] = a /\ \A k \in Nat : after[k + 1] = TakeUnit(after[k], m)
  <2>1. \A k \in Nat : after[k] = IF k = 0 THEN a ELSE TakeUnit(after[k - 1], m)
    BY <1>6
  <2>2. \A k \in Nat : k + 1 \in Nat /\ k + 1 # 0 /\ (k + 1) - 1 = k
    OBVIOUS
  <2> HIDE DEF Turn
  <2> QED BY <2>1, <2>2
<1> HIDE DEF Turn
<1>8. \A k \in Nat : after[k] \in V
  <2> HIDE DEF V
  <2>1. \A k \in Nat : after[k] \in V => after[k + 1] \in V
    BY <1>3, <1>7
  <2> QED BY <1>2, <1>7, <2>1, StaysIn
<1>9. \A k \in Nat : after[k] \in Taking /\ Sound(after[k].rb, after[k].uq)
  BY <1>8
<1>10. after[0] = TakeStart(st, m)
  BY <1>7 DEF a
<1> HIDE DEF V
<1>11. TakeMsg(st, m) = IF m.passack THEN after[RcvSlots] ELSE Advanced(after[RcvSlots], m)
  BY <1>1 DEF Advanced
<1>12. \A k \in Nat : /\ after[k] \in Taking /\ Sound(after[k].rb, after[k].uq)
                      /\ after[k + 1] = TakeUnit(after[k], m)
  BY <1>7, <1>9
<1> QED BY <1>10, <1>11, <1>12, Zenon

\* The buffer in the end.
LEMMA TakenIs ==
  ASSUME NEW all \in Taking, NEW m \in Looks
  PROVE  LET r == Advanced(all, m) IN
         /\ r.rb \in RcvBufs /\ r.uq = all.uq /\ r.out = all.out
         /\ r.rb.slot = all.rb.slot /\ r.rb.start = NextPos(m.q) /\ r.rb.ack = all.rb.ack
         /\ r.rb.max = all.rb.max
<1> DEFINE b == [all.rb EXCEPT !.start = NextPos(m.q)]
           r == [all EXCEPT !.rb = b]
<1>1. NextPos(m.q) \in Positions /\ all.rb \in RcvBufs
  BY PositionsAre DEF Looks, Taking
<1>2. /\ b \in RcvBufs /\ b.slot = all.rb.slot /\ b.start = NextPos(m.q)
      /\ b.ack = all.rb.ack /\ b.max = all.rb.max
  BY <1>1 DEF RcvBufs
<1>3. Advanced(all, m) = r
  BY <1>1 DEF Advanced, Taking, RcvBufs
<1> HIDE DEF b
<1>4. r.rb = b /\ r.uq = all.uq /\ r.out = all.out
  BY <1>2 DEF Taking
<1> HIDE DEF r
<1> QED BY <1>2, <1>3, <1>4

LEMMA TakeMsgKeeps ==
  ASSUME NEW st \in Messaging, Sound(st.rb, st.uq), NEW m \in Looks, m.p \in Positions
  PROVE  Sound(TakeMsg(st, m).rb, TakeMsg(st, m).uq)
<1>1. PICK x : /\ x[0] = TakeStart(st, m)
               /\ TakeMsg(st, m) = IF m.passack THEN x[RcvSlots] ELSE Advanced(x[RcvSlots], m)
               /\ \A k \in Nat : /\ x[k] \in Taking /\ Sound(x[k].rb, x[k].uq)
                                 /\ x[k + 1] = TakeUnit(x[k], m)
  BY TakeMsgRuns, Zenon
<1> DEFINE all == x[RcvSlots]
           r == Advanced(all, m)
<1>2. all \in Taking /\ Sound(all.rb, all.uq)
  BY <1>1, PositionsAre
<1>3. TakeMsg(st, m) = IF m.passack THEN all ELSE r
  BY <1>1
<1> HIDE DEF all
<1>4. r.rb \in RcvBufs /\ r.rb.slot = all.rb.slot /\ r.uq = all.uq
  BY <1>2, TakenIs
<1> HIDE DEF r
<1>5. Sound(r.rb, r.uq)
  BY <1>2, <1>4 DEF Sound
<1> QED BY <1>2, <1>3, <1>5

LEMMA readMsgKeeps ==
  ASSUME NEW rb, NEW uq, Sound(rb, uq)
  PROVE  Sound(readMsg(rb, uq).rb, readMsg(rb, uq).uq)
<1> DEFINE st0 == [rb |-> rb, uq |-> uq, out |-> <<>>]
           st == SkipBad(st0)
<1>1. st0 \in Messaging /\ Sound(st0.rb, st0.uq)
  <2>1. <<>> \in Seq(Values)
    OBVIOUS
  <2> QED BY <2>1 DEF Messaging, Sound, IsUnits
<1> HIDE DEF st0
<1>2. st \in Messaging /\ Sound(st.rb, st.uq)
  BY <1>1, SkipBadKeeps
<1>3. \/ readMsg(rb, uq) = st0 \/ readMsg(rb, uq) = st
      \/ Scan(st).found /\ readMsg(rb, uq) = TakeMsg(st, Scan(st))
  BY DEF readMsg, st0
<1> HIDE DEF st
<1>4. Scan(st) \in Looks /\ (Scan(st).found => Scan(st).p \in Positions)
  BY <1>2, ScanFinds DEF Sound
<1>5. CASE Scan(st).found /\ readMsg(rb, uq) = TakeMsg(st, Scan(st))
  BY <1>2, <1>4, <1>5, TakeMsgKeeps
<1> QED BY <1>1, <1>2, <1>3, <1>5

LEMMA ReadyIs ==
  ASSUME NEW rb
  PROVE  /\ Ready(rb) \in 0 .. RcvSlots - 1
         /\ \A k \in 0 .. Ready(rb) - 1 : rb.slot[(rb.ack + k) % RcvSlots] # NoUnit
<1> DEFINE K == {n \in 0 .. RcvSlots - 1 :
                   \A k \in 0 .. n - 1 : rb.slot[(rb.ack + k) % RcvSlots] # NoUnit}
           T == {d \in 0 .. RcvSlots - 1 : RcvSlots - 1 - d \in K}
<1>0. RcvSlots \in Nat \ {0}
  BY PositionsAre
<1>1. 0 \in K
  BY <1>0
<1>2. K \subseteq 0 .. RcvSlots - 1
  OBVIOUS
<1>3. Ready(rb) = Max(K)
  BY DEF Ready
<1> HIDE DEF K
<1>4. RcvSlots - 1 \in T /\ T \subseteq Nat
  BY <1>0, <1>1
<1>5. PICK d \in T : \A e \in T : d <= e
  <2> HIDE DEF T
  <2> QED BY <1>4, LeastIn
<1>6. RcvSlots - 1 - d \in K /\ \A n \in K : RcvSlots - 1 - d >= n
  <2>1. \A n \in K : RcvSlots - 1 - n \in T
    BY <1>0, <1>2
  <2> QED BY <1>0, <1>2, <1>5, <2>1
<1>7. Max(K) \in K
  BY <1>6 DEF Max
<1> QED BY <1>3, <1>7 DEF K

RbInv == Sound(rcvBuf, units) /\ rcvBase \in Nat

LEMMA RbInitially == RbInit => RbInv
<1> SUFFICES ASSUME RbInit PROVE RbInv
  OBVIOUS
<1>1. rcvBuf = NewRcvBuf /\ units = NewUnits /\ rcvBase = 1
  BY DEF RbInit
<1>2. 0 \in Positions /\ 0 \in Nat /\ 0 \in Int
  BY PositionsAre DEF Positions
<1>3. rcvBuf \in RcvBufs /\ \A p \in Positions : rcvBuf.slot[p] = NoUnit
  BY <1>1, <1>2 DEF NewRcvBuf, RcvBufs, Positions
<1>4. units \in UnitQs /\ units.entries = 1 /\ units.curr = 0 /\ units.avail = 0
      /\ \A u \in AllUnits : units.flag[u] = 0
  <2>1. Nothing \in Int /\ 1 \in 1 .. MaxEntries
    BY UnitBounds DEF Nothing
  <2> QED BY <1>1, <2>1 DEF NewUnits, UnitQs
<1>5. IsUnits(units)
  <2>1. 0 * UnitBlock = 0 /\ UnitBlock > 0 /\ UnitBlock \in Nat
    BY UnitBounds
  <2> QED BY <1>4, <2>1 DEF IsUnits
<1>6. Placed(rcvBuf.slot, units.flag)
  BY <1>3, <1>4 DEF Placed
<1> QED BY <1>1, <1>3, <1>5, <1>6 DEF RbInv, Sound

LEMMA RbArrivesKeeps ==
  ASSUME RbInv, NEW offset \in 0 .. RcvSlots - 1, NEW lost \in BOOLEAN, RbArrives(offset, lost)
  PROVE  RbInv'
<1> DEFINE r == getNextAvailUnit(units)
           p == (rcvBuf.ack + offset) % RcvSlots
           taker == /\ r.unit # NoUnit
                    /\ offset < getAvailBufSize(rcvBuf)
                    /\ rcvBuf.slot[p] = NoUnit
           q == r.uq
           v == r.unit
<1>1. Sound(rcvBuf, units) /\ rcvBase \in Nat /\ rcvBase' = rcvBase
  BY DEF RbInv, RbArrives
<1>2. /\ rcvBuf \in RcvBufs /\ IsUnits(units) /\ Placed(rcvBuf.slot, units.flag)
      /\ offset \in Nat /\ rcvBuf.ack \in Positions
  BY <1>1, PositionsAre DEF Sound, RcvBufs
<1>3. /\ IsUnits(q) /\ q.flag = units.flag
      /\ v # NoUnit => v \in AllUnits /\ units.flag[v] = 0 /\ v < q.entries * UnitBlock
  BY <1>2, AskedFor
<1>4. CASE ~taker
  <2>1. units' = q /\ rcvBuf' = rcvBuf
    BY <1>4 DEF RbArrives
  <2> HIDE DEF q
  <2>2. Sound(rcvBuf', units')
    BY <1>2, <1>3, <2>1 DEF Sound
  <2> QED BY <1>1, <2>2 DEF RbInv
<1>5. CASE taker
  <2>1. /\ rcvBuf' = [rcvBuf EXCEPT !.slot[p] = v, !.max = IF offset > @ THEN offset ELSE @]
        /\ units' = [q EXCEPT !.flag[v] = 1, !.pkt[v] = rcvBase + offset,
                              !.count = CountTo(@, @ + 1, lost)]
        /\ v # NoUnit /\ rcvBuf.slot[p] = NoUnit
    BY <1>5 DEF RbArrives
  <2>2. p \in Positions
    <3> HIDE DEF taker
    <3>1. rcvBuf.ack \in Nat
      <4>1. Positions \subseteq Nat
        BY PositionsAre
      <4> QED BY <1>2, <4>1
    <3>2. rcvBuf.ack + offset \in Nat
      BY <1>2, <3>1
    <3> QED BY <3>2, PositionsAre
  <2> HIDE DEF p, q, v, taker
  <2>3. v \in AllUnits /\ units.flag[v] = 0 /\ v < q.entries * UnitBlock /\ q \in UnitQs
    BY <1>3, <2>1 DEF IsUnits
  <2> DEFINE sl == [rcvBuf.slot EXCEPT ![p] = v]
             mx == IF offset > rcvBuf.max THEN offset ELSE rcvBuf.max
             b1 == [rcvBuf EXCEPT !.slot = sl]
             b2 == [b1 EXCEPT !.max = mx]
  <2>4. rcvBuf.slot \in [Positions -> AllUnits \cup {NoUnit}] /\ rcvBuf.max \in Nat
    BY <1>2 DEF RcvBufs
  <2>5. sl \in [Positions -> AllUnits \cup {NoUnit}] /\ mx \in Nat
        /\ \A a \in Positions : sl[a] = IF a = p THEN v ELSE rcvBuf.slot[a]
    BY <1>2, <2>2, <2>3, <2>4
  <2>6. rcvBuf' = b2
    BY <1>2, <2>1 DEF RcvBufs
  <2> HIDE DEF sl, mx
  <2>7. b1 \in RcvBufs /\ b1.slot = sl
    BY <1>2, <2>5 DEF RcvBufs
  <2> HIDE DEF b1
  <2>8. b2 \in RcvBufs /\ b2.slot = sl
    BY <2>5, <2>7 DEF RcvBufs
  <2> DEFINE fl == [q.flag EXCEPT ![v] = 1]
             pk == [q.pkt EXCEPT ![v] = rcvBase + offset]
             ct == CountTo(q.count, q.count + 1, lost)
             u1 == [q EXCEPT !.flag = fl]
             u2 == [u1 EXCEPT !.pkt = pk]
             u3 == [u2 EXCEPT !.count = ct]
  <2>9. q.flag \in [AllUnits -> Nat] /\ q.pkt \in [AllUnits -> Int] /\ q.count \in Int
    BY <2>3 DEF UnitQs
  <2>10. fl \in [AllUnits -> Nat] /\ \A a \in AllUnits : fl[a] = IF a = v THEN 1 ELSE units.flag[a]
    BY <1>3, <2>9
  <2>11. pk \in [AllUnits -> Int]
    <3>1. rcvBase + offset \in Int
      BY <1>1, <1>2
    <3> QED BY <2>9, <3>1
  <2>12. ct \in Int
    BY <2>9 DEF CountTo
  <2>13. units' = u3
    <3>1. units' = [q EXCEPT !.flag = fl, !.pkt = pk, !.count = ct]
      BY <2>1, <2>3 DEF UnitQs
    <3> HIDE DEF fl, pk, ct
    <3> QED BY <2>3, <3>1 DEF UnitQs
  <2> HIDE DEF fl, pk, ct
  <2>14. u1 \in UnitQs /\ u1.flag = fl /\ u1.entries = q.entries /\ u1.curr = q.curr /\ u1.avail = q.avail
    BY <2>3, <2>10 DEF UnitQs
  <2> HIDE DEF u1
  <2>15. u2 \in UnitQs /\ u2.flag = fl /\ u2.entries = q.entries /\ u2.curr = q.curr /\ u2.avail = q.avail
    BY <2>11, <2>14 DEF UnitQs
  <2> HIDE DEF u2
  <2>16. u3 \in UnitQs /\ u3.flag = fl /\ u3.entries = q.entries /\ u3.curr = q.curr /\ u3.avail = q.avail
    BY <2>12, <2>15 DEF UnitQs
  <2> HIDE DEF u3, b2
  <2>17. ASSUME NEW a \in AllUnits, a >= q.entries * UnitBlock PROVE fl[a] = 0
    <3>1. a # v
      <4>1. q.entries \in Nat /\ UnitBlock \in Nat
        BY <2>3, UnitBounds DEF UnitQs
      <4>2. q.entries * UnitBlock \in Nat /\ a \in Nat /\ v \in Nat
        BY <2>3, <4>1, UnitBounds
      <4> QED BY <2>3, <2>17, <4>2
    <3>2. q.flag[a] = 0
      BY <1>3, <2>17 DEF IsUnits
    <3> QED BY <1>3, <2>10, <3>1, <3>2
  <2>18. IsUnits(u3)
    BY <1>3, <2>16, <2>17 DEF IsUnits
  <2>19. \A a \in Positions : rcvBuf.slot[a] # v
    BY <1>2, <2>1, <2>3 DEF Placed
  <2>20. Placed(sl, fl)
    <3>1. ASSUME NEW a \in Positions, NEW b \in Positions, sl[a] = sl[b], sl[a] # NoUnit PROVE a = b
      BY <1>2, <2>5, <2>19, <3>1 DEF Placed
    <3>2. ASSUME NEW a \in Positions, sl[a] # NoUnit PROVE fl[sl[a]] # 0
      <4>1. CASE a = p
        BY <2>3, <2>5, <2>10, <4>1
      <4>2. CASE a # p
        <5>1. sl[a] = rcvBuf.slot[a] /\ sl[a] \in AllUnits /\ sl[a] # v
          BY <2>4, <2>5, <2>19, <3>2, <4>2
        <5> QED BY <1>2, <2>10, <3>2, <5>1 DEF Placed
      <4> QED BY <4>1, <4>2
    <3>3. ASSUME NEW a \in AllUnits, fl[a] # 0 PROVE \E b \in Positions : sl[b] = a
      <4>1. CASE a = v
        BY <2>2, <2>5, <4>1
      <4>2. CASE a # v
        <5>1. units.flag[a] # 0
          BY <2>10, <3>3, <4>2
        <5>2. PICK b \in Positions : rcvBuf.slot[b] = a
          BY <1>2, <5>1 DEF Placed
        <5>3. b # p
          BY <2>1, <5>2, UnitBounds DEF NoUnit
        <5> QED BY <2>5, <5>2, <5>3
      <4> QED BY <4>1, <4>2
    <3> QED BY <3>1, <3>2, <3>3 DEF Placed
  <2>21. Sound(rcvBuf', units')
    BY <2>6, <2>8, <2>13, <2>16, <2>18, <2>20 DEF Sound
  <2> QED BY <1>1, <2>21 DEF RbInv
<1> QED BY <1>4, <1>5

LEMMA RbAckKeeps == RbInv /\ RbAck => RbInv'
<1> SUFFICES ASSUME RbInv, RbAck PROVE RbInv'
  OBVIOUS
<1> DEFINE n == Ready(rcvBuf)
           b == Acked(rcvBuf, n)
           k == (rcvBuf.ack + n) % RcvSlots
           mx == IF rcvBuf.max - n < 0 THEN 0 ELSE rcvBuf.max - n
           b1 == [rcvBuf EXCEPT !.ack = k]
           b2 == [b1 EXCEPT !.max = mx]
<1>1. Sound(rcvBuf, units) /\ rcvBase \in Nat
  BY DEF RbInv
<1>2. rcvBuf' = b /\ rcvBase' = rcvBase + n /\ units' = units
  BY DEF RbAck
<1>3. n \in Nat /\ rcvBuf \in RcvBufs /\ rcvBuf.ack \in Positions /\ rcvBuf.max \in Nat
      /\ rcvBuf.ack \in Nat
  <2>1. Positions \subseteq Nat /\ RcvSlots \in Nat
    BY PositionsAre
  <2>2. n \in Nat
    BY <2>1, ReadyIs
  <2>3. rcvBuf \in RcvBufs /\ rcvBuf.ack \in Positions /\ rcvBuf.max \in Nat
    BY <1>1 DEF Sound, RcvBufs
  <2> HIDE DEF n
  <2> QED BY <2>1, <2>2, <2>3
<1> HIDE DEF n
<1>4. k \in Positions /\ mx \in Nat
  <2>1. rcvBuf.ack + n \in Nat
    BY <1>3
  <2> QED BY <1>3, <2>1, PositionsAre
<1>5. b = b2
  BY <1>3 DEF Acked, RcvBufs
<1> HIDE DEF k, mx, b
<1>6. b1 \in RcvBufs /\ b1.slot = rcvBuf.slot
  BY <1>3, <1>4 DEF RcvBufs
<1> HIDE DEF b1
<1>7. b2 \in RcvBufs /\ b2.slot = rcvBuf.slot
  BY <1>4, <1>6 DEF RcvBufs
<1> HIDE DEF b2
<1>8. rcvBase' \in Nat
  BY <1>1, <1>2, <1>3
<1>9. Sound(rcvBuf', units')
  BY <1>1, <1>2, <1>5, <1>7 DEF Sound
<1> QED BY <1>8, <1>9 DEF RbInv

LEMMA RecountKeeps ==
  ASSUME NEW rb, NEW uq, Sound(rb, uq), NEW lost
  PROVE  Sound(rb, [uq EXCEPT !.count = CountTo(@ + 1, @, lost)])
<1> DEFINE c == CountTo(uq.count + 1, uq.count, lost)
           r == [uq EXCEPT !.count = c]
<1>1. uq \in UnitQs /\ uq.count \in Int
  BY DEF Sound, IsUnits, UnitQs
<1>2. c \in Int
  BY <1>1 DEF CountTo
<1>3. [uq EXCEPT !.count = CountTo(@ + 1, @, lost)] = r
  BY <1>1 DEF UnitQs
<1> HIDE DEF c
<1>4. r \in UnitQs /\ r.flag = uq.flag /\ r.entries = uq.entries /\ r.curr = uq.curr /\ r.avail = uq.avail
  BY <1>1, <1>2 DEF UnitQs
<1> HIDE DEF r
<1>5. Sound(rb, r)
  BY <1>4 DEF Sound, IsUnits
<1> QED BY <1>3, <1>5

LEMMA RbReadStreamKeeps ==
  ASSUME RbInv, NEW len \in Int, NEW left \in Int, NEW lost \in BOOLEAN,
         RbReadStream(len, left, lost)
  PROVE  RbInv'
<1> DEFINE st == ReadBytes(rcvBuf, units, len, left)
           gone == lost /\ st.uq.count # units.count
<1>1. /\ rcvBuf' = st.rb /\ units' = [st.uq EXCEPT !.count = CountTo(@ + 1, @, gone)]
      /\ rcvBase' = rcvBase
  BY DEF RbReadStream
<1>2. Sound(st.rb, st.uq)
  BY ReadBytesKeeps DEF RbInv
<1> HIDE DEF st, gone
<1>3. Sound(rcvBuf', units')
  BY <1>1, <1>2, RecountKeeps
<1> QED BY <1>1, <1>3 DEF RbInv

LEMMA RbReadMsgKeeps ==
  ASSUME RbInv, NEW lost \in BOOLEAN, RbReadMsg(lost)
  PROVE  RbInv'
<1> DEFINE st == readMsg(rcvBuf, units)
           gone == lost /\ st.uq.count # units.count
<1>1. /\ rcvBuf' = st.rb /\ units' = [st.uq EXCEPT !.count = CountTo(@ + 1, @, gone)]
      /\ rcvBase' = rcvBase
  BY DEF RbReadMsg
<1>2. Sound(st.rb, st.uq)
  BY readMsgKeeps DEF RbInv
<1> HIDE DEF st, gone
<1>3. Sound(rcvBuf', units')
  BY <1>1, <1>2, RecountKeeps
<1> QED BY <1>1, <1>3 DEF RbInv

LEMMA RbInvIsInductive == RbInv /\ [RbStep]_rbVars => RbInv'
<1> SUFFICES ASSUME RbInv, [RbStep]_rbVars PROVE RbInv'
  OBVIOUS
<1>1. CASE UNCHANGED rbVars
  BY <1>1 DEF rbVars, RbInv
<1>2. ASSUME NEW offset \in 0 .. RcvSlots - 1, NEW lost \in BOOLEAN, RbArrives(offset, lost)
      PROVE  RbInv'
  BY <1>2, RbArrivesKeeps
<1>3. CASE RbAck
  BY <1>3, RbAckKeeps
<1>4. ASSUME NEW len \in 1 .. MaxRead, NEW left \in {1, RcvSlots}, NEW lost \in BOOLEAN,
             RbReadStream(len, left, lost)
      PROVE  RbInv'
  <2>1. len \in Int /\ left \in Int
    BY BuffersAssumption
  <2> QED BY <1>4, <2>1, RbReadStreamKeeps
<1>5. ASSUME NEW lost \in BOOLEAN, RbReadMsg(lost) PROVE RbInv'
  BY <1>5, RbReadMsgKeeps
<1> QED BY <1>1, <1>2, <1>3, <1>4, <1>5 DEF RbStep

LEMMA RbInvIsSound == RbInv => UnitsAreSound
<1> SUFFICES ASSUME RbInv PROVE UnitsAreSound
  OBVIOUS
<1> DEFINE filled == {p \in Positions : rcvBuf.slot[p] # NoUnit}
           f == [p \in filled |-> rcvBuf.slot[p]]
           I == InUse(units)
<1>1. /\ rcvBuf \in RcvBufs /\ IsUnits(units) /\ Placed(rcvBuf.slot, units.flag)
      /\ \A p \in Positions : rcvBuf.slot[p] \in AllUnits \cup {NoUnit}
  BY DEF RbInv, Sound, RcvBufs
<1>2. \A p \in filled : rcvBuf.slot[p] \in I
  BY <1>1 DEF Placed, InUse
<1>3. \A u \in I : \E p \in filled : rcvBuf.slot[p] = u
  BY <1>1, UnitBounds DEF Placed, InUse, NoUnit
<1>4. \A p, q \in filled : rcvBuf.slot[p] = rcvBuf.slot[q] => p = q
  BY <1>1 DEF Placed
<1>5. {rcvBuf.slot[p] : p \in filled} = I
  BY <1>2, <1>3
<1>6. Cardinality(filled) = Cardinality(I)
  <2>1. f \in [filled -> I] /\ (\A p, q \in filled : f[p] = f[q] => p = q)
        /\ \A u \in I : \E p \in filled : f[p] = u
    <3> HIDE DEF filled
    <3> QED BY <1>2, <1>3, <1>4
  <2>2. f \in Bijection(filled, I)
    <3> HIDE DEF f
    <3> QED BY <2>1 DEF Bijection, Injection, Surjection, IsInjective
  <2>3. ExistsBijection(filled, I)
    BY <2>2 DEF ExistsBijection
  <2>4. IsFiniteSet(filled)
    <3>1. 0 \in Int /\ RcvSlots - 1 \in Int
      BY PositionsAre
    <3>2. IsFiniteSet(0 .. RcvSlots - 1)
      BY <3>1, FS_Interval
    <3>3. filled \in SUBSET (0 .. RcvSlots - 1)
      BY DEF Positions
    <3> HIDE DEF filled
    <3> QED BY <3>2, <3>3, FS_Subset
  <2> HIDE DEF filled, I, f
  <2> QED BY <2>3, <2>4, FS_Bijection
<1>7. UnitsAreInSlots
  BY <1>5, <1>6 DEF UnitsAreInSlots, Positions
<1>8. UnitIsFound
  BY <1>1, SecondIsFound DEF UnitIsFound
<1> QED BY <1>7, <1>8 DEF UnitsAreSound

\* Whatever arrives in any order, is read in any pieces or given up, and
\* however often the counter of units loses a race: the units in use are those
\* in the slots, each in one, and a packet that asks twice for a unit gets one
\* unless memory is at its bound and none is left that the search may give.
THEOREM UnitsAreAlwaysSound == RbSpec => []UnitsAreSound
<1>1. RbInit => RbInv
  BY RbInitially
<1>2. RbInv /\ [RbStep]_rbVars => RbInv'
  BY RbInvIsInductive
<1>3. RbInv => UnitsAreSound
  BY RbInvIsSound
<1> QED BY <1>1, <1>2, <1>3, PTL DEF RbSpec

-----------------------------------------------------------------------------
(* A stream.                                                               *)

\* The position k behind the one to be read next.
At(rb, k) == (rb.start + k) % RcvSlots

LEMMA AtIs ==
  ASSUME NEW rb \in RcvBufs
  PROVE  /\ \A k \in 0 .. RcvSlots - 1 :
               /\ At(rb, k) \in Positions
               /\ At(rb, k) = IF rb.start + k < RcvSlots THEN rb.start + k ELSE rb.start + k - RcvSlots
         /\ \A k, j \in 0 .. RcvSlots - 1 : At(rb, k) = At(rb, j) => k = j
         /\ \A p \in Positions : \E k \in 0 .. RcvSlots - 1 : At(rb, k) = p
         /\ At(rb, 0) = rb.start /\ At(rb, getRcvDataSize(rb)) = rb.ack
         /\ getRcvDataSize(rb) \in 0 .. RcvSlots - 1
<1>0. RcvSlots \in Nat \ {0} /\ rb.start \in 0 .. RcvSlots - 1 /\ rb.ack \in 0 .. RcvSlots - 1
  BY PositionsAre DEF RcvBufs, Positions
<1>1. ASSUME NEW k \in 0 .. RcvSlots - 1
      PROVE  At(rb, k) = IF rb.start + k < RcvSlots THEN rb.start + k ELSE rb.start + k - RcvSlots
  <2>1. CASE rb.start + k < RcvSlots
    <3>1. rb.start + k \in 0 .. RcvSlots - 1
      BY <1>0, <2>1
    <3> QED BY <1>0, <2>1, <3>1, ModSmall DEF At
  <2>2. CASE ~(rb.start + k < RcvSlots)
    <3> DEFINE x == rb.start + k - RcvSlots
    <3>1. x \in 0 .. RcvSlots - 1 /\ rb.start + k = x + RcvSlots
      BY <1>0, <2>2
    <3> HIDE DEF x
    <3>2. (x + RcvSlots) % RcvSlots = x
      BY <1>0, <3>1, ModSmall
    <3> QED BY <2>2, <3>1, <3>2 DEF At, x
  <2> QED BY <2>1, <2>2
<1>2. \A k \in 0 .. RcvSlots - 1 : At(rb, k) \in Positions
  BY <1>0, <1>1 DEF Positions
<1>3. \A k, j \in 0 .. RcvSlots - 1 : At(rb, k) = At(rb, j) => k = j
  BY <1>0, <1>1
<1>4. \A p \in Positions : \E k \in 0 .. RcvSlots - 1 : At(rb, k) = p
  BY <1>0, Reaches DEF At, Positions
<1>5. getRcvDataSize(rb) \in 0 .. RcvSlots - 1
  BY DataSizeIs
<1>6. At(rb, 0) = rb.start
  BY <1>0, <1>1
<1>7. At(rb, getRcvDataSize(rb)) = rb.ack
  BY <1>0, <1>1, <1>5 DEF getRcvDataSize
<1> QED BY <1>1, <1>2, <1>3, <1>4, <1>5, <1>6, <1>7

\* tk is the bytes of the packets from the first on.
IsBytes(tk) ==
  /\ tk \in Seq(Values \X Int)
  /\ \A i \in 1 .. Len(tk) : tk[i] = <<((i - 1) \div PktBytes) + 1, ((i - 1) % PktBytes) + 1>>

\* Of c packets acknowledged the buffer holds the last ones, and behind them
\* what came out of order; tk is what was read of the others.
IsStream(rb, uq, c, tk) ==
  LET size == getRcvDataSize(rb)
      base == c - size
  IN /\ base \in Nat
     /\ rb.notch \in 0 .. PktBytes - 1 /\ (size = 0 => rb.notch = 0)
     /\ \A k \in 0 .. RcvSlots - 1 :
          rb.slot[At(rb, k)] # NoUnit => k # RcvSlots - 1 /\ uq.pkt[rb.slot[At(rb, k)]] = base + 1 + k
     /\ \A k \in 0 .. size - 1 : rb.slot[At(rb, k)] # NoUnit
     /\ IsBytes(tk) /\ Len(tk) = PktBytes * base + rb.notch

LEMMA DivModOf ==
  ASSUME NEW d \in Nat \ {0}, NEW b \in Nat, NEW r \in 0 .. d - 1
  PROVE  (d * b + r) \div d = b /\ (d * b + r) % d = r
<1> DEFINE x == d * b + r
           q == x \div d
           m == x % d
<1>1. x \in Nat
  OBVIOUS
<1>2. x = q * d + m /\ m \in 0 .. d - 1 /\ q \in Nat
  <2> HIDE DEF x
  <2> QED BY <1>1, DivMod
<1> HIDE DEF q, m
<1>3. q = b
  <2>1. CASE q > b
    <3>1. q * d >= (b + 1) * d /\ (b + 1) * d = d * b + d /\ q * d \in Nat /\ d * b \in Nat
      BY <1>2, <2>1
    <3> QED BY <1>2, <3>1
  <2>2. CASE q < b
    <3>1. b * d >= (q + 1) * d /\ (q + 1) * d = q * d + d /\ q * d \in Nat /\ d * b = b * d
          /\ b * d \in Nat
      BY <1>2, <2>2
    <3> QED BY <1>2, <3>1
  <2> QED BY <1>2, <2>1, <2>2
<1>4. m = r
  BY <1>2, <1>3
<1> QED BY <1>3, <1>4 DEF q, m

\* n bytes of packet i from the notch on.
BytesOf(i, notch, n) == [k \in 1 .. n |-> <<i, notch + k>>]

\* The bytes of the next packet from the notch on follow.
LEMMA BytesFollow ==
  ASSUME NEW tk, IsBytes(tk), NEW base \in Nat, NEW notch \in Nat, NEW n \in Nat,
         Len(tk) = PktBytes * base + notch, notch + n <= PktBytes
  PROVE  /\ IsBytes(tk \o BytesOf(base + 1, notch, n))
         /\ Len(tk \o BytesOf(base + 1, notch, n)) = PktBytes * base + notch + n
<1> DEFINE more == BytesOf(base + 1, notch, n)
<1>b. more = [k \in 1 .. n |-> <<base + 1, notch + k>>]
  BY DEF BytesOf
<1> HIDE DEF more
<1>0. PktBytes \in Nat \ {0}
  BY BuffersAssumption
<1>1. more \in Seq(Values \X Int) /\ Len(more) = n
  <2>1. \A k \in 1 .. n : <<base + 1, notch + k>> \in Values \X Int
    BY DEF Values
  <2>2. more \in [1 .. n -> Values \X Int]
    BY <1>b, <2>1
  <2>3. more \in Seq(Values \X Int)
    BY <2>2, SeqDef
  <2>4. DOMAIN more = 1 .. n
    BY <2>2
  <2> QED BY <2>3, <2>4, LenProperties
<1>2. tk \in Seq(Values \X Int) /\ Len(tk) \in Nat
  BY DEF IsBytes
<1> DEFINE t == tk \o more
           Byte(i) == <<((i - 1) \div PktBytes) + 1, ((i - 1) % PktBytes) + 1>>
<1>a. \A i \in 1 .. Len(tk) : tk[i] = Byte(i)
  BY DEF IsBytes
<1>3. t \in Seq(Values \X Int) /\ Len(t) = Len(tk) + n
      /\ \A i \in 1 .. Len(tk) + n : t[i] = IF i <= Len(tk) THEN tk[i] ELSE more[i - Len(tk)]
  BY <1>1, <1>2, ConcatProperties
<1> HIDE DEF t
<1>4. ASSUME NEW i \in 1 .. Len(t)
      PROVE  t[i] = Byte(i)
  <2>1. CASE i <= Len(tk)
    <3>1. i \in 1 .. Len(tk) /\ i \in 1 .. Len(tk) + n
      BY <1>2, <1>3, <2>1
    <3> HIDE DEF Byte
    <3> QED BY <1>3, <1>a, <2>1, <3>1
  <2>2. CASE ~(i <= Len(tk))
    <3> DEFINE k == i - Len(tk)
               r == notch + k - 1
    <3>1. k \in 1 .. n /\ i \in 1 .. Len(tk) + n
      BY <1>2, <1>3, <2>2
    <3>2. t[i] = more[k]
      BY <1>3, <2>2, <3>1
    <3>3. r \in 0 .. PktBytes - 1 /\ notch + k = r + 1
      BY <1>0, <3>1
    <3>4. i - 1 = PktBytes * base + r
      <4> DEFINE a == PktBytes * base
      <4>1. a \in Nat /\ Len(tk) = a + notch
        BY <1>0
      <4> HIDE DEF a
      <4>2. i - 1 = a + r
        BY <1>2, <4>1
      <4> QED BY <4>2 DEF a
    <3> HIDE DEF k, r
    <3>5. (PktBytes * base + r) \div PktBytes = base /\ (PktBytes * base + r) % PktBytes = r
      BY <1>0, <3>3, DivModOf
    <3> DEFINE y == i - 1
    <3> HIDE DEF y
    <3>7. y \div PktBytes = base /\ y % PktBytes = r
      BY <3>4, <3>5 DEF y
    <3>8. Byte(i) = <<base + 1, r + 1>>
      BY <3>7 DEF y
    <3>6. more[k] = <<base + 1, notch + k>>
      BY <1>b, <3>1
    <3> HIDE DEF Byte
    <3> QED BY <3>2, <3>3, <3>6, <3>8
  <2> QED BY <2>1, <2>2
<1>5. Len(t) = PktBytes * base + notch + n
  BY <1>3
<1> QED BY <1>3, <1>4, <1>5 DEF IsBytes, t, more

LEMMA StreamTurn ==
  ASSUME NEW x \in Streaming, Sound(x.rb, x.uq), x.rs >= 0,
         NEW c \in Nat, NEW tk \in Seq(Values \X Int), IsStream(x.rb, x.uq, c, tk \o x.out),
         NEW r \in Streaming, ReadTurn(x, r)
  PROVE  IsStream(r.rb, r.uq, c, tk \o r.out) /\ r.rs >= 0
<1> DEFINE size == getRcvDataSize(x.rb)
           base == c - size
           p == x.rb.start
           u == x.rb.slot[p]
<1>0. /\ x.rb \in RcvBufs /\ r.rb \in RcvBufs /\ x.rs \in Int /\ x.out \in Seq(Values \X Int)
      /\ x.uq.pkt \in [AllUnits -> Int] /\ x.rb.slot \in [Positions -> AllUnits \cup {NoUnit}]
      /\ p \in Positions /\ PktBytes \in Nat /\ PktBytes > 0 /\ RcvSlots \in Nat /\ RcvSlots > 2
      /\ x.rb.ack \in Positions
  BY BuffersAssumption DEF Streaming, RcvBufs, UnitQs
<1>1. /\ base \in Nat /\ x.rb.notch \in 0 .. PktBytes - 1 /\ (size = 0 => x.rb.notch = 0)
      /\ \A k \in 0 .. RcvSlots - 1 : x.rb.slot[At(x.rb, k)] # NoUnit =>
             k # RcvSlots - 1 /\ x.uq.pkt[x.rb.slot[At(x.rb, k)]] = base + 1 + k
      /\ \A k \in 0 .. size - 1 : x.rb.slot[At(x.rb, k)] # NoUnit
      /\ IsBytes(tk \o x.out) /\ Len(tk \o x.out) = PktBytes * base + x.rb.notch
  BY DEF IsStream
<1>2. size \in 0 .. RcvSlots - 1 /\ At(x.rb, 0) = p
  BY <1>0, AtIs
<1> HIDE DEF size, base
<1>3. CASE r = x
  BY <1>3
<1>4. ASSUME p # x.rb.ack
      PROVE  size > 0 /\ u # NoUnit /\ u \in AllUnits /\ x.uq.pkt[u] = base + 1
  <2>1. size # 0
    BY <1>0, <1>4, AtIs DEF size
  <2>2. size > 0 /\ 0 \in 0 .. size - 1 /\ 0 \in 0 .. RcvSlots - 1
    BY <1>0, <1>2, <2>1
  <2>3. u # NoUnit
    BY <1>1, <1>2, <2>2
  <2>4. x.uq.pkt[u] = base + 1 + 0
    BY <1>1, <1>2, <2>2, <2>3
  <2> QED BY <1>0, <1>1, <2>2, <2>3, <2>4
<1>5. ASSUME NEW n \in Nat, p # x.rb.ack, x.rb.notch + n <= PktBytes, r.out = x.out \o Bytes(x, n)
      PROVE  IsBytes(tk \o r.out) /\ Len(tk \o r.out) = PktBytes * base + x.rb.notch + n
  <2> DEFINE more == Bytes(x, n)
  <2>1. more = [k \in 1 .. n |-> <<base + 1, x.rb.notch + k>>]
    BY <1>4, <1>5, Zenon DEF Bytes
  <2>2. x.rb.notch \in Nat
    BY <1>0, <1>1
  <2> HIDE DEF more
  <2>3. /\ IsBytes((tk \o x.out) \o more)
        /\ Len((tk \o x.out) \o more) = PktBytes * base + x.rb.notch + n
    <3> DEFINE t == tk \o x.out
               notch == x.rb.notch
    <3>1. IsBytes(t) /\ Len(t) = PktBytes * base + notch /\ base \in Nat
      BY <1>1
    <3>2. more = BytesOf(base + 1, notch, n)
      BY <2>1 DEF BytesOf
    <3>3. notch \in Nat /\ notch + n <= PktBytes /\ n \in Nat
      BY <1>5, <2>2
    <3> HIDE DEF t, notch
    <3>4. /\ IsBytes(t \o BytesOf(base + 1, notch, n))
          /\ Len(t \o BytesOf(base + 1, notch, n)) = PktBytes * base + notch + n
      BY <3>1, <3>3, BytesFollow
    <3> QED BY <3>2, <3>4 DEF t, notch
  <2>4. more \in Seq(Values \X Int)
    <3>1. \A k \in 1 .. n : <<base + 1, x.rb.notch + k>> \in Values \X Int
      BY <1>1, <2>2 DEF Values
    <3>2. more \in [1 .. n -> Values \X Int]
      BY <2>1, <3>1
    <3> QED BY <3>2, SeqDef
  <2>5. (tk \o x.out) \o more = tk \o (x.out \o more)
    <3> DEFINE S == Values \X Int
               o == x.out
    <3>1. tk \in Seq(S) /\ o \in Seq(S) /\ more \in Seq(S)
      BY <1>0, <2>4
    <3> HIDE DEF S, o
    <3>2. (tk \o o) \o more = tk \o (o \o more)
      BY <3>1, ConcatAssociative
    <3> QED BY <3>2 DEF o
  <2> QED BY <1>5, <2>3, <2>5 DEF more
<1>6. CASE /\ p # x.rb.ack /\ x.rs >= RestOf(x)
           /\ r.rs = x.rs - RestOf(x) /\ r.out = x.out \o Bytes(x, RestOf(x))
           /\ r.rb.slot = [x.rb.slot EXCEPT ![p] = NoUnit]
           /\ r.rb.start = NextPos(p) /\ r.rb.ack = x.rb.ack /\ r.rb.notch = 0
           /\ r.uq.pkt = [x.uq.pkt EXCEPT ![u] = Nothing]
  <2> DEFINE n == RestOf(x)
             s2 == getRcvDataSize(r.rb)
  <2>1. n \in Nat /\ x.rb.notch + n = PktBytes
    BY <1>0, <1>1 DEF RestOf
  <2> HIDE DEF n
  <2>2. IsBytes(tk \o r.out) /\ Len(tk \o r.out) = PktBytes * base + x.rb.notch + n
    <3>1. p # x.rb.ack /\ r.out = x.out \o Bytes(x, n)
      BY <1>6 DEF n
    <3>2. x.rb.notch + n <= PktBytes /\ n \in Nat
      BY <1>0, <2>1
    <3> QED BY <1>5, <3>1, <3>2
  <2>3. r.rb.start = At(x.rb, 1)
    BY <1>6 DEF NextPos, At
  <2>4. s2 = size - 1
    <3>1. 1 \in 0 .. RcvSlots - 1
      BY <1>0
    <3>2. r.rb.start = IF p + 1 < RcvSlots THEN p + 1 ELSE p + 1 - RcvSlots
      BY <1>0, <2>3, <3>1, AtIs
    <3>3. p \in 0 .. RcvSlots - 1 /\ x.rb.ack \in 0 .. RcvSlots - 1 /\ r.rb.ack = x.rb.ack
      BY <1>0, <1>6 DEF Positions
    <3>4. p # x.rb.ack /\ RcvSlots \in Nat /\ RcvSlots > 2
      BY <1>0, <1>6
    <3> DEFINE a == x.rb.ack
               q == r.rb.start
    <3>5. /\ size = IF a >= p THEN a - p ELSE RcvSlots + a - p
          /\ s2 = IF a >= q THEN a - q ELSE RcvSlots + a - q
      BY <3>3 DEF getRcvDataSize, size
    <3>6. a \in 0 .. RcvSlots - 1 /\ p \in 0 .. RcvSlots - 1 /\ p # a
          /\ q = IF p + 1 < RcvSlots THEN p + 1 ELSE p + 1 - RcvSlots
      BY <3>2, <3>3, <3>4
    <3> HIDE DEF a, p, q, s2
    <3>7. CASE p + 1 < RcvSlots
      BY <3>4, <3>5, <3>6, <3>7
    <3>8. CASE ~(p + 1 < RcvSlots)
      BY <3>4, <3>5, <3>6, <3>8
    <3> QED BY <3>7, <3>8
  <2>5. size \in Nat /\ size > 0 /\ size <= RcvSlots - 1
    BY <1>2, <1>4, <1>6
  <2>6. c - s2 = base + 1
    BY <2>4, <2>5 DEF base
  <2>7. \A k \in 0 .. RcvSlots - 1 :
          At(r.rb, k) = IF k = RcvSlots - 1 THEN p ELSE At(x.rb, k + 1)
    <3>1. 1 \in 0 .. RcvSlots - 1
      BY <1>0
    <3>2. r.rb.start = IF p + 1 < RcvSlots THEN p + 1 ELSE p + 1 - RcvSlots
      BY <1>0, <2>3, <3>1, AtIs
    <3>3. p \in 0 .. RcvSlots - 1
      BY <1>0 DEF Positions
    <3>a. RcvSlots \in Nat /\ RcvSlots > 2
      BY <1>0
    <3> DEFINE q == r.rb.start
    <3> HIDE DEF q
    <3>b. q \in 0 .. RcvSlots - 1 /\ q = IF p + 1 < RcvSlots THEN p + 1 ELSE p + 1 - RcvSlots
      BY <3>2, <3>3, <3>a DEF q
    <3> TAKE k \in 0 .. RcvSlots - 1
    <3> DEFINE z == At(r.rb, k)
    <3>4. z = IF q + k < RcvSlots THEN q + k ELSE q + k - RcvSlots
      BY <1>0, AtIs DEF q
    <3> HIDE DEF z, p
    <3>5. CASE k = RcvSlots - 1
      <4>1. z = p
        BY <3>3, <3>4, <3>5, <3>a, <3>b
      <4> QED BY <3>5, <4>1 DEF z
    <3>6. CASE k # RcvSlots - 1
      <4>1. k + 1 \in 0 .. RcvSlots - 1
        BY <1>0, <3>6
      <4> DEFINE y == At(x.rb, k + 1)
      <4>2. y = IF p + (k + 1) < RcvSlots THEN p + (k + 1) ELSE p + (k + 1) - RcvSlots
        BY <1>0, <4>1, AtIs DEF p
      <4> HIDE DEF y
      <4>3. z = y
        BY <3>3, <3>4, <3>6, <3>a, <3>b, <4>2
      <4> QED BY <3>6, <4>3 DEF z, y
    <3> QED BY <3>5, <3>6
  <2>8. \A q \in Positions : r.rb.slot[q] = IF q = p THEN NoUnit ELSE x.rb.slot[q]
    BY <1>0, <1>6
  <2>9. \A q \in Positions : q # p /\ x.rb.slot[q] # NoUnit =>
            r.uq.pkt[x.rb.slot[q]] = x.uq.pkt[x.rb.slot[q]]
    <3> TAKE q \in Positions
    <3>1. CASE q # p /\ x.rb.slot[q] # NoUnit
      <4>1. x.rb.slot[q] # u /\ x.rb.slot[q] \in AllUnits
        BY <1>0, <3>1 DEF Sound, Placed
      <4> QED BY <1>0, <1>6, <4>1
    <3> QED BY <3>1
  <2>10. ASSUME NEW k \in 0 .. RcvSlots - 1
         PROVE  /\ r.rb.slot[At(r.rb, k)] # NoUnit =>
                      k # RcvSlots - 1 /\ r.uq.pkt[r.rb.slot[At(r.rb, k)]] = base + 1 + 1 + k
                /\ k < s2 => r.rb.slot[At(r.rb, k)] # NoUnit
    <3>1. CASE k = RcvSlots - 1
      <4>1. r.rb.slot[At(r.rb, k)] = NoUnit
        BY <1>0, <2>7, <2>8, <3>1
      <4> QED BY <1>0, <2>4, <2>5, <3>1, <4>1
    <3>2. CASE k # RcvSlots - 1
      <4> DEFINE a == At(x.rb, k + 1)
      <4>1. k + 1 \in 0 .. RcvSlots - 1 /\ k + 1 # 0 /\ 0 \in 0 .. RcvSlots - 1
        BY <1>0, <3>2
      <4>2. a \in Positions /\ a # p /\ At(r.rb, k) = a
        <5>1. a \in Positions /\ a # p
          <6>1. At(x.rb, 0) = p
            BY <1>0, AtIs
          <6>2. a \in Positions /\ a # At(x.rb, 0)
            BY <1>0, <4>1, AtIs
          <6> QED BY <6>1, <6>2
        <5>2. At(r.rb, k) = a
          BY <2>7, <3>2
        <5> QED BY <5>1, <5>2
      <4>3. r.rb.slot[At(r.rb, k)] = x.rb.slot[a]
        BY <2>8, <4>2
      <4>4. k < s2 => k + 1 \in 0 .. size - 1
        BY <2>4, <2>5, <4>1
      <4>5. k < s2 => x.rb.slot[a] # NoUnit
        BY <1>1, <4>4
      <4>6. ASSUME x.rb.slot[a] # NoUnit
            PROVE  k # RcvSlots - 1 /\ r.uq.pkt[x.rb.slot[a]] = base + 1 + 1 + k
        <5>1. x.uq.pkt[x.rb.slot[a]] = base + 1 + (k + 1)
          BY <1>1, <4>1, <4>6
        <5>2. r.uq.pkt[x.rb.slot[a]] = x.uq.pkt[x.rb.slot[a]]
          BY <2>9, <4>2, <4>6
        <5>3. base + 1 + (k + 1) = base + 1 + 1 + k
          BY <1>1
        <5> QED BY <3>2, <5>1, <5>2, <5>3
      <4> HIDE DEF a
      <4> QED BY <4>3, <4>5, <4>6
    <3> QED BY <3>1, <3>2
  <2>11. PktBytes * base + x.rb.notch + n = PktBytes * (base + 1) + 0
    <3>1. PktBytes * (base + 1) = PktBytes * base + PktBytes /\ PktBytes * base \in Nat
      BY <1>0, <1>1
    <3>2. x.rb.notch \in Nat
      BY <1>0, <1>1
    <3> QED BY <1>0, <2>1, <3>1, <3>2
  <2>12. r.rs >= 0
    BY <1>0, <1>6, <2>1 DEF n
  <2>13. \A k \in 0 .. s2 - 1 : r.rb.slot[At(r.rb, k)] # NoUnit
    <3>1. \A k \in 0 .. s2 - 1 : k \in 0 .. RcvSlots - 1 /\ k < s2
      BY <1>0, <2>4, <2>5
    <3> QED BY <2>10, <3>1
  <2>14. r.rb.notch \in 0 .. PktBytes - 1 /\ r.rb.notch = 0 /\ base + 1 \in Nat
    BY <1>0, <1>1, <1>6
  <2>15. IsBytes(tk \o r.out) /\ Len(tk \o r.out) = PktBytes * (base + 1) + r.rb.notch
    BY <2>2, <2>11, <2>14
  <2> HIDE DEF s2
  <2>16. IsStream(r.rb, r.uq, c, tk \o r.out)
    BY <2>6, <2>10, <2>13, <2>14, <2>15 DEF IsStream, s2
  <2> QED BY <2>12, <2>16
<1>7. CASE /\ p # x.rb.ack /\ ~(x.rs >= RestOf(x))
           /\ r.rs = 0 /\ r.out = x.out \o Bytes(x, x.rs)
           /\ r.rb.slot = x.rb.slot /\ r.rb.start = p /\ r.rb.ack = x.rb.ack
           /\ r.rb.notch = x.rb.notch + x.rs
           /\ r.uq.pkt = x.uq.pkt
  <2>1. x.rs \in Nat /\ x.rb.notch + x.rs < PktBytes /\ x.rb.notch \in Nat
    BY <1>0, <1>1, <1>7 DEF RestOf
  <2>2. x.rb.notch + x.rs <= PktBytes
    BY <1>0, <2>1
  <2>3. IsBytes(tk \o r.out) /\ Len(tk \o r.out) = PktBytes * base + x.rb.notch + x.rs
    BY <1>5, <1>7, <2>1, <2>2
  <2>4. getRcvDataSize(r.rb) = size /\ (\A k : At(r.rb, k) = At(x.rb, k))
    BY <1>7 DEF getRcvDataSize, At, size
  <2>5. r.rb.notch \in 0 .. PktBytes - 1 /\ size # 0
    BY <1>0, <1>2, <1>4, <1>7, <2>1
  <2>6. PktBytes * base + x.rb.notch + x.rs = PktBytes * base + r.rb.notch
    <3>1. PktBytes * base \in Nat
      BY <1>0, <1>1
    <3> QED BY <1>7, <2>1, <3>1
  <2>7. \A k \in 0 .. RcvSlots - 1 :
          r.rb.slot[At(r.rb, k)] # NoUnit =>
            k # RcvSlots - 1 /\ r.uq.pkt[r.rb.slot[At(r.rb, k)]] = base + 1 + k
    BY <1>1, <1>7, <2>4
  <2>8. \A k \in 0 .. size - 1 : r.rb.slot[At(r.rb, k)] # NoUnit
    BY <1>1, <1>7, <2>4
  <2>9. Len(tk \o r.out) = PktBytes * base + r.rb.notch
    BY <2>3, <2>6
  <2>10. base \in Nat /\ r.rs >= 0
    BY <1>1, <1>7
  <2>11. c - getRcvDataSize(r.rb) = base
    BY <2>4 DEF base
  <2> HIDE DEF base, size
  <2> QED BY <2>3, <2>4, <2>5, <2>7, <2>8, <2>9, <2>10, <2>11 DEF IsStream
<1> QED BY <1>3, <1>6, <1>7 DEF ReadTurn

\* recv and recvfile read on.
LEMMA ReadBytesReadOn ==
  ASSUME NEW rb, NEW uq, Sound(rb, uq), NEW len \in Nat, NEW left \in Int,
         NEW c \in Nat, NEW tk, IsStream(rb, uq, c, tk)
  PROVE  LET st == ReadBytes(rb, uq, len, left) IN
         IsStream(st.rb, st.uq, c, tk \o st.out)
<1> DEFINE V == {x \in Streaming : /\ Sound(x.rb, x.uq) /\ x.rs >= 0
                                   /\ IsStream(x.rb, x.uq, c, tk \o x.out)}
           a == [rb |-> rb, uq |-> uq, out |-> <<>>, rs |-> len, left |-> left]
<1>1. rb \in RcvBufs /\ tk \in Seq(Values \X Int)
  BY DEF Sound, IsStream, IsBytes
<1>2. a \in V
  <2>1. <<>> \in Seq(Values \X Int)
    OBVIOUS
  <2>2. a \in Streaming
    BY <2>1 DEF Streaming, Sound, IsUnits
  <2>3. tk \o <<>> = tk
    <3> DEFINE S == Values \X Int
    <3>1. tk \in Seq(S)
      BY <1>1
    <3> HIDE DEF S
    <3> QED BY <3>1
  <2>4. IsStream(a.rb, a.uq, c, tk \o a.out) /\ Sound(a.rb, a.uq) /\ a.rs >= 0
    BY <2>3
  <2> HIDE DEF a
  <2> QED BY <2>2, <2>4
<1>3. ASSUME NEW x \in V PROVE ReadUnit(x) \in V
  <2> DEFINE r == ReadUnit(x)
  <2>1. r \in Streaming /\ Sound(r.rb, r.uq) /\ ReadTurn(x, r)
    BY ReadUnitKeeps
  <2> HIDE DEF r
  <2>2. IsStream(r.rb, r.uq, c, tk \o r.out) /\ r.rs >= 0
    BY <1>1, <2>1, StreamTurn
  <2> QED BY <2>1, <2>2 DEF r
<1>4. ReadBytes(rb, uq, len, left) \in V
  <2> HIDE DEF V
  <2> QED BY <1>1, <1>2, <1>3, ReadBytesStays
<1> QED BY <1>4

\* The positions from ack on.
LEMMA AtAck ==
  ASSUME NEW rb \in RcvBufs, NEW n \in Nat, getRcvDataSize(rb) + n <= RcvSlots - 1
  PROVE  (rb.ack + n) % RcvSlots = At(rb, getRcvDataSize(rb) + n)
<1> DEFINE a == rb.ack
           s == rb.start
           size == getRcvDataSize(rb)
           z == At(rb, size + n)
<1>0. RcvSlots \in Nat \ {0} /\ s \in 0 .. RcvSlots - 1 /\ a \in 0 .. RcvSlots - 1
  BY PositionsAre DEF RcvBufs, Positions
<1>1. size = IF a >= s THEN a - s ELSE RcvSlots + a - s
  BY DEF getRcvDataSize
<1>2. size + n \in 0 .. RcvSlots - 1
  BY <1>0, <1>1
<1>3. z = IF s + (size + n) < RcvSlots THEN s + (size + n) ELSE s + (size + n) - RcvSlots
  BY <1>2, AtIs
<1> HIDE DEF a, s, size, z
<1>4. CASE a + n < RcvSlots
  <2>1. a + n \in 0 .. RcvSlots - 1
    BY <1>0, <1>4
  <2>2. (a + n) % RcvSlots = a + n
    BY <1>0, <2>1, ModSmall
  <2>3. z = a + n
    BY <1>0, <1>1, <1>2, <1>3, <1>4
  <2> QED BY <2>2, <2>3 DEF a, size, z
<1>5. CASE ~(a + n < RcvSlots)
  <2> DEFINE x == a + n - RcvSlots
  <2>1. x \in 0 .. RcvSlots - 1 /\ a + n = x + RcvSlots
    BY <1>0, <1>1, <1>2, <1>5
  <2>2. z = x
    BY <1>0, <1>1, <1>2, <1>3, <1>5
  <2> HIDE DEF x
  <2>3. (x + RcvSlots) % RcvSlots = x
    BY <1>0, <2>1, ModSmall
  <2> QED BY <2>1, <2>2, <2>3 DEF a, size, z
<1> QED BY <1>4, <1>5

StreamInv == RbInv /\ (asStream => IsStream(rcvBuf, units, rcvBase - 1, taken))

LEMMA StreamInitially == RbInit => StreamInv
<1> SUFFICES ASSUME RbInit PROVE StreamInv
  OBVIOUS
<1>1. RbInv /\ rcvBuf \in RcvBufs
  BY RbInitially DEF RbInv, Sound
<1>2. rcvBuf = NewRcvBuf /\ rcvBase = 1 /\ taken = <<>>
  BY DEF RbInit
<1>3. getRcvDataSize(rcvBuf) = 0 /\ rcvBuf.notch = 0
  BY <1>2 DEF NewRcvBuf, getRcvDataSize
<1>4. \A p \in Positions : rcvBuf.slot[p] = NoUnit
  BY <1>2 DEF NewRcvBuf, Positions
<1>5. \A k \in 0 .. RcvSlots - 1 : rcvBuf.slot[At(rcvBuf, k)] = NoUnit
  BY <1>1, <1>4, AtIs
<1>6. IsBytes(taken) /\ Len(taken) = 0
  <2>1. taken \in Seq(Values \X Int) /\ Len(taken) = 0
    BY <1>2
  <2>2. \A i \in 1 .. Len(taken) : FALSE
    BY <2>1
  <2> QED BY <2>1, <2>2 DEF IsBytes
<1>7. PktBytes * 0 + 0 = 0 /\ PktBytes \in Nat /\ PktBytes > 0
  BY BuffersAssumption
<1>8. IsStream(rcvBuf, units, 0, taken)
  <2>1. \A k \in 0 .. 0 - 1 : FALSE
    OBVIOUS
  <2>2. 0 - 0 = 0 /\ 0 \in 0 .. PktBytes - 1
    BY <1>7
  <2> QED BY <1>3, <1>5, <1>6, <1>7, <2>1, <2>2 DEF IsStream
<1>9. rcvBase - 1 = 0
  BY <1>2
<1> QED BY <1>1, <1>8, <1>9 DEF StreamInv

\* What the stream is does not depend on the counts.
LEMMA StreamOf ==
  ASSUME NEW rb, NEW uq, NEW c, NEW tk, IsStream(rb, uq, c, tk), NEW ub, ub.pkt = uq.pkt
  PROVE  IsStream(rb, ub, c, tk)
BY DEF IsStream

\* A packet that came goes to its position.
LEMMA StreamArrives ==
  ASSUME StreamInv, NEW offset \in 0 .. RcvSlots - 1, NEW lost \in BOOLEAN,
         RbArrives(offset, lost), asStream
  PROVE  IsStream(rcvBuf', units', rcvBase' - 1, taken')
<1> DEFINE r == getNextAvailUnit(units)
           p == (rcvBuf.ack + offset) % RcvSlots
           taker == /\ r.unit # NoUnit
                    /\ offset < getAvailBufSize(rcvBuf)
                    /\ rcvBuf.slot[p] = NoUnit
           q == r.uq
           v == r.unit
           size == getRcvDataSize(rcvBuf)
           c == rcvBase - 1
           base == c - size
<1>1. /\ RbInv /\ IsStream(rcvBuf, units, c, taken) /\ rcvBase' = rcvBase /\ taken' = taken
      /\ rcvBase \in Nat
  BY DEF StreamInv, RbInv, RbArrives
<1>2. /\ rcvBuf \in RcvBufs /\ IsUnits(units) /\ Placed(rcvBuf.slot, units.flag)
      /\ offset \in Nat /\ RcvSlots \in Nat /\ size \in 0 .. RcvSlots - 1
      /\ rcvBuf.slot \in [Positions -> AllUnits \cup {NoUnit}]
  BY <1>1, PositionsAre, DataSizeIs DEF RbInv, Sound, RcvBufs
<1>3. /\ q.pkt = units.pkt /\ q \in UnitQs
      /\ v # NoUnit => v \in AllUnits /\ units.flag[v] = 0
  BY <1>2, AskedFor DEF IsUnits
<1>4. CASE ~taker
  <2>1. units' = q /\ rcvBuf' = rcvBuf
    BY <1>4 DEF RbArrives
  <2> HIDE DEF q
  <2> QED BY <1>1, <1>3, <2>1, StreamOf
<1>5. CASE taker
  <2>1. /\ rcvBuf' = [rcvBuf EXCEPT !.slot[p] = v, !.max = IF offset > @ THEN offset ELSE @]
        /\ units' = [q EXCEPT !.flag[v] = 1, !.pkt[v] = rcvBase + offset,
                              !.count = CountTo(@, @ + 1, lost)]
        /\ v # NoUnit /\ rcvBuf.slot[p] = NoUnit /\ offset < getAvailBufSize(rcvBuf)
    BY <1>5 DEF RbArrives
  <2> HIDE DEF taker, v, q, size
  <2>2. size + offset \in 0 .. RcvSlots - 1 /\ size + offset # RcvSlots - 1
    <3>1. offset < RcvSlots - size - 1
      BY <2>1 DEF getAvailBufSize, size
    <3> QED BY <1>2, <3>1
  <2>3. p = At(rcvBuf, size + offset)
    <3>1. size + offset <= RcvSlots - 1
      BY <1>2, <2>2
    <3> QED BY <1>2, <3>1, AtAck DEF size
  <2>4. p \in Positions /\ \A k \in 0 .. RcvSlots - 1 : At(rcvBuf, k) = p => k = size + offset
    BY <1>2, <2>2, <2>3, AtIs
  <2> HIDE DEF p
  <2>5. /\ rcvBuf'.slot = [rcvBuf.slot EXCEPT ![p] = v] /\ rcvBuf'.start = rcvBuf.start
        /\ rcvBuf'.ack = rcvBuf.ack /\ rcvBuf'.notch = rcvBuf.notch
    BY <1>2, <2>1 DEF RcvBufs
  <2>6. units'.pkt = [units.pkt EXCEPT ![v] = rcvBase + offset]
    BY <1>3, <2>1 DEF UnitQs
  <2>7. units.pkt \in [AllUnits -> Int] /\ v \in AllUnits /\ units.flag[v] = 0
    BY <1>2, <1>3, <2>1 DEF IsUnits, UnitQs
  <2>8. getRcvDataSize(rcvBuf') = size /\ \A k : At(rcvBuf', k) = At(rcvBuf, k)
    BY <2>5 DEF getRcvDataSize, At, size
  <2>9. /\ base \in Nat
        /\ \A k \in 0 .. RcvSlots - 1 : rcvBuf.slot[At(rcvBuf, k)] # NoUnit =>
               k # RcvSlots - 1 /\ units.pkt[rcvBuf.slot[At(rcvBuf, k)]] = base + 1 + k
        /\ \A k \in 0 .. size - 1 : rcvBuf.slot[At(rcvBuf, k)] # NoUnit
        /\ IsBytes(taken) /\ Len(taken) = PktBytes * base + rcvBuf.notch
        /\ rcvBuf.notch \in 0 .. PktBytes - 1 /\ (size = 0 => rcvBuf.notch = 0)
    BY <1>1 DEF IsStream, size
  <2>10. ASSUME NEW k \in 0 .. RcvSlots - 1
         PROVE  /\ rcvBuf'.slot[At(rcvBuf, k)] # NoUnit =>
                      k # RcvSlots - 1 /\ units'.pkt[rcvBuf'.slot[At(rcvBuf, k)]] = base + 1 + k
                /\ rcvBuf.slot[At(rcvBuf, k)] # NoUnit => rcvBuf'.slot[At(rcvBuf, k)] # NoUnit
    <3> DEFINE a == At(rcvBuf, k)
    <3>1. a \in Positions
      BY <1>2, AtIs
    <3>2. CASE a = p
      <4>1. k = size + offset
        BY <2>4, <3>2
      <4>2. rcvBase + offset = base + 1 + k
        BY <1>1, <1>2, <4>1
      <4>3. rcvBuf'.slot[a] = v /\ units'.pkt[v] = rcvBase + offset
        BY <1>2, <2>4, <2>5, <2>6, <2>7, <3>2
      <4> HIDE DEF a, base
      <4> QED BY <2>1, <2>2, <4>1, <4>2, <4>3 DEF a
    <3>3. CASE a # p
      <4>1. rcvBuf'.slot[a] = rcvBuf.slot[a]
        BY <1>2, <2>4, <2>5, <3>1, <3>3
      <4>2. CASE rcvBuf.slot[a] # NoUnit
        <5>1. rcvBuf.slot[a] \in AllUnits /\ units.flag[rcvBuf.slot[a]] # 0
          BY <1>2, <3>1, <4>2 DEF Placed
        <5>2. rcvBuf.slot[a] # v
          BY <2>7, <5>1
        <5>3. units'.pkt[rcvBuf.slot[a]] = units.pkt[rcvBuf.slot[a]]
          BY <2>6, <2>7, <5>1, <5>2
        <5> HIDE DEF base
        <5>4. k # RcvSlots - 1 /\ units.pkt[rcvBuf.slot[a]] = base + 1 + k
          BY <2>9, <4>2
        <5> HIDE DEF a
        <5> QED BY <4>1, <4>2, <5>3, <5>4 DEF a
      <4> QED BY <4>1, <4>2
    <3> QED BY <3>2, <3>3
  <2> HIDE DEF base
  <2>11. \A k \in 0 .. size - 1 : rcvBuf'.slot[At(rcvBuf, k)] # NoUnit
    <3>1. \A k \in 0 .. size - 1 : k \in 0 .. RcvSlots - 1
      BY <1>2
    <3> QED BY <2>9, <2>10, <3>1
  <2>12. c - getRcvDataSize(rcvBuf') = base
    BY <2>8 DEF base
  <2> HIDE DEF c
  <2>13. IsStream(rcvBuf', units', c, taken)
    BY <2>5, <2>8, <2>9, <2>10, <2>11, <2>12 DEF IsStream
  <2> QED BY <1>1, <2>13 DEF c
<1> QED BY <1>4, <1>5

\* The packets in a row from ack on are acknowledged.
LEMMA StreamAck ==
  ASSUME StreamInv, RbAck, asStream
  PROVE  IsStream(rcvBuf', units', rcvBase' - 1, taken')
<1> DEFINE n == Ready(rcvBuf)
           size == getRcvDataSize(rcvBuf)
           c == rcvBase - 1
           base == c - size
<1>1. /\ rcvBuf \in RcvBufs /\ IsStream(rcvBuf, units, c, taken) /\ rcvBase \in Nat
      /\ rcvBuf' = Acked(rcvBuf, n) /\ rcvBase' = rcvBase + n /\ units' = units /\ taken' = taken
  BY DEF StreamInv, RbInv, Sound, RbAck
<1>2. /\ n \in 0 .. RcvSlots - 1 /\ size \in 0 .. RcvSlots - 1 /\ RcvSlots \in Nat
      /\ \A k \in 0 .. n - 1 : rcvBuf.slot[(rcvBuf.ack + k) % RcvSlots] # NoUnit
  BY <1>1, ReadyIs, DataSizeIs, PositionsAre
<1>3. /\ base \in Nat
      /\ \A k \in 0 .. RcvSlots - 1 : rcvBuf.slot[At(rcvBuf, k)] # NoUnit =>
             k # RcvSlots - 1 /\ units.pkt[rcvBuf.slot[At(rcvBuf, k)]] = base + 1 + k
      /\ \A k \in 0 .. size - 1 : rcvBuf.slot[At(rcvBuf, k)] # NoUnit
      /\ IsBytes(taken) /\ Len(taken) = PktBytes * base + rcvBuf.notch
      /\ rcvBuf.notch \in 0 .. PktBytes - 1 /\ (size = 0 => rcvBuf.notch = 0)
  BY <1>1 DEF IsStream
<1> HIDE DEF n, size, base
<1>4. \A k \in 0 .. n - 1 : size + k <= RcvSlots - 1 => rcvBuf.slot[At(rcvBuf, size + k)] # NoUnit
  <2> TAKE k \in 0 .. n - 1
  <2>1. k \in Nat
    BY <1>2
  <2> QED BY <1>1, <1>2, <2>1, AtAck DEF size
<1>5. size + n <= RcvSlots - 1
  <2>1. CASE size + n > RcvSlots - 1
    <3> DEFINE k == RcvSlots - 1 - size
    <3>1. k \in 0 .. n - 1 /\ size + k = RcvSlots - 1 /\ RcvSlots - 1 \in 0 .. RcvSlots - 1
      BY <1>2, <2>1
    <3> HIDE DEF k
    <3>2. rcvBuf.slot[At(rcvBuf, size + k)] # NoUnit
      BY <1>2, <1>4, <3>1
    <3>3. rcvBuf.slot[At(rcvBuf, RcvSlots - 1)] # NoUnit
      BY <3>1, <3>2
    <3> QED BY <1>3, <3>1, <3>3
  <2> QED BY <1>2, <2>1
<1>6. /\ rcvBuf'.slot = rcvBuf.slot /\ rcvBuf'.start = rcvBuf.start
      /\ rcvBuf'.notch = rcvBuf.notch /\ rcvBuf'.ack = (rcvBuf.ack + n) % RcvSlots
  BY <1>1 DEF Acked, RcvBufs
<1>7. rcvBuf'.ack = At(rcvBuf, size + n)
  <2>1. n \in Nat
    BY <1>2
  <2> QED BY <1>1, <1>5, <1>6, <2>1, AtAck DEF size
<1>8. getRcvDataSize(rcvBuf') = size + n
  <2> DEFINE s == rcvBuf.start
             a == rcvBuf'.ack
  <2>1. size + n \in 0 .. RcvSlots - 1
    BY <1>2, <1>5
  <2>2. a = IF s + (size + n) < RcvSlots THEN s + (size + n) ELSE s + (size + n) - RcvSlots
    BY <1>1, <1>7, <2>1, AtIs
  <2>3. s \in 0 .. RcvSlots - 1
    BY <1>1 DEF RcvBufs, Positions
  <2>4. getRcvDataSize(rcvBuf') = IF a >= s THEN a - s ELSE RcvSlots + a - s
    BY <1>6 DEF getRcvDataSize
  <2> DEFINE m == size + n
  <2> HIDE DEF s, a, m
  <2>5. m \in 0 .. RcvSlots - 1 /\ a = IF s + m < RcvSlots THEN s + m ELSE s + m - RcvSlots
    BY <2>1, <2>2 DEF m
  <2>6. (IF a >= s THEN a - s ELSE RcvSlots + a - s) = m
    BY <1>2, <2>3, <2>5
  <2> QED BY <2>4, <2>6 DEF m
<1>9. \A k : At(rcvBuf', k) = At(rcvBuf, k)
  BY <1>6 DEF At
<1>10. (c + n) - (size + n) = base /\ rcvBase' - 1 = c + n
  BY <1>1, <1>2 DEF base
<1>11. \A k \in 0 .. (size + n) - 1 : rcvBuf.slot[At(rcvBuf, k)] # NoUnit
  <2> TAKE k \in 0 .. (size + n) - 1
  <2>1. CASE k < size
    <3>1. k \in 0 .. size - 1
      BY <1>2, <2>1
    <3> QED BY <1>3, <3>1
  <2>2. CASE ~(k < size)
    <3> DEFINE j == k - size
    <3>1. j \in 0 .. n - 1 /\ size + j = k /\ size + j <= RcvSlots - 1
      BY <1>2, <1>5, <2>2
    <3> HIDE DEF j
    <3>2. rcvBuf.slot[At(rcvBuf, size + j)] # NoUnit
      BY <1>4, <3>1
    <3> QED BY <3>1, <3>2
  <2> QED BY <2>1, <2>2
<1>12. size + n = 0 => rcvBuf.notch = 0
  BY <1>2, <1>3
<1> DEFINE d == c + n
           z == size + n
<1>13. d - z = base /\ (z = 0 => rcvBuf.notch = 0) /\ getRcvDataSize(rcvBuf') = z
       /\ \A k \in 0 .. z - 1 : rcvBuf.slot[At(rcvBuf, k)] # NoUnit
  BY <1>8, <1>10, <1>11, <1>12
<1> HIDE DEF d, z, c
<1>14. IsStream(rcvBuf', units', d, taken')
  BY <1>1, <1>3, <1>6, <1>9, <1>13 DEF IsStream
<1> QED BY <1>10, <1>14 DEF d

LEMMA StreamIsReadOn ==
  ASSUME StreamInv, NEW len \in Nat, NEW left \in Int, NEW lost \in BOOLEAN,
         RbReadStream(len, left, lost)
  PROVE  IsStream(rcvBuf', units', rcvBase' - 1, taken')
<1> DEFINE st == ReadBytes(rcvBuf, units, len, left)
           gone == lost /\ st.uq.count # units.count
           c == rcvBase - 1
<1>1. /\ rcvBuf' = st.rb /\ units' = [st.uq EXCEPT !.count = CountTo(@ + 1, @, gone)]
      /\ taken' = taken \o st.out /\ rcvBase' = rcvBase /\ asStream
  BY DEF RbReadStream
<1>2. IsStream(rcvBuf, units, c, taken) /\ Sound(rcvBuf, units)
  BY <1>1 DEF StreamInv, RbInv
<1>3. c \in Nat
  <2>1. rcvBuf \in RcvBufs /\ rcvBase \in Nat
    BY DEF StreamInv, RbInv, Sound
  <2>2. getRcvDataSize(rcvBuf) \in 0 .. RcvSlots - 1 /\ RcvSlots \in Nat
    BY <2>1, DataSizeIs, PositionsAre
  <2>3. c - getRcvDataSize(rcvBuf) \in Nat
    BY <1>2 DEF IsStream
  <2> QED BY <2>1, <2>2, <2>3
<1> HIDE DEF c
<1>4. IsStream(st.rb, st.uq, c, taken \o st.out)
  BY <1>2, <1>3, ReadBytesReadOn
<1>5. st.uq \in UnitQs
  BY <1>2, ReadBytesKeeps DEF Streaming
<1> HIDE DEF st, gone
<1>6. units'.pkt = st.uq.pkt
  BY <1>1, <1>5 DEF UnitQs
<1>7. IsStream(rcvBuf', units', c, taken')
  BY <1>1, <1>4, <1>6, StreamOf
<1> QED BY <1>1, <1>7 DEF c

LEMMA StreamInvIsInductive == StreamInv /\ [RbStep]_rbVars => StreamInv'
<1> SUFFICES ASSUME StreamInv, [RbStep]_rbVars PROVE StreamInv'
  OBVIOUS
<1>1. RbInv'
  BY RbInvIsInductive DEF StreamInv
<1>2. CASE UNCHANGED rbVars
  BY <1>1, <1>2 DEF rbVars, StreamInv
<1>3. ASSUME NEW offset \in 0 .. RcvSlots - 1, NEW lost \in BOOLEAN, RbArrives(offset, lost)
      PROVE  StreamInv'
  <2>1. asStream' = asStream
    BY <1>3 DEF RbArrives
  <2> QED BY <1>1, <1>3, <2>1, StreamArrives DEF StreamInv
<1>4. CASE RbAck
  <2>1. asStream' = asStream
    BY <1>4 DEF RbAck
  <2> QED BY <1>1, <1>4, <2>1, StreamAck DEF StreamInv
<1>5. ASSUME NEW len \in 1 .. MaxRead, NEW left \in {1, RcvSlots}, NEW lost \in BOOLEAN,
             RbReadStream(len, left, lost)
      PROVE  StreamInv'
  <2>1. len \in Nat /\ left \in Int
    BY BuffersAssumption
  <2> QED BY <1>1, <1>5, <2>1, StreamIsReadOn DEF StreamInv
<1>6. ASSUME NEW lost \in BOOLEAN, RbReadMsg(lost) PROVE StreamInv'
  BY <1>1, <1>6 DEF RbReadMsg, StreamInv
<1> QED BY <1>2, <1>3, <1>4, <1>5, <1>6 DEF RbStep

LEMMA StreamInvIsRead == StreamInv => StreamIsRead
<1> SUFFICES ASSUME StreamInv, asStream
             PROVE  /\ taken = [i \in 1 .. Len(taken) |->
                                  <<((i - 1) \div PktBytes) + 1, ((i - 1) % PktBytes) + 1>>]
                    /\ Len(taken) = PktBytes * (rcvBase - 1 - getRcvDataSize(rcvBuf)) + rcvBuf.notch
  BY DEF StreamIsRead
<1> DEFINE Byte(i) == <<((i - 1) \div PktBytes) + 1, ((i - 1) % PktBytes) + 1>>
<1>1. IsStream(rcvBuf, units, rcvBase - 1, taken)
  BY DEF StreamInv
<1>2. Len(taken) = PktBytes * (rcvBase - 1 - getRcvDataSize(rcvBuf)) + rcvBuf.notch
  BY <1>1 DEF IsStream
<1>3. taken \in Seq(Values \X Int) /\ \A i \in 1 .. Len(taken) : taken[i] = Byte(i)
  BY <1>1 DEF IsStream, IsBytes
<1>4. taken = [i \in 1 .. Len(taken) |-> taken[i]]
  BY <1>3
<1> HIDE DEF Byte
<1>5. taken = [i \in 1 .. Len(taken) |-> Byte(i)]
  BY <1>3, <1>4
<1> QED BY <1>2, <1>5 DEF Byte

\* A stream socket reads the stream, every byte once and in order, for any
\* length of packets, buffer and reads: the buffer holds the packets behind
\* what was read, each at the position its number says.
THEOREM StreamIsAlwaysRead == RbSpec => []StreamIsRead
<1>1. RbInit => StreamInv
  BY StreamInitially
<1>2. StreamInv /\ [RbStep]_rbVars => StreamInv'
  BY StreamInvIsInductive
<1>3. StreamInv => StreamIsRead
  BY StreamInvIsRead
<1> QED BY <1>1, <1>2, <1>3, PTL DEF RbSpec

-----------------------------------------------------------------------------
(* Messages.                                                               *)

Packets == 1 .. Len(Messages)
Msg(s) == Messages[s][1]

LEMMA PacketsAre ==
  /\ Len(Messages) \in Nat /\ DOMAIN Messages = Packets
  /\ \A s \in Packets : Msg(s) \in Int
  /\ \A s, t \in Packets :
       /\ s < t => Msg(s) <= Msg(t)
       /\ t = s + 1 => /\ Messages[t][2] <=> Msg(s) # Msg(t)
                       /\ Messages[s][3] <=> Msg(s) # Msg(t)
       /\ Msg(s) = Msg(t) => Messages[s][4] = Messages[t][4]
  /\ Len(Messages) > 0 => Messages[1][2]
<1>1. Messages \in Seq(Int \X BOOLEAN \X BOOLEAN \X BOOLEAN)
  BY MessagesAssumption
<1>2. Len(Messages) \in Nat /\ DOMAIN Messages = Packets
  BY <1>1, LenProperties DEF Packets
<1>3. \A s \in Packets : Messages[s] \in Int \X BOOLEAN \X BOOLEAN \X BOOLEAN
  BY <1>1, ElementOfSeq DEF Packets
<1>4. \A s \in Packets : Msg(s) \in Int
  BY <1>3 DEF Msg
<1>5. \A s, t \in Packets :
       /\ s < t => Msg(s) <= Msg(t)
       /\ t = s + 1 => /\ Messages[t][2] <=> Msg(s) # Msg(t)
                       /\ Messages[s][3] <=> Msg(s) # Msg(t)
       /\ Msg(s) = Msg(t) => Messages[s][4] = Messages[t][4]
  BY <1>2, MessagesAssumption DEF Msg
<1>6. Len(Messages) > 0 => Messages[1][2]
  <2>1. Messages = <<>> => Len(Messages) = 0
    OBVIOUS
  <2> QED BY <2>1, MessagesAssumption
<1> QED BY <1>2, <1>4, <1>5, <1>6

LEMMA MsgRises ==
  ASSUME NEW s \in Packets, NEW t \in Packets, s < t
  PROVE  Msg(s) <= Msg(t)
<1> QED BY PacketsAre

\* Up to the next first packet there is one message.
LEMMA SameMessage ==
  ASSUME NEW a \in Packets, NEW b \in Packets, a <= b,
         \A s \in Packets : a < s /\ s <= b => ~Messages[s][2]
  PROVE  \A s \in Packets : a <= s /\ s <= b => Msg(s) = Msg(a)
<1> DEFINE T == {s \in Packets : a <= s /\ s <= b /\ Msg(s) # Msg(a)}
<1>1. SUFFICES ASSUME T # {} PROVE FALSE
  OBVIOUS
<1>2. T \subseteq Nat
  BY DEF Packets
<1>3. PICK s \in T : \A t \in T : s <= t
  <2> HIDE DEF T
  <2> QED BY <1>1, <1>2, LeastIn
<1>4. s \in Packets /\ a < s /\ s <= b /\ Msg(s) # Msg(a) /\ a \in Nat /\ s \in Nat
  BY <1>3 DEF Packets
<1>5. s - 1 \in Packets /\ a <= s - 1 /\ s - 1 <= b /\ s - 1 < s /\ (s - 1) + 1 = s
  BY <1>4 DEF Packets
<1>6. Msg(s - 1) = Msg(a)
  <2>1. s - 1 \notin T
    BY <1>3, <1>4, <1>5
  <2> QED BY <1>5, <2>1
<1>7. Msg(s - 1) = Msg(s)
  BY <1>4, <1>5, PacketsAre
<1> QED BY <1>4, <1>6, <1>7

\* The packets a to b are all of a message.
IsWhole(a, b) ==
  /\ a \in Packets /\ b \in Packets /\ a <= b
  /\ \A s \in Packets : Msg(s) = Msg(a) <=> a <= s /\ s <= b

LEMMA WholeMessage ==
  ASSUME NEW a \in Packets, NEW b \in Packets, a <= b, Messages[a][2], Messages[b][3],
         \A s \in Packets : a < s /\ s <= b => ~Messages[s][2]
  PROVE  IsWhole(a, b)
<1>1. \A s \in Packets : a <= s /\ s <= b => Msg(s) = Msg(a)
  BY SameMessage
<1>2. \A s \in Packets : Msg(s) \in Int /\ s \in Nat
  BY PacketsAre DEF Packets
<1>3. Msg(b) = Msg(a)
  BY <1>1, <1>2
<1>4. ASSUME NEW s \in Packets, s < a PROVE Msg(s) # Msg(a)
  <2>1. a - 1 \in Packets /\ s <= a - 1 /\ (a - 1) + 1 = a
    BY <1>2, <1>4 DEF Packets
  <2>2. Msg(a - 1) # Msg(a) /\ Msg(a - 1) <= Msg(a)
    <3>1. Messages[a][2] <=> Msg(a - 1) # Msg(a)
      BY <2>1, PacketsAre
    <3>2. a - 1 < a
      BY <1>2
    <3> QED BY <2>1, <3>1, <3>2, MsgRises
  <2>3. Msg(s) <= Msg(a - 1)
    <3>1. s = a - 1 \/ s < a - 1
      BY <1>2, <2>1
    <3> QED BY <1>2, <2>1, <3>1, MsgRises
  <2> QED BY <1>2, <2>1, <2>2, <2>3
<1>5. ASSUME NEW s \in Packets, s > b PROVE Msg(s) # Msg(a)
  <2>1. b + 1 \in Packets /\ b + 1 <= s
    BY <1>2, <1>5 DEF Packets
  <2> DEFINE t == b + 1
  <2>2. t \in Packets /\ t = b + 1 /\ b < t
    BY <1>2, <2>1
  <2> HIDE DEF t
  <2>3. Msg(b) # Msg(t) /\ Msg(b) <= Msg(t)
    BY <2>2, PacketsAre
  <2>4. Msg(t) <= Msg(s)
    BY <1>2, <2>1, <2>2, PacketsAre
  <2> QED BY <1>2, <1>3, <2>2, <2>3, <2>4
<1> QED BY <1>1, <1>2, <1>4, <1>5 DEF IsWhole

\* The slot k places behind the one to be read next is empty or holds the packet
\* of its place, marked when its message was read already, one of done.
Waits(rb, uq, base, done, k) ==
  rb.slot[At(rb, k)] # NoUnit =>
    /\ k # RcvSlots - 1 /\ base + 1 + k \in Packets
    /\ uq.pkt[rb.slot[At(rb, k)]] = base + 1 + k
    /\ uq.flag[rb.slot[At(rb, k)]] = IF Msg(base + 1 + k) \in done THEN 2 ELSE 1

\* Of c packets acknowledged the buffer holds the last ones, and behind them
\* what came out of order; the messages of done were read.
IsMessages(rb, uq, c, done) ==
  LET size == getRcvDataSize(rb)
      base == c - size
  IN /\ base \in 0 .. Len(Messages)
     /\ size + rb.max <= RcvSlots - 1
     /\ \A k \in 0 .. RcvSlots - 1 : Waits(rb, uq, base, done, k)
     /\ \A k \in 0 .. size - 1 : rb.slot[At(rb, k)] # NoUnit
     /\ \A s \in Packets : s <= base => Msg(s) \in done
     /\ \A s \in Packets : s > base /\ Msg(s) \in done =>
          s - base - 1 <= RcvSlots - 1 /\ rb.slot[At(rb, s - base - 1)] # NoUnit

\* Those to be delivered in order were not read ahead.
LeftBehind(rb, c, done) ==
  \A s \in Packets : Messages[s][4] /\ Msg(s) \in done => s <= c - getRcvDataSize(rb)

\* The start moves d places on.
LEMMA StartAhead ==
  ASSUME NEW rb \in RcvBufs, NEW d \in 0 .. getRcvDataSize(rb),
         NEW b \in RcvBufs, b.start = At(rb, d), b.ack = rb.ack
  PROVE  /\ getRcvDataSize(b) = getRcvDataSize(rb) - d
         /\ \A k \in 0 .. RcvSlots - 1 :
              At(b, k) = IF k + d < RcvSlots THEN At(rb, k + d) ELSE At(rb, k + d - RcvSlots)
<1> DEFINE size == getRcvDataSize(rb)
           p == rb.start
           q == b.start
           a == rb.ack
           N == RcvSlots
<1>1. N \in Nat /\ N > 2 /\ p \in 0 .. N - 1 /\ a \in 0 .. N - 1 /\ size \in 0 .. N - 1
  BY PositionsAre, AtIs DEF RcvBufs, Positions
<1>2. q = IF p + d < N THEN p + d ELSE p + d - N
  <2>1. d \in 0 .. N - 1
    BY <1>1
  <2> QED BY <2>1, AtIs
<1>3. size = IF a >= p THEN a - p ELSE N + a - p
  BY DEF getRcvDataSize
<1>4. getRcvDataSize(b) = IF a >= q THEN a - q ELSE N + a - q
  BY DEF getRcvDataSize
<1> HIDE DEF a
<1>5. d \in Nat /\ d <= size
  BY <1>1
<1> HIDE DEF p, q, size
<1>6. getRcvDataSize(b) = size - d
  <2>1. CASE p + d < N
    BY <1>1, <1>2, <1>3, <1>4, <1>5, <2>1
  <2>2. CASE ~(p + d < N)
    BY <1>1, <1>2, <1>3, <1>4, <1>5, <2>2
  <2> QED BY <2>1, <2>2
<1>7. ASSUME NEW k \in 0 .. N - 1
      PROVE  At(b, k) = IF k + d < N THEN At(rb, k + d) ELSE At(rb, k + d - N)
  <2>1. At(b, k) = IF q + k < N THEN q + k ELSE q + k - N
    BY AtIs DEF q
  <2>2. CASE k + d < N
    <3> DEFINE j == k + d
    <3>1. j \in 0 .. N - 1
      BY <1>1, <1>5, <2>2
    <3>2. At(rb, j) = IF p + j < N THEN p + j ELSE p + j - N
      <4> HIDE DEF j
      <4> QED BY <3>1, AtIs DEF p
    <3>3. At(b, k) = At(rb, j)
      BY <1>1, <1>2, <1>5, <2>1, <2>2, <3>1, <3>2
    <3> QED BY <2>2, <3>3
  <2>3. CASE ~(k + d < N)
    <3> DEFINE j == k + d - N
    <3>1. j \in 0 .. N - 1
      BY <1>1, <1>5, <2>3
    <3>2. At(rb, j) = IF p + j < N THEN p + j ELSE p + j - N
      <4> HIDE DEF j
      <4> QED BY <3>1, AtIs DEF p
    <3>3. At(b, k) = At(rb, j)
      BY <1>1, <1>2, <1>5, <2>1, <2>3, <3>1, <3>2
    <3> QED BY <2>3, <3>3
  <2> QED BY <2>2, <2>3
<1> QED BY <1>6, <1>7 DEF size

\* The first d slots of rb are gone in b, and the units in the others, those of
\* uq in ub, are as they were.
Dropped(rb, uq, b, ub, d) ==
  /\ b.start = At(rb, d) /\ b.ack = rb.ack /\ b.max = rb.max
  /\ \A k \in 0 .. RcvSlots - 1 :
       b.slot[At(rb, k)] = IF k < d THEN NoUnit ELSE rb.slot[At(rb, k)]
  /\ \A k \in 0 .. RcvSlots - 1 : k >= d /\ rb.slot[At(rb, k)] # NoUnit =>
       /\ ub.pkt[rb.slot[At(rb, k)]] = uq.pkt[rb.slot[At(rb, k)]]
       /\ ub.flag[rb.slot[At(rb, k)]] = uq.flag[rb.slot[At(rb, k)]]

\* The packets of the first d slots, the ones after base, were read.
WereRead(done, base, d) ==
  \A k \in 0 .. RcvSlots - 1 : k < d => Msg(base + 1 + k) \in done

\* What was read may go.
LEMMA DropKeeps ==
  ASSUME NEW rb \in RcvBufs, NEW uq, NEW c \in Nat, NEW done, IsMessages(rb, uq, c, done),
         NEW d \in 0 .. getRcvDataSize(rb), NEW b \in RcvBufs, NEW ub, Dropped(rb, uq, b, ub, d),
         WereRead(done, c - getRcvDataSize(rb), d)
  PROVE  /\ IsMessages(b, ub, c, done) /\ getRcvDataSize(b) = getRcvDataSize(rb) - d
         /\ LeftBehind(rb, c, done) => LeftBehind(b, c, done)
<1> DEFINE size == getRcvDataSize(rb)
           base == c - size
           N == RcvSlots
           z == size - d
           low == base + d
<1>1. N \in Nat /\ N > 2 /\ size \in 0 .. N - 1 /\ d \in Nat /\ d <= size /\ rb.max \in Nat
  BY PositionsAre, AtIs DEF RcvBufs
<1>2. /\ base \in 0 .. Len(Messages) /\ size + rb.max <= N - 1
      /\ \A k \in 0 .. N - 1 : Waits(rb, uq, base, done, k)
      /\ \A k \in 0 .. size - 1 : rb.slot[At(rb, k)] # NoUnit
      /\ \A s \in Packets : s <= base => Msg(s) \in done
      /\ \A s \in Packets : s > base /\ Msg(s) \in done =>
           s - base - 1 <= N - 1 /\ rb.slot[At(rb, s - base - 1)] # NoUnit
  BY DEF IsMessages
<1>3. /\ getRcvDataSize(b) = z
      /\ \A k \in 0 .. N - 1 : At(b, k) = IF k + d < N THEN At(rb, k + d) ELSE At(rb, k + d - N)
  BY StartAhead DEF Dropped
<1>4. \A k \in 0 .. N - 1 : k < d => Msg(base + 1 + k) \in done
  BY DEF WereRead
<1>5. \A k \in 0 .. N - 1 : k < size => rb.slot[At(rb, k)] # NoUnit /\ base + 1 + k \in Packets
  <2> TAKE k \in 0 .. N - 1
  <2>1. CASE k < size
    <3>1. k \in 0 .. size - 1
      BY <1>1, <2>1
    <3>2. rb.slot[At(rb, k)] # NoUnit
      BY <1>2, <3>1
    <3>3. Waits(rb, uq, base, done, k)
      BY <1>2
    <3> QED BY <3>2, <3>3 DEF Waits
  <2> QED BY <2>1
<1>6. c - z = low
  BY <1>1
<1> HIDE DEF size, base
<1>7. base \in Nat /\ Len(Messages) \in Nat
  BY <1>2, PacketsAre
<1>8. low \in 0 .. Len(Messages)
  <2>1. CASE d = 0
    BY <1>2, <1>7, <2>1
  <2>2. CASE d # 0
    <3>1. d - 1 \in 0 .. N - 1 /\ d - 1 < size /\ base + 1 + (d - 1) = low
      BY <1>1, <1>7, <2>2
    <3> HIDE DEF low
    <3>2. low \in Packets
      BY <1>5, <3>1
    <3> QED BY <3>2 DEF Packets
  <2> QED BY <2>1, <2>2
<1>9. ASSUME NEW k \in 0 .. N - 1
      PROVE  /\ Waits(b, ub, low, done, k)
             /\ k < z => b.slot[At(b, k)] # NoUnit
  <2>1. CASE k + d < N
    <3> DEFINE j == k + d
    <3>1. j \in 0 .. N - 1 /\ j >= d /\ base + 1 + j = low + 1 + k /\ ~(j < d) /\ (k < z => j < size)
      BY <1>1, <1>7, <2>1
    <3>2. At(b, k) = At(rb, j)
      BY <1>3, <2>1
    <3>3. j # N - 1 => k # N - 1
      BY <1>1, <2>1
    <3> HIDE DEF j, low, z
    <3>4. b.slot[At(b, k)] = rb.slot[At(rb, j)]
      BY <3>1, <3>2 DEF Dropped
    <3>5. Waits(rb, uq, base, done, j)
      BY <1>2, <3>1
    <3> DEFINE u == rb.slot[At(rb, j)]
    <3>6. u # NoUnit => ub.pkt[u] = uq.pkt[u] /\ ub.flag[u] = uq.flag[u]
      BY <3>1 DEF Dropped
    <3>7. u # NoUnit => /\ j # N - 1 /\ base + 1 + j \in Packets /\ uq.pkt[u] = base + 1 + j
                        /\ uq.flag[u] = IF Msg(base + 1 + j) \in done THEN 2 ELSE 1
      BY <3>5 DEF Waits
    <3>8. k < z => u # NoUnit
      BY <1>5, <3>1
    <3>9. b.slot[At(b, k)] = u
      BY <3>4
    <3> HIDE DEF u
    <3>10. Waits(b, ub, low, done, k)
      BY <3>1, <3>3, <3>6, <3>7, <3>9 DEF Waits
    <3> QED BY <3>8, <3>9, <3>10
  <2>2. CASE ~(k + d < N)
    <3> DEFINE j == k + d - N
    <3>1. j \in 0 .. N - 1 /\ j < d /\ ~(k < z)
      BY <1>1, <2>2
    <3>2. At(b, k) = At(rb, j)
      BY <1>3, <2>2
    <3> HIDE DEF j, z
    <3>3. b.slot[At(b, k)] = NoUnit
      BY <3>1, <3>2 DEF Dropped
    <3> QED BY <3>1, <3>3 DEF Waits
  <2> QED BY <2>1, <2>2
<1>10. ASSUME NEW s \in Packets, s <= low PROVE Msg(s) \in done
  <2>1. CASE s <= base
    BY <1>2, <2>1
  <2>2. CASE ~(s <= base)
    <3> DEFINE k == s - base - 1
    <3>1. k \in 0 .. N - 1 /\ k < d /\ base + 1 + k = s
      BY <1>1, <1>7, <1>10, <2>2 DEF Packets
    <3> HIDE DEF k
    <3> QED BY <1>4, <3>1
  <2> QED BY <2>1, <2>2
<1>11. ASSUME NEW s \in Packets, s > low, Msg(s) \in done
       PROVE  s - low - 1 <= N - 1 /\ b.slot[At(b, s - low - 1)] # NoUnit
  <2> DEFINE j == s - base - 1
             k == s - low - 1
  <2>1. s > base /\ j \in Nat /\ k \in Nat /\ j = k + d /\ j >= d
    BY <1>1, <1>7, <1>11 DEF Packets
  <2>2. j <= N - 1 /\ rb.slot[At(rb, j)] # NoUnit
    BY <1>2, <1>11, <2>1
  <2>3. k \in 0 .. N - 1 /\ j \in 0 .. N - 1 /\ k + d < N /\ ~(j < d)
    BY <1>1, <2>1, <2>2
  <2> HIDE DEF j, k
  <2>4. At(b, k) = At(rb, j)
    BY <1>3, <2>1, <2>3
  <2>5. b.slot[At(rb, j)] = rb.slot[At(rb, j)]
    BY <2>3 DEF Dropped
  <2> QED BY <2>2, <2>3, <2>4, <2>5 DEF k
<1>12. z + b.max <= N - 1
  BY <1>1, <1>2 DEF Dropped
<1>13. \A k \in 0 .. z - 1 : b.slot[At(b, k)] # NoUnit
  <2>1. \A k \in 0 .. z - 1 : k \in 0 .. N - 1 /\ k < z
    BY <1>1
  <2> HIDE DEF z
  <2> QED BY <1>9, <2>1
<1>14. LeftBehind(rb, c, done) => LeftBehind(b, c, done)
  <2>1. \A s \in Packets : s <= base => s <= low
    BY <1>1, <1>7 DEF Packets
  <2> HIDE DEF low, z
  <2> QED BY <1>3, <1>6, <2>1 DEF LeftBehind, base, size
<1>15. IsMessages(b, ub, c, done)
  <2>1. \A k \in 0 .. N - 1 : Waits(b, ub, low, done, k)
    BY <1>9
  <2> HIDE DEF low, z
  <2> QED BY <1>3, <1>6, <1>8, <1>10, <1>11, <1>12, <1>13, <2>1 DEF IsMessages
<1> QED BY <1>3, <1>14, <1>15 DEF size

\* The units in the slots j to i are marked in ub.
Marked(rb, uq, ub, j, i) ==
  \A k \in 0 .. RcvSlots - 1 : rb.slot[At(rb, k)] # NoUnit =>
    /\ ub.pkt[rb.slot[At(rb, k)]] = uq.pkt[rb.slot[At(rb, k)]]
    /\ ub.flag[rb.slot[At(rb, k)]] = IF j <= k /\ k <= i THEN 2 ELSE uq.flag[rb.slot[At(rb, k)]]

\* A whole message that lies in the slots is marked as read.
LEMMA MarkKeeps ==
  ASSUME NEW rb, NEW uq, NEW c, NEW done, IsMessages(rb, uq, c, done),
         NEW j \in 0 .. RcvSlots - 1, NEW i \in 0 .. RcvSlots - 1,
         NEW base, base = c - getRcvDataSize(rb), IsWhole(base + 1 + j, base + 1 + i),
         \A k \in j .. i : rb.slot[At(rb, k)] # NoUnit, NEW ub, Marked(rb, uq, ub, j, i)
  PROVE  IsMessages(rb, ub, c, done \cup {Msg(base + 1 + j)})
<1> DEFINE size == getRcvDataSize(rb)
           m == Msg(base + 1 + j)
           more == done \cup {m}
<1>1. /\ base \in 0 .. Len(Messages) /\ size + rb.max <= RcvSlots - 1
      /\ \A k \in 0 .. RcvSlots - 1 : Waits(rb, uq, base, done, k)
      /\ \A k \in 0 .. size - 1 : rb.slot[At(rb, k)] # NoUnit
      /\ \A s \in Packets : s <= base => Msg(s) \in done
      /\ \A s \in Packets : s > base /\ Msg(s) \in done =>
           s - base - 1 <= RcvSlots - 1 /\ rb.slot[At(rb, s - base - 1)] # NoUnit
  BY DEF IsMessages
<1>2. base \in Nat /\ RcvSlots \in Nat /\ j \in Nat /\ i \in Nat /\ i <= RcvSlots - 1
  BY <1>1, PacketsAre, PositionsAre
<1>3. \A s \in Packets : Msg(s) = m <=> base + 1 + j <= s /\ s <= base + 1 + i
  BY DEF IsWhole
<1>4. base = c - size
  OBVIOUS
<1> HIDE DEF size, m
<1>5. ASSUME NEW k \in 0 .. RcvSlots - 1 PROVE Waits(rb, ub, base, more, k)
  <2> DEFINE u == rb.slot[At(rb, k)]
             s == base + 1 + k
  <2>1. u # NoUnit => /\ k # RcvSlots - 1 /\ s \in Packets /\ uq.pkt[u] = s
                      /\ uq.flag[u] = IF Msg(s) \in done THEN 2 ELSE 1
    BY <1>1 DEF Waits
  <2>2. u # NoUnit => ub.pkt[u] = uq.pkt[u] /\ ub.flag[u] = IF j <= k /\ k <= i THEN 2 ELSE uq.flag[u]
    BY DEF Marked
  <2>3. s \in Packets => (Msg(s) = m <=> j <= k /\ k <= i)
    BY <1>2, <1>3
  <2>4. SUFFICES ASSUME u # NoUnit
                 PROVE  /\ k # RcvSlots - 1 /\ s \in Packets /\ ub.pkt[u] = s
                        /\ ub.flag[u] = IF Msg(s) \in more THEN 2 ELSE 1
    BY DEF Waits
  <2> HIDE DEF u, s
  <2> QED BY <2>1, <2>2, <2>3, <2>4
<1>6. ASSUME NEW s \in Packets, s > base, Msg(s) \in more
      PROVE  s - base - 1 <= RcvSlots - 1 /\ rb.slot[At(rb, s - base - 1)] # NoUnit
  <2>1. CASE Msg(s) \in done
    BY <1>1, <1>6, <2>1
  <2>2. CASE Msg(s) = m
    <3>1. base + 1 + j <= s /\ s <= base + 1 + i /\ s \in Nat
      BY <1>3, <2>2 DEF Packets
    <3>2. s - base - 1 \in j .. i /\ s - base - 1 <= RcvSlots - 1
      BY <1>2, <3>1
    <3> QED BY <3>2
  <2> QED BY <1>6, <2>1, <2>2
<1> HIDE DEF more
<1>7. \A s \in Packets : s <= base => Msg(s) \in more
  BY <1>1 DEF more
<1>8. IsMessages(rb, ub, c, more)
  BY <1>1, <1>4, <1>5, <1>6, <1>7 DEF IsMessages, size
<1> QED BY <1>8 DEF more, m

\* What scanMsg asks of a slot.
Shows(x, base, done, k) ==
  /\ Usable(x, At(x.rb, k)) <=>
       x.rb.slot[At(x.rb, k)] # NoUnit /\ Msg(base + 1 + k) \notin done
  /\ x.rb.slot[At(x.rb, k)] # NoUnit =>
       /\ base + 1 + k \in Packets /\ k # RcvSlots - 1
       /\ x.uq.pkt[x.rb.slot[At(x.rb, k)]] = base + 1 + k
       /\ IsFirst(x, At(x.rb, k)) <=> Messages[base + 1 + k][2]
       /\ IsLast(x, At(x.rb, k)) <=> Messages[base + 1 + k][3]
       /\ InOrder(x, At(x.rb, k)) <=> Messages[base + 1 + k][4]

LEMMA UseIs ==
  ASSUME NEW x, NEW c, NEW done, IsMessages(x.rb, x.uq, c, done),
         NEW base, base = c - getRcvDataSize(x.rb), NEW k \in 0 .. RcvSlots - 1
  PROVE  Shows(x, base, done, k)
<1> DEFINE u == x.rb.slot[At(x.rb, k)]
           s == base + 1 + k
<1>1. Waits(x.rb, x.uq, base, done, k)
  BY DEF IsMessages
<1>2. u # NoUnit => /\ k # RcvSlots - 1 /\ s \in Packets /\ x.uq.pkt[u] = s
                    /\ x.uq.flag[u] = IF Msg(s) \in done THEN 2 ELSE 1
  BY <1>1 DEF Waits
<1>3. Usable(x, At(x.rb, k)) <=> u # NoUnit /\ x.uq.flag[u] = 1
  BY DEF Usable
<1> HIDE DEF s
<1>4. Usable(x, At(x.rb, k)) <=> u # NoUnit /\ Msg(s) \notin done
  BY <1>2, <1>3
<1>5. u # NoUnit => /\ IsFirst(x, At(x.rb, k)) <=> Messages[s][2]
                    /\ IsLast(x, At(x.rb, k)) <=> Messages[s][3]
                    /\ InOrder(x, At(x.rb, k)) <=> Messages[s][4]
  BY <1>2, Zenon DEF IsFirst, IsLast, InOrder
<1> QED BY <1>2, <1>4, <1>5 DEF s, Shows

\* Where the search may begin: nothing waits in order, or a whole part of a
\* message that was not read is first.
Stops(x) == x.rb.start = x.rb.ack \/ GoodFrom(x)

\* Before the end of what waits in order a part of a message that was read is
\* what scanMsg calls a bad one.
LEMMA BadIsRead ==
  ASSUME NEW x \in Messaging, NEW c, NEW done, IsMessages(x.rb, x.uq, c, done), ~Stops(x),
         NEW base, base = c - getRcvDataSize(x.rb)
  PROVE  /\ getRcvDataSize(x.rb) > 0 /\ x.rb.slot[x.rb.start] # NoUnit
         /\ base + 1 \in Packets /\ Msg(base + 1) \in done
<1> DEFINE size == getRcvDataSize(x.rb)
           a == base + 1
           N == RcvSlots
           p == x.rb.start
<1>1. x.rb \in RcvBufs /\ size \in 0 .. N - 1 /\ N \in Nat /\ N > 2
      /\ At(x.rb, 0) = p /\ At(x.rb, size) = x.rb.ack
  BY AtIs, PositionsAre DEF Messaging
<1>2. size > 0 /\ 0 \in 0 .. N - 1
  BY <1>1 DEF Stops
<1>3. /\ base \in 0 .. Len(Messages)
      /\ \A k \in 0 .. size - 1 : x.rb.slot[At(x.rb, k)] # NoUnit
      /\ \A s \in Packets : s <= base => Msg(s) \in done
  BY DEF IsMessages
<1> HIDE DEF size
<1>4. x.rb.slot[p] # NoUnit
  BY <1>1, <1>2, <1>3
<1>5. \A k \in 0 .. N - 1 :
        /\ Usable(x, At(x.rb, k)) <=>
             x.rb.slot[At(x.rb, k)] # NoUnit /\ Msg(a + k) \notin done
        /\ x.rb.slot[At(x.rb, k)] # NoUnit =>
             /\ a + k \in Packets
             /\ IsFirst(x, At(x.rb, k)) <=> Messages[a + k][2]
             /\ IsLast(x, At(x.rb, k)) <=> Messages[a + k][3]
  <2> TAKE k \in 0 .. N - 1
  <2> HIDE DEF a
  <2>1. k \in 0 .. RcvSlots - 1 /\ base + 1 + k = a + k
    BY DEF a
  <2>2. Shows(x, base, done, k)
    BY UseIs
  <2> QED BY <2>1, <2>2 DEF Shows
<1>6. a \in Packets /\ a + 0 = a /\ a \in Nat
  <2>1. base + 1 + 0 = base + 1 /\ base + 1 \in Nat
    BY <1>3, PacketsAre
  <2> QED BY <1>1, <1>2, <1>4, <1>5, <2>1
<1>7. SUFFICES ASSUME Msg(a) \notin done PROVE FALSE
  BY <1>2, <1>4, <1>6 DEF size
<1>8. Usable(x, p)
  BY <1>1, <1>2, <1>4, <1>5, <1>6, <1>7
<1>9. IsFirst(x, p)
  <2>1. Messages[a][2]
    <3>1. CASE base = 0
      <4>1. a = 1 /\ Len(Messages) > 0
        BY <1>6, <3>1, PacketsAre DEF Packets
      <4> QED BY <4>1, PacketsAre
    <3>2. CASE base # 0
      <4>1. base \in Packets /\ base <= base /\ a = base + 1
        BY <1>3, <3>2, PacketsAre DEF Packets
      <4> HIDE DEF a
      <4>2. Msg(base) \in done
        BY <1>3, <4>1
      <4>3. Msg(base) # Msg(a)
        BY <1>7, <4>2
      <4> QED BY <1>6, <4>1, <4>3, PacketsAre
    <3> QED BY <3>1, <3>2
  <2> QED BY <1>1, <1>2, <1>4, <1>5, <1>6, <2>1
<1>10. PICK k \in 0 .. size - 1 : ~Usable(x, At(x.rb, k)) /\ \A l \in 0 .. k - 1 : ~IsLast(x, At(x.rb, l))
  BY <1>8, <1>9 DEF Stops, GoodFrom, At, size
<1> DEFINE b == a + k
<1>11. k \in 0 .. N - 1 /\ k \in Nat /\ a <= b /\ b \in Nat
  BY <1>1, <1>6
<1>12. b \in Packets /\ Msg(b) \in done
  BY <1>3, <1>5, <1>10, <1>11
<1>13. ASSUME NEW s \in Packets, a < s, s <= b PROVE ~Messages[s][2]
  <2> DEFINE l == s - 1 - a
             t == s - 1
  <2>1. s \in Nat
    BY DEF Packets
  <2>2. l \in 0 .. k - 1 /\ l \in 0 .. size - 1 /\ l \in 0 .. N - 1 /\ a + l = t /\ s = t + 1
    BY <1>1, <1>6, <1>11, <1>13, <2>1
  <2> HIDE DEF l, t, a
  <2>3. ~IsLast(x, At(x.rb, l)) /\ x.rb.slot[At(x.rb, l)] # NoUnit
    BY <1>3, <1>10, <2>2
  <2>4. t \in Packets /\ ~Messages[t][3]
    BY <1>5, <2>2, <2>3
  <2> QED BY <2>2, <2>4, PacketsAre
<1> HIDE DEF a, b
<1>14. Msg(b) = Msg(a)
  <2>1. b <= b
    BY <1>11
  <2> QED BY <1>6, <1>11, <1>12, <1>13, <2>1, SameMessage
<1> QED BY <1>7, <1>12, <1>14

LEMMA SkipOneDrops ==
  ASSUME NEW x \in Messaging, Sound(x.rb, x.uq), NEW c \in Nat, NEW done,
         IsMessages(x.rb, x.uq, c, done), LeftBehind(x.rb, c, done)
  PROVE  LET r == SkipOne(x) IN
         /\ IsMessages(r.rb, r.uq, c, done) /\ LeftBehind(r.rb, c, done) /\ r.out = x.out
         /\ Stops(x) => r = x
         /\ ~Stops(x) => getRcvDataSize(r.rb) = getRcvDataSize(x.rb) - 1
<1> DEFINE size == getRcvDataSize(x.rb)
           base == c - size
           p == x.rb.start
           z == Release(x, p)
           N == RcvSlots
<1>1. /\ x.rb \in RcvBufs /\ x.uq \in UnitQs /\ p \in Positions /\ N \in Nat /\ N > 2
      /\ size \in 0 .. N - 1 /\ At(x.rb, 0) = p /\ NextPos(p) = At(x.rb, 1) /\ NextPos(p) \in Positions
  <2>1. x.rb \in RcvBufs /\ x.uq \in UnitQs
    BY DEF Messaging
  <2>2. p \in Positions /\ N \in Nat /\ N > 2 /\ NextPos(p) \in Positions
    BY <2>1, PositionsAre DEF RcvBufs
  <2>3. size \in 0 .. N - 1 /\ At(x.rb, 0) = p
    BY <2>1, AtIs
  <2>4. NextPos(p) = At(x.rb, 1)
    BY <2>2 DEF NextPos, At
  <2> QED BY <2>1, <2>2, <2>3, <2>4
<1>2. CASE Stops(x)
  <2>1. p = x.rb.ack \/ (x.rb.slot[p] # NoUnit /\ GoodFrom(x))
    BY <1>2, Zenon DEF Stops, GoodFrom, Usable
  <2>2. SkipOne(x) = x
    BY <2>1 DEF SkipOne
  <2> QED BY <1>2, <2>2
<1>3. CASE ~Stops(x)
  <2>1. size > 0 /\ x.rb.slot[p] # NoUnit /\ Msg(base + 1) \in done
    BY <1>3, BadIsRead
  <2>2. p # x.rb.ack /\ ~GoodFrom(x)
    BY <1>3 DEF Stops
  <2> DEFINE y == [z.rb EXCEPT !.start = NextPos(p)]
             r == [z EXCEPT !.rb = y]
             u == x.rb.slot[p]
  <2>3. z \in Messaging /\ z.rb = Emptied(x.rb, p) /\ z.uq = Freed(x.uq, u) /\ z.out = x.out
    BY <1>1, MsgRelease
  <2>4. /\ Emptied(x.rb, p) \in RcvBufs /\ Emptied(x.rb, p).slot = [x.rb.slot EXCEPT ![p] = NoUnit]
        /\ Emptied(x.rb, p).start = p /\ Emptied(x.rb, p).ack = x.rb.ack
        /\ Emptied(x.rb, p).max = x.rb.max
    BY <1>1 DEF Emptied, RcvBufs
  <2>5. /\ Freed(x.uq, u).flag = [x.uq.flag EXCEPT ![u] = 0]
        /\ Freed(x.uq, u).pkt = [x.uq.pkt EXCEPT ![u] = Nothing]
    BY <1>1, FreedIs
  <2>6. SkipOne(x) = [z EXCEPT !.rb.start = NextPos(@)]
    BY <2>1, <2>2 DEF SkipOne, z, p
  <2> HIDE DEF z
  <2>7. SkipOne(x) = r
    <3>1. z.rb.start = p /\ z.rb \in RcvBufs
      BY <2>3, <2>4
    <3> QED BY <2>3, <2>6, <3>1 DEF Messaging, RcvBufs
  <2>8. /\ y \in RcvBufs /\ y.slot = [x.rb.slot EXCEPT ![p] = NoUnit] /\ y.start = NextPos(p)
        /\ y.ack = x.rb.ack /\ y.max = x.rb.max
    <3>1. z.rb \in RcvBufs /\ z.rb.slot = [x.rb.slot EXCEPT ![p] = NoUnit] /\ z.rb.ack = x.rb.ack
          /\ z.rb.max = x.rb.max
      BY <2>3, <2>4
    <3> HIDE DEF p
    <3> QED BY <1>1, <3>1 DEF RcvBufs
  <2> HIDE DEF y
  <2>9. r.rb = y /\ r.uq = Freed(x.uq, u) /\ r.out = x.out
    BY <2>3, <2>8 DEF Messaging
  <2> HIDE DEF r
  <2> DEFINE f == Freed(x.uq, u)
  <2>10. \A k \in 0 .. N - 1 : y.slot[At(x.rb, k)] = IF k < 1 THEN NoUnit ELSE x.rb.slot[At(x.rb, k)]
    <3> TAKE k \in 0 .. N - 1
    <3>1. At(x.rb, k) \in Positions /\ (At(x.rb, k) = p <=> k = 0) /\ (k < 1 <=> k = 0)
      BY <1>1, AtIs
    <3>2. x.rb.slot \in [Positions -> AllUnits \cup {NoUnit}]
      BY <1>1 DEF RcvBufs
    <3> HIDE DEF p
    <3> QED BY <1>1, <2>8, <3>1, <3>2
  <2>11. \A k \in 0 .. N - 1 : k >= 1 /\ x.rb.slot[At(x.rb, k)] # NoUnit =>
           /\ f.pkt[x.rb.slot[At(x.rb, k)]] = x.uq.pkt[x.rb.slot[At(x.rb, k)]]
           /\ f.flag[x.rb.slot[At(x.rb, k)]] = x.uq.flag[x.rb.slot[At(x.rb, k)]]
    <3> TAKE k \in 0 .. N - 1
    <3> DEFINE v == x.rb.slot[At(x.rb, k)]
    <3>1. SUFFICES ASSUME k >= 1, v # NoUnit
                   PROVE  f.pkt[v] = x.uq.pkt[v] /\ f.flag[v] = x.uq.flag[v]
      OBVIOUS
    <3>2. At(x.rb, k) \in Positions /\ At(x.rb, k) # p
      BY <1>1, <3>1, AtIs
    <3>3. v # u /\ v \in AllUnits
      BY <1>1, <3>1, <3>2 DEF Sound, Placed, RcvBufs
    <3>4. x.uq.pkt \in [AllUnits -> Int] /\ x.uq.flag \in [AllUnits -> Nat]
      BY <1>1 DEF UnitQs
    <3> HIDE DEF u, v
    <3> QED BY <2>5, <3>3, <3>4
  <2>12. \A k \in 0 .. N - 1 : k < 1 => Msg(base + 1 + k) \in done
    <3>1. base \in Nat
      BY PacketsAre DEF IsMessages
    <3> HIDE DEF base
    <3>2. \A k \in 0 .. N - 1 : k < 1 => base + 1 + k = base + 1
      BY <3>1
    <3> QED BY <2>1, <3>2
  <2>13. 1 \in 0 .. size
    BY <1>1, <2>1
  <2>14. y.start = At(x.rb, 1)
    BY <1>1, <2>8
  <2> HIDE DEF f
  <2>15. /\ IsMessages(y, f, c, done) /\ getRcvDataSize(y) = size - 1
         /\ LeftBehind(x.rb, c, done) => LeftBehind(y, c, done)
    <3>1. x.rb \in RcvBufs /\ y \in RcvBufs /\ y.ack = x.rb.ack /\ y.max = x.rb.max
      BY <1>1, <2>8
    <3>2. Dropped(x.rb, x.uq, y, f, 1)
      BY <2>10, <2>11, <2>14, <3>1 DEF Dropped
    <3>3. 1 \in 0 .. getRcvDataSize(x.rb) /\ WereRead(done, c - getRcvDataSize(x.rb), 1)
      BY <2>12, <2>13 DEF WereRead
    <3> HIDE DEF size, base
    <3>4. /\ IsMessages(y, f, c, done) /\ getRcvDataSize(y) = getRcvDataSize(x.rb) - 1
          /\ LeftBehind(x.rb, c, done) => LeftBehind(y, c, done)
      BY <3>1, <3>2, <3>3, DropKeeps
    <3> QED BY <3>4 DEF size
  <2> QED BY <1>3, <2>7, <2>9, <2>15 DEF f
<1> QED BY <1>2, <1>3

\* scanMsg drops the bad ones, and where it stops the search begins.
LEMMA SkipBadDrops ==
  ASSUME NEW st \in Messaging, Sound(st.rb, st.uq), NEW c \in Nat, NEW done,
         IsMessages(st.rb, st.uq, c, done), LeftBehind(st.rb, c, done)
  PROVE  LET r == SkipBad(st) IN
         /\ IsMessages(r.rb, r.uq, c, done) /\ LeftBehind(r.rb, c, done) /\ r.out = st.out
         /\ Stops(r)
<1> DEFINE n == getRcvDataSize(st.rb)
           Goes(y, k) == /\ IsMessages(y.rb, y.uq, c, done) /\ LeftBehind(y.rb, c, done) /\ y.out = st.out
                         /\ Stops(y) \/ getRcvDataSize(y.rb) = n - k
<1>1. PICK x : /\ x[0] = st /\ SkipBad(st) = x[getRcvDataSize(st.rb)]
               /\ \A k \in Nat : /\ x[k] \in Messaging /\ Sound(x[k].rb, x[k].uq)
                                 /\ x[k + 1] = SkipOne(x[k])
  BY SkipBadRuns
<1>2. n \in Nat
  BY DataSizeIs, PositionsAre DEF Messaging
<1>3. Goes(x[0], 0)
  BY <1>1, <1>2
<1> HIDE DEF n
<1>4. ASSUME NEW k \in Nat, Goes(x[k], k) PROVE Goes(x[k + 1], k + 1)
  <2> DEFINE y == x[k]
             r == SkipOne(y)
  <2>1. y \in Messaging /\ Sound(y.rb, y.uq) /\ x[k + 1] = r
    BY <1>1
  <2>2. /\ IsMessages(y.rb, y.uq, c, done) /\ LeftBehind(y.rb, c, done) /\ y.out = st.out
        /\ Stops(y) \/ getRcvDataSize(y.rb) = n - k
    BY <1>4
  <2> HIDE DEF y
  <2>3. /\ IsMessages(r.rb, r.uq, c, done) /\ LeftBehind(r.rb, c, done) /\ r.out = y.out
        /\ Stops(y) => r = y
        /\ ~Stops(y) => getRcvDataSize(r.rb) = getRcvDataSize(y.rb) - 1
    BY <2>1, <2>2, SkipOneDrops
  <2> HIDE DEF r
  <2>4. n - k - 1 = n - (k + 1)
    BY <1>2
  <2>5. Goes(r, k + 1)
    BY <2>2, <2>3, <2>4
  <2> QED BY <2>1, <2>5
<1> DEFINE P == {k \in Nat : Goes(x[k], k)}
<1>5. P = Nat
  <2>1. P \subseteq Nat /\ 0 \in P /\ \A k \in P : k + 1 \in P
    <3> HIDE DEF Goes
    <3> QED BY <1>3, <1>4
  <2> HIDE DEF P
  <2> QED BY <2>1, AllNaturals
<1>6. Goes(x[n], n)
  <2> HIDE DEF Goes
  <2> QED BY <1>2, <1>5
<1> DEFINE r == x[n]
<1>7. r \in Messaging /\ SkipBad(st) = r
  BY <1>1, <1>2 DEF n
<1> HIDE DEF r
<1>8. /\ IsMessages(r.rb, r.uq, c, done) /\ LeftBehind(r.rb, c, done) /\ r.out = st.out
      /\ Stops(r) \/ getRcvDataSize(r.rb) = 0
  BY <1>2, <1>6 DEF r
<1>9. getRcvDataSize(r.rb) = 0 => Stops(r)
  <2>1. r.rb \in RcvBufs
    BY <1>7 DEF Messaging
  <2>2. At(r.rb, 0) = r.rb.start /\ At(r.rb, getRcvDataSize(r.rb)) = r.rb.ack
    BY <2>1, AtIs
  <2> QED BY <2>2 DEF Stops
<1> QED BY <1>7, <1>8, <1>9

\* The slots j to i hold a message from its first packet to its last.
Message(st, j, i) ==
  /\ j <= i /\ \A k \in j .. i : Usable(st, At(st.rb, k))
  /\ IsFirst(st, At(st.rb, j)) /\ IsLast(st, At(st.rb, i))
  /\ \A k \in j + 1 .. i : ~IsFirst(st, At(st.rb, k))

\* From slot j, a first packet, to slot k - 1 all can be used.
Begun(st, j, k) ==
  /\ IsFirst(st, At(st.rb, j)) /\ \A l \in j .. k - 1 : Usable(st, At(st.rb, l))
  /\ \A l \in j + 1 .. k - 1 : ~IsFirst(st, At(st.rb, l))

\* No message ends before slot k in what was acknowledged.
NoneBefore(st, k) ==
  \A j, i \in 0 .. k - 1 : i < getRcvDataSize(st.rb) => ~Message(st, j, i)

\* The message found.
Finds(st, m, j, i) ==
  /\ Message(st, j, i) /\ m.p = At(st.rb, j) /\ m.q = At(st.rb, i)
  /\ m.passack <=> i >= getRcvDataSize(st.rb)
  /\ m.passack => ~InOrder(st, At(st.rb, i))
  /\ NoneBefore(st, i)

\* Before slot k nothing was found, and m.p is where the message at k begins.
Seeks(st, m, k) ==
  /\ ~m.found /\ m.q = At(st.rb, k) /\ (m.passack <=> k >= getRcvDataSize(st.rb))
  /\ NoneBefore(st, k)
  /\ \/ m.p = Nothing /\ \A j \in 0 .. k - 1 : ~Begun(st, j, k)
     \/ \E j \in 0 .. k - 1 : Begun(st, j, k) /\ m.p = At(st.rb, j)

LEMMA Appears ==
  ASSUME NEW st, NEW k \in Nat, NEW j \in 0 .. k
  PROVE  /\ j < k => (Begun(st, j, k + 1) <=>
              Begun(st, j, k) /\ Usable(st, At(st.rb, k)) /\ ~IsFirst(st, At(st.rb, k)))
         /\ Begun(st, k, k + 1) <=> Usable(st, At(st.rb, k)) /\ IsFirst(st, At(st.rb, k))
         /\ Message(st, j, k) <=> Begun(st, j, k + 1) /\ IsLast(st, At(st.rb, k))
<1> DEFINE U(l) == Usable(st, At(st.rb, l))
           F(l) == IsFirst(st, At(st.rb, l))
           L(l) == IsLast(st, At(st.rb, l))
<1>1. \A i, n : Begun(st, i, n) <=> /\ F(i) /\ \A l \in i .. n - 1 : U(l)
                                    /\ \A l \in i + 1 .. n - 1 : ~F(l)
  BY DEF Begun
<1>2. \A i, n : Message(st, i, n) <=> /\ i <= n /\ \A l \in i .. n : U(l)
                                      /\ F(i) /\ L(n) /\ \A l \in i + 1 .. n : ~F(l)
  BY DEF Message
<1> HIDE DEF U, F, L
<1>3. /\ (k + 1) - 1 = k /\ j .. k = (j .. k - 1) \cup {k} /\ k .. k = {k}
      /\ k + 1 .. k = {} /\ j <= k
      /\ j < k => j + 1 .. k = (j + 1 .. k - 1) \cup {k}
  OBVIOUS
<1>4. j < k => (Begun(st, j, k + 1) <=> Begun(st, j, k) /\ U(k) /\ ~F(k))
  <2>1. ASSUME j < k PROVE Begun(st, j, k + 1) <=> Begun(st, j, k) /\ U(k) /\ ~F(k)
    <3>1. Begun(st, j, k + 1) <=> F(j) /\ (\A l \in j .. k : U(l)) /\ \A l \in j + 1 .. k : ~F(l)
      BY <1>1, <1>3
    <3>2. Begun(st, j, k) <=> F(j) /\ (\A l \in j .. k - 1 : U(l)) /\ \A l \in j + 1 .. k - 1 : ~F(l)
      BY <1>1
    <3> QED BY <1>3, <2>1, <3>1, <3>2, Zenon
  <2> QED BY <2>1
<1>5. Begun(st, k, k + 1) <=> U(k) /\ F(k)
  BY <1>1, <1>3
<1>6. Message(st, j, k) <=> Begun(st, j, k + 1) /\ L(k)
  BY <1>1, <1>2, <1>3
<1> QED BY <1>4, <1>5, <1>6 DEF U, F, L

LEMMA NextIs ==
  ASSUME NEW rb \in RcvBufs, NEW k \in 0 .. RcvSlots - 1
  PROVE  /\ NextPos(At(rb, k)) = At(rb, k + 1) /\ At(rb, RcvSlots) = rb.start
         /\ At(rb, k) # Nothing
<1> DEFINE p == rb.start
           N == RcvSlots
           q == At(rb, k)
<1>1. N \in Nat \ {0} /\ p \in 0 .. N - 1 /\ k \in Nat
  BY PositionsAre DEF RcvBufs, Positions
<1>2. q = (IF p + k < N THEN p + k ELSE p + k - N) /\ q \in 0 .. N - 1
  BY AtIs DEF Positions
<1>3. NextPos(q) = (q + 1) % N /\ At(rb, k + 1) = (p + (k + 1)) % N /\ At(rb, N) = (p + N) % N
  BY DEF NextPos, At
<1> HIDE DEF p, q
<1>4. (p + N) % N = p
  BY <1>1, ModSmall
<1>5. (q + 1) % N = (p + (k + 1)) % N
  <2>1. CASE p + k < N
    <3>1. q + 1 = p + (k + 1)
      BY <1>1, <1>2, <2>1
    <3> QED BY <3>1
  <2>2. CASE ~(p + k < N)
    <3>1. p + (k + 1) = (q + 1) + N /\ q + 1 \in Nat /\ q + 1 <= N
      BY <1>1, <1>2, <2>2
    <3>2. CASE q + 1 < N
      <4>1. q + 1 \in 0 .. N - 1
        BY <1>1, <3>1, <3>2
      <4>2. (q + 1) % N = q + 1 /\ ((q + 1) + N) % N = q + 1
        BY <1>1, <4>1, ModSmall
      <4> QED BY <3>1, <4>2
    <3>3. CASE q + 1 = N
      <4>1. p + (k + 1) < N + N /\ p + (k + 1) = N + N
        BY <1>1, <3>1, <3>3
      <4> QED BY <1>1, <4>1
    <3> QED BY <1>1, <3>1, <3>2, <3>3
  <2> QED BY <2>1, <2>2
<1>6. q # Nothing
  BY <1>1, <1>2 DEF Nothing
<1> QED BY <1>3, <1>4, <1>5, <1>6 DEF p, q

\* The second loop of scanMsg looks at slot k.
LEMMA ScanOneSeeks ==
  ASSUME NEW st, st.rb \in RcvBufs, NEW k \in 0 .. RcvSlots - 1, NEW m \in Looks, Seeks(st, m, k)
  PROVE  LET r == ScanOne(st, m) IN
         Seeks(st, r, k + 1) \/ (r.found /\ \E j \in 0 .. k : Finds(st, r, j, k))
<1> DEFINE size == getRcvDataSize(st.rb)
           use == Usable(st, m.q)
           head == IF ~use THEN Nothing ELSE IF IsFirst(st, m.q) THEN m.q ELSE m.p
           found == use /\ IsLast(st, m.q) /\ head # Nothing
           pa == m.passack \/ NextPos(m.q) = st.rb.ack
           r == ScanOne(st, m)
           N == RcvSlots
<1>1. /\ ~m.found /\ m.q = At(st.rb, k) /\ (m.passack <=> k >= size) /\ NoneBefore(st, k)
      /\ \/ m.p = Nothing /\ \A j \in 0 .. k - 1 : ~Begun(st, j, k)
         \/ \E j \in 0 .. k - 1 : Begun(st, j, k) /\ m.p = At(st.rb, j)
  BY DEF Seeks
<1>2. /\ N \in Nat /\ N > 0 /\ k \in Nat /\ size \in 0 .. N - 1
      /\ NextPos(m.q) = At(st.rb, k + 1) /\ At(st.rb, size) = st.rb.ack
      /\ \A j \in 0 .. k : At(st.rb, j) # Nothing
  <2>1. N \in Nat /\ N > 0 /\ k \in Nat
    BY PositionsAre
  <2>2. \A j \in 0 .. k : j \in 0 .. N - 1
    BY <2>1
  <2> QED BY <1>1, <2>1, <2>2, AtIs, NextIs
<1>3. (Usable(st, At(st.rb, k)) <=> use) /\ m.q = At(st.rb, k)
  BY <1>1
<1>4. \A j \in 0 .. k :
        /\ j < k => (Begun(st, j, k + 1) <=> Begun(st, j, k) /\ use /\ ~IsFirst(st, m.q))
        /\ Begun(st, k, k + 1) <=> use /\ IsFirst(st, m.q)
        /\ Message(st, j, k) <=> Begun(st, j, k + 1) /\ IsLast(st, m.q)
  <2> TAKE j \in 0 .. k
  <2> QED BY <1>2, <1>3, Appears
<1> HIDE DEF size, use
<1>5. \/ head = Nothing /\ \A j \in 0 .. k : ~Begun(st, j, k + 1)
      \/ \E j \in 0 .. k : Begun(st, j, k + 1) /\ head = At(st.rb, j)
  <2>0. \A j \in 0 .. k : j = k \/ (j < k /\ j \in 0 .. k - 1)
    BY <1>2
  <2>1. CASE ~use
    <3>1. head = Nothing
      BY <2>1
    <3>2. \A j \in 0 .. k : ~Begun(st, j, k + 1)
      BY <1>4, <2>0, <2>1
    <3> QED BY <3>1, <3>2
  <2>2. CASE use /\ IsFirst(st, m.q)
    <3>1. head = At(st.rb, k) /\ k \in 0 .. k
      BY <1>2, <1>3, <2>2
    <3> QED BY <1>4, <2>2, <3>1
  <2>3. CASE use /\ ~IsFirst(st, m.q)
    <3>1. head = m.p
      BY <2>3
    <3>2. \A j \in 0 .. k - 1 : j \in 0 .. k /\ j < k
      BY <1>2
    <3>3. \A j \in 0 .. k - 1 : Begun(st, j, k + 1) <=> Begun(st, j, k)
      BY <1>4, <2>3, <3>2
    <3>4. ~Begun(st, k, k + 1)
      BY <1>2, <1>4, <2>3
    <3>5. CASE m.p = Nothing /\ \A j \in 0 .. k - 1 : ~Begun(st, j, k)
      BY <2>0, <3>1, <3>3, <3>4, <3>5
    <3>6. CASE \E j \in 0 .. k - 1 : Begun(st, j, k) /\ m.p = At(st.rb, j)
      BY <3>1, <3>2, <3>3, <3>6
    <3> QED BY <1>1, <3>5, <3>6
  <2> QED BY <2>1, <2>2, <2>3
<1> HIDE DEF head
<1>6. pa <=> k + 1 >= size
  <2>1. CASE k + 1 <= N - 1
    <3>1. k + 1 \in 0 .. N - 1
      BY <1>2, <2>1
    <3>2. At(st.rb, k + 1) = At(st.rb, size) <=> k + 1 = size
      BY <1>2, <3>1, AtIs
    <3> QED BY <1>1, <1>2, <3>2
  <2>2. CASE ~(k + 1 <= N - 1)
    <3>1. k >= size
      BY <1>2, <2>2
    <3> QED BY <1>1, <1>2, <3>1
  <2> QED BY <2>1, <2>2
<1> HIDE DEF pa
<1>7. CASE found /\ (~m.passack \/ ~InOrder(st, m.q))
  <2> DEFINE y == [m EXCEPT !.found = TRUE, !.p = head]
  <2>1. r = y
    BY <1>1, <1>7 DEF ScanOne, use, head
  <2>2. y.found /\ y.p = head /\ y.q = m.q /\ y.passack = m.passack
    BY DEF Looks
  <2> HIDE DEF r, y
  <2>3. PICK j \in 0 .. k : Begun(st, j, k + 1) /\ head = At(st.rb, j)
    BY <1>5, <1>7
  <2>4. Message(st, j, k)
    BY <1>4, <1>7, <2>3
  <2>5. Finds(st, r, j, k)
    BY <1>1, <1>7, <2>1, <2>2, <2>3, <2>4 DEF Finds, size
  <2> QED BY <2>1, <2>2, <2>5 DEF r
<1>8. CASE ~(found /\ (~m.passack \/ ~InOrder(st, m.q)))
  <2> DEFINE y == [m EXCEPT !.p = head, !.q = NextPos(m.q), !.passack = pa]
  <2>1. r = y
    BY <1>1, <1>8, Zenon DEF ScanOne, use, head, pa
  <2>2. y.found = m.found /\ y.p = head /\ y.q = NextPos(m.q) /\ y.passack = pa
    BY DEF Looks
  <2> HIDE DEF r, y
  <2>3. NoneBefore(st, k + 1)
    <3>1. SUFFICES ASSUME NEW j \in 0 .. k, NEW i \in 0 .. k, i < size, Message(st, j, i)
                   PROVE  FALSE
      BY <1>2 DEF NoneBefore, size
    <3>2. CASE i < k
      <4>1. j <= i
        BY <3>1 DEF Message
      <4>2. i \in 0 .. k - 1 /\ j \in 0 .. k - 1
        BY <1>2, <3>2, <4>1
      <4> QED BY <1>1, <3>1, <4>2 DEF NoneBefore, size
    <3>3. CASE i = k
      <4>1. ~m.passack
        BY <1>1, <1>2, <3>1, <3>3
      <4>2. Begun(st, j, k + 1) /\ IsLast(st, m.q)
        BY <1>4, <3>1, <3>3
      <4>3. use
        <5>1. j = k \/ j < k
          BY <1>2
        <5> QED BY <1>4, <4>2, <5>1
      <4>4. head # Nothing
        BY <1>2, <1>5, <4>2
      <4> QED BY <1>8, <4>1, <4>2, <4>3, <4>4
    <3> QED BY <1>2, <3>2, <3>3
  <2>4. (k + 1) - 1 = k
    BY <1>2
  <2>5. Seeks(st, r, k + 1)
    BY <1>1, <1>2, <1>5, <1>6, <2>1, <2>2, <2>3, <2>4 DEF Seeks, size
  <2> QED BY <2>5 DEF r
<1> QED BY <1>7, <1>8

\* What scanMsg returns is a message, or it has looked at all, to no avail: a
\* message that fills the buffer is begun but readMsg takes nothing of it.
LEMMA ScanIs ==
  ASSUME NEW st, st.rb \in RcvBufs, getRcvDataSize(st.rb) + st.rb.max <= RcvSlots - 1
  PROVE  LET m == Scan(st) IN
         m.found => \/ \E i \in 0 .. RcvSlots - 1 : \E j \in 0 .. i : Finds(st, m, j, i)
                    \/ m.passack /\ m.p = NextPos(m.q)
<1> DEFINE size == getRcvDataSize(st.rb)
           N == RcvSlots
           n == st.rb.max + size + 1
           Sees(m, k) == \/ Seeks(st, m, k)
                         \/ m.found /\ \E i \in 0 .. N - 1 : \E j \in 0 .. i : Finds(st, m, j, i)
<1>1. PICK x : /\ x[0] = ScanStart(st)
               /\ Scan(st) = Seen(x[n])
               /\ \A k \in Nat : /\ x[k] \in Looks /\ (x[k].found => x[k].p \in Positions)
                                 /\ x[k + 1] = ScanOne(st, x[k])
  <2> HIDE DEF Sees
  <2> QED BY ScanRuns
<1>2. N \in Nat /\ N > 0 /\ size \in 0 .. N - 1 /\ st.rb.max \in Nat /\ n \in Nat /\ n <= N /\ n > size
  <2>1. N \in Nat /\ N > 0 /\ size \in 0 .. N - 1
    BY PositionsAre, AtIs
  <2>2. st.rb.max \in Nat
    BY DEF RcvBufs
  <2>3. size + st.rb.max <= N - 1
    OBVIOUS
  <2> HIDE DEF size
  <2> QED BY <2>1, <2>2, <2>3
<1>3. Sees(x[0], 0)
  <2>1. At(st.rb, 0) = st.rb.start /\ At(st.rb, size) = st.rb.ack
    BY AtIs
  <2>2. st.rb.start = st.rb.ack <=> size = 0
    <3>1. 0 \in 0 .. N - 1
      BY <1>2
    <3> QED BY <1>2, <2>1, <3>1, AtIs
  <2> DEFINE pa == st.rb.start = st.rb.ack
             y == ScanStart(st)
  <2>3. y.found = FALSE /\ y.p = Nothing /\ y.q = st.rb.start /\ y.passack = pa
    BY DEF ScanStart
  <2> HIDE DEF y
  <2>4. y.passack <=> 0 >= size
    <3>1. size = 0 <=> 0 >= size
      BY <1>2
    <3> HIDE DEF size
    <3> QED BY <2>2, <2>3, <3>1, Zenon
  <2>5. \A j \in 0 .. 0 - 1 : FALSE
    OBVIOUS
  <2>6. Seeks(st, y, 0)
    BY <2>1, <2>3, <2>4, <2>5 DEF Seeks, NoneBefore
  <2> QED BY <1>1, <2>6 DEF y
<1>4. ASSUME NEW k \in Nat, k < N, Sees(x[k], k) PROVE Sees(x[k + 1], k + 1)
  <2> DEFINE m == x[k]
             r == ScanOne(st, m)
  <2>1. m \in Looks /\ x[k + 1] = r
    BY <1>1
  <2>2. k \in 0 .. N - 1
    BY <1>2, <1>4
  <2>3. CASE Seeks(st, m, k)
    <3> HIDE DEF m
    <3>1. Seeks(st, r, k + 1) \/ (r.found /\ \E j \in 0 .. k : Finds(st, r, j, k))
      BY <2>1, <2>2, <2>3, ScanOneSeeks
    <3> HIDE DEF r
    <3> QED BY <2>1, <2>2, <3>1
  <2>4. CASE m.found /\ \E i \in 0 .. N - 1 : \E j \in 0 .. i : Finds(st, m, j, i)
    <3> HIDE DEF m
    <3>1. r = m
      BY <2>4 DEF ScanOne
    <3> HIDE DEF r
    <3> QED BY <2>1, <2>4, <3>1
  <2> QED BY <1>4, <2>3, <2>4
<1> DEFINE P == {k \in Nat : k <= N => Sees(x[k], k)}
<1>5. P = Nat
  <2>1. P \subseteq Nat /\ 0 \in P /\ \A k \in P : k + 1 \in P
    <3> HIDE DEF Sees
    <3>1. \A k \in Nat : k + 1 \in Nat /\ (k + 1 <= N => k < N /\ k <= N)
      BY <1>2
    <3> QED BY <1>3, <1>4, <3>1
  <2> HIDE DEF P
  <2> QED BY <2>1, AllNaturals
<1>6. Sees(x[n], n)
  <2> HIDE DEF Sees, n
  <2> QED BY <1>2, <1>5
<1> DEFINE m == x[n]
           fits == m.p # Nothing /\ NextPos(m.q) = m.p
<1>7. m \in Looks /\ Scan(st) = Seen(m)
  <2> HIDE DEF n
  <2> QED BY <1>1, <1>2
<1>8. Seeks(st, m, n) \/ \E i \in 0 .. N - 1 : \E j \in 0 .. i : Finds(st, m, j, i)
  BY <1>6
<1> HIDE DEF m, n
<1> DEFINE r == Scan(st)
<1>9. r.p = m.p /\ r.q = m.q /\ r.passack = m.passack /\ r.found = (m.found \/ fits)
  BY <1>7, ScanIsLook, Zenon
<1> HIDE DEF r
<1>10. ASSUME r.found
       PROVE  \/ \E i \in 0 .. N - 1 : \E j \in 0 .. i : Finds(st, r, j, i)
              \/ r.passack /\ r.p = NextPos(r.q)
  <2>1. CASE Seeks(st, m, n)
    <3>1. ~m.found /\ m.passack
      BY <1>2, <2>1 DEF Seeks
    <3>2. fits
      BY <1>9, <1>10, <3>1
    <3> QED BY <1>9, <3>1, <3>2
  <2>2. CASE \E i \in 0 .. N - 1 : \E j \in 0 .. i : Finds(st, m, j, i)
    <3>1. PICK i \in 0 .. N - 1 : \E j \in 0 .. i : Finds(st, m, j, i)
      BY <2>2
    <3>2. PICK j \in 0 .. i : Finds(st, m, j, i)
      BY <3>1
    <3>3. Finds(st, r, j, i)
      BY <1>9, <3>2 DEF Finds
    <3> QED BY <3>3
  <2> QED BY <1>8, <2>1, <2>2
<1> QED BY <1>10 DEF r


\* The n packets behind packet c.
Row(c, n) == [k \in 1 .. n |-> c + k]

LEMMA AppendNext ==
  ASSUME NEW t \in Nat, NEW c \in Int
  PROVE  Append(Row(c, t), c + (t + 1)) = Row(c, t + 1)
  BY DEF Row

\* Of the message from slot j on, behind packet base + j, the first t packets
\* were taken: their units are marked, or are gone.
Took(st, m, base, j, x, t) ==
  /\ x.p = At(st.rb, j + t) /\ x.out = Row(base + j, t)
  /\ m.passack =>
       /\ x.rb = st.rb
       /\ \A k \in 0 .. RcvSlots - 1 : st.rb.slot[At(st.rb, k)] # NoUnit =>
            /\ x.uq.pkt[st.rb.slot[At(st.rb, k)]] = st.uq.pkt[st.rb.slot[At(st.rb, k)]]
            /\ x.uq.flag[st.rb.slot[At(st.rb, k)]] =
                 IF j <= k /\ k < j + t THEN 2 ELSE st.uq.flag[st.rb.slot[At(st.rb, k)]]
  /\ ~m.passack =>
       /\ x.rb.ack = st.rb.ack /\ x.rb.max = st.rb.max
       /\ \A k \in 0 .. RcvSlots - 1 :
            /\ x.rb.slot[At(st.rb, k)] =
                 IF j <= k /\ k < j + t THEN NoUnit ELSE st.rb.slot[At(st.rb, k)]
            /\ st.rb.slot[At(st.rb, k)] # NoUnit /\ ~(j <= k /\ k < j + t) =>
                 /\ x.uq.pkt[st.rb.slot[At(st.rb, k)]] = st.uq.pkt[st.rb.slot[At(st.rb, k)]]
                 /\ x.uq.flag[st.rb.slot[At(st.rb, k)]] = st.uq.flag[st.rb.slot[At(st.rb, k)]]

\* Slots hold different units.
LEMMA UnitsDiffer ==
  ASSUME NEW rb, NEW uq, Sound(rb, uq), NEW k \in 0 .. RcvSlots - 1, NEW l \in 0 .. RcvSlots - 1,
         k # l, rb.slot[At(rb, k)] # NoUnit
  PROVE  rb.slot[At(rb, k)] # rb.slot[At(rb, l)] /\ rb.slot[At(rb, k)] \in AllUnits
<1>1. rb \in RcvBufs /\ Placed(rb.slot, uq.flag) /\ rb.slot \in [Positions -> AllUnits \cup {NoUnit}]
  BY DEF Sound, RcvBufs
<1>2. At(rb, k) \in Positions /\ At(rb, l) \in Positions /\ At(rb, k) # At(rb, l)
  BY <1>1, AtIs
<1> QED BY <1>1, <1>2 DEF Placed

\* The slots j to i hold the packets behind packet base + j.
Lies(st, base, j, i) ==
  \A k \in j .. i : /\ st.rb.slot[At(st.rb, k)] # NoUnit
                   /\ st.uq.pkt[st.rb.slot[At(st.rb, k)]] = base + 1 + k

LEMMA TookOne ==
  ASSUME NEW st \in Messaging, Sound(st.rb, st.uq), NEW m \in Looks, NEW base \in Int,
         NEW i \in 0 .. RcvSlots - 1, i < RcvSlots - 1, NEW j \in 0 .. i,
         NEW t \in Nat, j + t <= i, m.q = At(st.rb, i),
         Lies(st, base, j, i), NEW x \in Taking, Took(st, m, base, j, x, t)
  PROVE  Took(st, m, base, j, TakeUnit(x, m), t + 1)
<1> DEFINE r == TakeUnit(x, m)
           N == RcvSlots
           l == j + t
           A(k) == At(st.rb, k)
           v(k) == st.rb.slot[A(k)]
           u == v(l)
           c == base + j
<1>1. /\ N \in Nat /\ N > 2 /\ st.rb \in RcvBufs /\ st.uq \in UnitQs /\ x.rb \in RcvBufs
      /\ x.uq \in UnitQs /\ l \in 0 .. N - 1 /\ l <= i
  <2>1. N \in Nat /\ N > 2
    BY PositionsAre
  <2>2. l \in 0 .. N - 1 /\ l <= i
    BY <2>1
  <2>3. st.rb \in RcvBufs /\ st.uq \in UnitQs
    BY DEF Messaging
  <2>4. x.rb \in RcvBufs /\ x.uq \in UnitQs
    BY TakingAre
  <2> QED BY <2>1, <2>2, <2>3, <2>4
<1>2. /\ x.p = A(l) /\ x.out = Row(c, t)
  BY DEF Took
<1>3. /\ m.passack =>
           /\ x.rb = st.rb
           /\ \A k \in 0 .. N - 1 : v(k) # NoUnit =>
                /\ x.uq.pkt[v(k)] = st.uq.pkt[v(k)]
                /\ x.uq.flag[v(k)] = IF j <= k /\ k < l THEN 2 ELSE st.uq.flag[v(k)]
      /\ ~m.passack =>
           /\ x.rb.ack = st.rb.ack /\ x.rb.max = st.rb.max
           /\ \A k \in 0 .. N - 1 :
                /\ x.rb.slot[A(k)] = IF j <= k /\ k < l THEN NoUnit ELSE v(k)
                /\ v(k) # NoUnit /\ ~(j <= k /\ k < l) =>
                     x.uq.pkt[v(k)] = st.uq.pkt[v(k)] /\ x.uq.flag[v(k)] = st.uq.flag[v(k)]
  BY Zenon DEF Took
<1>4. NextPos(A(l)) = A(l + 1) /\ NextPos(A(i)) = A(i + 1)
  BY <1>1, NextIs
<1>5. A(l) # A(i + 1)
  <2>1. i + 1 \in 0 .. N - 1 /\ l # i + 1
    BY <1>1
  <2> QED BY <1>1, <2>1, AtIs
<1>6. \A k \in 0 .. N - 1 : A(k) \in Positions /\ (A(k) = A(l) => k = l)
  BY <1>1, AtIs
<1>7. \A k \in 0 .. N - 1 : k # l /\ v(k) # NoUnit => v(k) # u /\ v(k) \in AllUnits
  BY <1>1, UnitsDiffer
<1>8. x.rb.slot[A(l)] = u
  BY <1>1, <1>3
<1>20. u # NoUnit /\ st.uq.pkt[u] = base + 1 + l
  <2>1. l \in j .. i
    BY <1>1
  <2> QED BY <2>1 DEF Lies
<1>9. u \in AllUnits
  <2>1. st.rb.slot \in [Positions -> AllUnits \cup {NoUnit}]
    BY <1>1 DEF RcvBufs
  <2> QED BY <1>1, <1>6, <1>20, <2>1
<1>10. x.uq.pkt[u] = base + 1 + l
  BY <1>1, <1>3, <1>20
<1>11. \A k \in 0 .. N - 1 : (j <= k /\ k < j + (t + 1)) <=> (j <= k /\ k < l) \/ k = l
  BY <1>1
<1>12. l + 1 = j + (t + 1) /\ base + 1 + l = c + (t + 1) /\ c \in Int
  BY <1>1
<1>13. x.p # NextPos(m.q)
  BY <1>2, <1>4, <1>5
<1>14. /\ r.out = Append(x.out, x.uq.pkt[u]) /\ r.p = NextPos(x.p)
       /\ m.passack => /\ r.rb = x.rb /\ r.uq.pkt = x.uq.pkt
                       /\ r.uq.flag = [x.uq.flag EXCEPT ![u] = 2]
       /\ ~m.passack => r.rb = Emptied(x.rb, A(l)) /\ r.uq = Freed(x.uq, u)
  <2> DEFINE w == x.rb.slot[x.p]
  <2>1. /\ r.out = Append(x.out, x.uq.pkt[w]) /\ r.p = NextPos(x.p)
        /\ m.passack => /\ r.rb = x.rb /\ r.uq.pkt = x.uq.pkt
                        /\ r.uq.flag = [x.uq.flag EXCEPT ![w] = 2]
        /\ ~m.passack => r.rb = Emptied(x.rb, x.p) /\ r.uq = Freed(x.uq, w)
    BY <1>13, TakeUnitIs
  <2>2. w = u
    BY <1>2, <1>8
  <2> HIDE DEF r, u, l, A, w
  <2> QED BY <1>2, <2>1, <2>2
<1> HIDE DEF r, u, A, c
<1>15. r.out = Row(c, t + 1)
  BY <1>2, <1>10, <1>12, <1>14, AppendNext
<1>16. r.p = A(j + (t + 1))
  BY <1>2, <1>4, <1>12, <1>14
<1>17. x.uq.flag \in [AllUnits -> Nat] /\ x.uq.pkt \in [AllUnits -> Int]
  BY <1>1 DEF UnitQs
<1>18. CASE m.passack
  <2>1. \A k \in 0 .. N - 1 : v(k) # NoUnit =>
          /\ r.uq.pkt[v(k)] = st.uq.pkt[v(k)]
          /\ r.uq.flag[v(k)] = IF j <= k /\ k < j + (t + 1) THEN 2 ELSE st.uq.flag[v(k)]
    <3> TAKE k \in 0 .. N - 1
    <3>1. k = l => v(k) = u
      BY DEF u
    <3> HIDE DEF v, l
    <3>2. v(k) # NoUnit => x.uq.pkt[v(k)] = st.uq.pkt[v(k)]
      BY <1>3, <1>18
    <3>3. v(k) # NoUnit => x.uq.flag[v(k)] = IF j <= k /\ k < l THEN 2 ELSE st.uq.flag[v(k)]
      BY <1>3, <1>18
    <3>4. /\ k = l => r.uq.flag[v(k)] = 2
          /\ k # l /\ v(k) # NoUnit => r.uq.flag[v(k)] = x.uq.flag[v(k)]
      BY <1>7, <1>9, <1>14, <1>17, <1>18, <3>1
    <3> QED BY <1>11, <1>14, <1>18, <3>2, <3>3, <3>4
  <2>2. r.rb = st.rb
    BY <1>3, <1>14, <1>18
  <2> QED BY <1>15, <1>16, <1>18, <2>1, <2>2, Zenon DEF Took, r, A, c
<1>19. CASE ~m.passack
  <2>1. /\ r.rb.slot = [x.rb.slot EXCEPT ![A(l)] = NoUnit] /\ r.rb.ack = x.rb.ack
        /\ r.rb.max = x.rb.max
    BY <1>1, <1>14, <1>19 DEF Emptied, RcvBufs
  <2>2. /\ r.uq.flag = [x.uq.flag EXCEPT ![u] = 0]
        /\ r.uq.pkt = [x.uq.pkt EXCEPT ![u] = Nothing]
    <3>1. r.uq = Freed(x.uq, u)
      BY <1>14, <1>19
    <3> DEFINE q == x.uq
               f == Freed(q, u)
    <3>2. q \in UnitQs
      BY <1>1
    <3> HIDE DEF q
    <3>3. f.flag = [q.flag EXCEPT ![u] = 0] /\ f.pkt = [q.pkt EXCEPT ![u] = Nothing]
      BY <3>2, FreedIs
    <3> HIDE DEF f
    <3>4. r.uq = f
      BY <3>1 DEF f, q
    <3> QED BY <3>3, <3>4 DEF q
  <2>3. x.rb.slot \in [Positions -> AllUnits \cup {NoUnit}]
    BY <1>1 DEF RcvBufs
  <2>4. \A k \in 0 .. N - 1 :
          /\ r.rb.slot[A(k)] = IF j <= k /\ k < j + (t + 1) THEN NoUnit ELSE v(k)
          /\ v(k) # NoUnit /\ ~(j <= k /\ k < j + (t + 1)) =>
               r.uq.pkt[v(k)] = st.uq.pkt[v(k)] /\ r.uq.flag[v(k)] = st.uq.flag[v(k)]
    <3> TAKE k \in 0 .. N - 1
    <3>1. k = l => v(k) = u
      BY DEF u
    <3> HIDE DEF v, l
    <3>2. r.rb.slot[A(k)] = IF j <= k /\ k < j + (t + 1) THEN NoUnit ELSE v(k)
      BY <1>3, <1>6, <1>11, <1>19, <2>1, <2>3
    <3>3. v(k) # NoUnit /\ ~(j <= k /\ k < j + (t + 1)) =>
            r.uq.pkt[v(k)] = st.uq.pkt[v(k)] /\ r.uq.flag[v(k)] = st.uq.flag[v(k)]
      BY <1>3, <1>7, <1>11, <1>17, <1>19, <2>2
    <3> QED BY <3>2, <3>3
  <2>5. r.rb.ack = st.rb.ack /\ r.rb.max = st.rb.max
    BY <1>3, <1>19, <2>1, Zenon
  <2> QED BY <1>15, <1>16, <1>19, <2>4, <2>5, Zenon DEF Took, r, A, c
<1> QED BY <1>18, <1>19

LEMMA TakeMsgIs ==
  ASSUME NEW st \in Messaging, Sound(st.rb, st.uq), NEW m \in Looks, NEW base \in Int,
         NEW i \in 0 .. RcvSlots - 1, i < RcvSlots - 1, NEW j \in 0 .. i,
         m.p = At(st.rb, j), m.q = At(st.rb, i), Lies(st, base, j, i)
  PROVE  LET r == TakeMsg(st, m) IN
         /\ r.out = Row(base + j, i - j + 1)
         /\ m.passack => r.rb = st.rb /\ Marked(st.rb, st.uq, r.uq, j, i)
         /\ ~m.passack /\ j = 0 =>
              r.rb \in RcvBufs /\ Dropped(st.rb, st.uq, r.rb, r.uq, i + 1)
<1> DEFINE N == RcvSlots
           len == i - j + 1
           Upto(k) == IF k <= len THEN k ELSE len
           A(k) == At(st.rb, k)
           v(k) == st.rb.slot[A(k)]
<1>1. /\ N \in Nat /\ N > 2 /\ st.rb \in RcvBufs /\ len \in Nat /\ len <= N /\ j + len = i + 1
      /\ len > 0
  <2>1. N \in Nat /\ N > 2
    BY PositionsAre
  <2>2. len \in Nat /\ len <= N /\ j + len = i + 1 /\ len > 0
    BY <2>1
  <2>3. st.rb \in RcvBufs
    BY DEF Messaging
  <2> QED BY <2>1, <2>2, <2>3
<1>2. m.p \in Positions /\ NextPos(m.q) = A(i + 1)
  <2>1. j \in 0 .. N - 1
    BY <1>1
  <2> QED BY <1>1, <2>1, AtIs, NextIs
<1>3. PICK x : /\ x[0] = TakeStart(st, m)
               /\ TakeMsg(st, m) = IF m.passack THEN x[RcvSlots] ELSE Advanced(x[RcvSlots], m)
               /\ \A k \in Nat : /\ x[k] \in Taking /\ Sound(x[k].rb, x[k].uq)
                                 /\ x[k + 1] = TakeUnit(x[k], m)
  BY <1>2, TakeMsgRuns, Zenon
<1>4. Took(st, m, base, j, x[0], 0)
  <2> DEFINE y == TakeStart(st, m)
  <2>1. y.rb = st.rb /\ y.uq = st.uq /\ y.out = <<>> /\ y.p = m.p
    BY DEF TakeStart
  <2>2. j + 0 = j /\ \A k \in 0 .. N - 1 : ~(j <= k /\ k < j + 0)
    OBVIOUS
  <2>3. <<>> = Row(base + j, 0)
    BY DEF Row
  <2> HIDE DEF y
  <2>4. Took(st, m, base, j, y, 0)
    BY <2>1, <2>2, <2>3 DEF Took
  <2> QED BY <1>3, <2>4 DEF y
<1> HIDE DEF len
<1>5. ASSUME NEW k \in Nat, Took(st, m, base, j, x[k], Upto(k))
      PROVE  Took(st, m, base, j, x[k + 1], Upto(k + 1))
  <2> DEFINE y == x[k]
  <2>1. y \in Taking /\ x[k + 1] = TakeUnit(y, m)
    BY <1>3
  <2> HIDE DEF y
  <2>2. CASE k < len
    <3>1. Upto(k) = k /\ Upto(k + 1) = k + 1 /\ j + k <= i
      BY <1>1, <2>2
    <3>3. Took(st, m, base, j, y, k)
      BY <1>5, <3>1 DEF y
    <3>4. Took(st, m, base, j, TakeUnit(y, m), k + 1)
      BY <2>1, <3>1, <3>3, TookOne
    <3> QED BY <2>1, <3>1, <3>4
  <2>3. CASE ~(k < len)
    <3>1. Upto(k) = len /\ Upto(k + 1) = len
      BY <1>1, <2>3
    <3>2. Took(st, m, base, j, y, len)
      BY <1>5, <3>1 DEF y
    <3>3. y.p = NextPos(m.q)
      BY <1>1, <1>2, <3>2 DEF Took
    <3>4. TakeUnit(y, m) = y
      BY <3>3 DEF TakeUnit
    <3> QED BY <2>1, <3>1, <3>2, <3>4
  <2> QED BY <2>2, <2>3
<1> DEFINE P == {k \in Nat : Took(st, m, base, j, x[k], Upto(k))}
<1>6. P = Nat
  <2>1. P \subseteq Nat /\ 0 \in P /\ \A k \in P : k + 1 \in P
    <3>1. Upto(0) = 0
      BY <1>1
    <3> HIDE DEF Upto
    <3> QED BY <1>4, <1>5, <3>1
  <2> HIDE DEF P
  <2> QED BY <2>1, AllNaturals
<1> DEFINE y == x[RcvSlots]
<1>7. y \in Taking /\ Took(st, m, base, j, y, len)
  <2>1. Upto(N) = len
    BY <1>1
  <2>2. N \in P
    BY <1>1, <1>6
  <2> QED BY <1>1, <1>3, <2>1, <2>2
<1>8. TakeMsg(st, m) = IF m.passack THEN y ELSE Advanced(y, m)
  BY <1>3
<1> HIDE DEF y
<1>9. \A k \in 0 .. N - 1 : k < j + len <=> k <= i
  BY <1>1
<1>10. y.out = Row(base + j, i - j + 1)
  BY <1>7 DEF Took, len
<1>11. CASE m.passack
  <2>1. /\ y.rb = st.rb
        /\ \A k \in 0 .. N - 1 : v(k) # NoUnit =>
             /\ y.uq.pkt[v(k)] = st.uq.pkt[v(k)]
             /\ y.uq.flag[v(k)] = IF j <= k /\ k < j + len THEN 2 ELSE st.uq.flag[v(k)]
    BY <1>7, <1>11 DEF Took
  <2>2. Marked(st.rb, st.uq, y.uq, j, i)
    BY <1>9, <2>1 DEF Marked
  <2> QED BY <1>8, <1>10, <1>11, <2>1, <2>2
<1>12. CASE ~m.passack
  <2> DEFINE r == Advanced(y, m)
  <2>1. /\ r.rb \in RcvBufs /\ r.uq = y.uq /\ r.out = y.out
        /\ r.rb.slot = y.rb.slot /\ r.rb.start = NextPos(m.q) /\ r.rb.ack = y.rb.ack
        /\ r.rb.max = y.rb.max
    BY <1>7, TakenIs
  <2> HIDE DEF r
  <2>2. /\ y.rb.ack = st.rb.ack /\ y.rb.max = st.rb.max
        /\ \A k \in 0 .. N - 1 :
             /\ y.rb.slot[A(k)] = IF j <= k /\ k < j + len THEN NoUnit ELSE v(k)
             /\ v(k) # NoUnit /\ ~(j <= k /\ k < j + len) =>
                  y.uq.pkt[v(k)] = st.uq.pkt[v(k)] /\ y.uq.flag[v(k)] = st.uq.flag[v(k)]
    BY <1>7, <1>12 DEF Took
  <2>3. ASSUME j = 0 PROVE Dropped(st.rb, st.uq, r.rb, r.uq, i + 1)
    <3>1. \A k \in 0 .. N - 1 : /\ (j <= k /\ k < j + len) <=> k < i + 1
                                /\ k >= i + 1 => ~(j <= k /\ k < j + len)
      BY <1>1, <2>3
    <3>2. r.rb.start = At(st.rb, i + 1)
      BY <1>2, <2>1
    <3> HIDE DEF v
    <3>3. \A k \in 0 .. N - 1 : r.rb.slot[A(k)] = IF k < i + 1 THEN NoUnit ELSE v(k)
      BY <2>1, <2>2, <3>1
    <3>4. \A k \in 0 .. N - 1 : k >= i + 1 /\ v(k) # NoUnit =>
            r.uq.pkt[v(k)] = st.uq.pkt[v(k)] /\ r.uq.flag[v(k)] = st.uq.flag[v(k)]
      BY <2>1, <2>2, <3>1
    <3> QED BY <2>1, <2>2, <3>2, <3>3, <3>4 DEF Dropped, v
  <2>4. TakeMsg(st, m) = r
    BY <1>8, <1>12 DEF r
  <2> QED BY <1>10, <1>12, <2>1, <2>3, <2>4
<1> QED BY <1>11, <1>12

\* Of a message that fills the buffer nothing is taken.
LEMMA TakeNothing ==
  ASSUME NEW st \in Messaging, Sound(st.rb, st.uq), NEW m \in Looks, m.passack,
         m.p = NextPos(m.q), m.p \in Positions
  PROVE  LET r == TakeMsg(st, m) IN r.rb = st.rb /\ r.uq = st.uq /\ r.out = <<>>
<1>1. PICK x : /\ x[0] = TakeStart(st, m)
               /\ TakeMsg(st, m) = IF m.passack THEN x[RcvSlots] ELSE Advanced(x[RcvSlots], m)
               /\ \A k \in Nat : /\ x[k] \in Taking /\ Sound(x[k].rb, x[k].uq)
                                 /\ x[k + 1] = TakeUnit(x[k], m)
  BY TakeMsgRuns, Zenon
<1> DEFINE a == TakeStart(st, m)
<1>2. a.rb = st.rb /\ a.uq = st.uq /\ a.out = <<>> /\ a.p = m.p
  BY DEF TakeStart
<1> HIDE DEF a
<1>3. TakeUnit(a, m) = a
  BY <1>2 DEF TakeUnit
<1> DEFINE P == {k \in Nat : x[k] = a}
<1>4. P = Nat
  <2>1. P \subseteq Nat /\ 0 \in P /\ \A k \in P : k + 1 \in P
    BY <1>1, <1>3 DEF a
  <2> HIDE DEF P
  <2> QED BY <2>1, AllNaturals
<1>5. x[RcvSlots] = a
  BY <1>4, PositionsAre
<1>6. TakeMsg(st, m) = a
  BY <1>1, <1>5
<1> QED BY <1>2, <1>6

\* A whole message that is not one of done lies from slot j to slot i.
Holds(st, done, base, j, i) ==
  /\ IsWhole(base + 1 + j, base + 1 + i) /\ Msg(base + 1 + j) \notin done
  /\ i < RcvSlots - 1 /\ (InOrder(st, At(st.rb, i)) <=> Messages[base + 1 + j][4])
  /\ \A k \in j .. i : /\ st.rb.slot[At(st.rb, k)] # NoUnit
                       /\ st.uq.pkt[st.rb.slot[At(st.rb, k)]] = base + 1 + k

\* What scanMsg takes for a message is one, not read before.
LEMMA FoundIsWhole ==
  ASSUME NEW st, NEW c, NEW done, IsMessages(st.rb, st.uq, c, done),
         NEW i \in 0 .. RcvSlots - 1, NEW j \in 0 .. i, Message(st, j, i),
         NEW base \in Nat, base = c - getRcvDataSize(st.rb)
  PROVE  Holds(st, done, base, j, i)
<1> DEFINE a == base + 1 + j
           b == base + 1 + i
           N == RcvSlots
<1>1. N \in Nat /\ N > 2 /\ j \in Nat /\ i \in Nat /\ j <= i /\ i <= N - 1
  BY PositionsAre
<1>2. \A k \in j .. i : k \in 0 .. N - 1 /\ Usable(st, At(st.rb, k))
  BY <1>1 DEF Message
<1>3. ASSUME NEW k \in j .. i
      PROVE  /\ st.rb.slot[At(st.rb, k)] # NoUnit /\ base + 1 + k \in Packets /\ k # N - 1
             /\ st.uq.pkt[st.rb.slot[At(st.rb, k)]] = base + 1 + k /\ Msg(base + 1 + k) \notin done
             /\ IsFirst(st, At(st.rb, k)) <=> Messages[base + 1 + k][2]
             /\ IsLast(st, At(st.rb, k)) <=> Messages[base + 1 + k][3]
             /\ InOrder(st, At(st.rb, k)) <=> Messages[base + 1 + k][4]
  <2>1. k \in 0 .. RcvSlots - 1 /\ Usable(st, At(st.rb, k))
    BY <1>2
  <2>2. Shows(st, base, done, k)
    BY <2>1, UseIs
  <2> QED BY <2>1, <2>2, Zenon DEF Shows
<1>4. j \in j .. i /\ i \in j .. i
  BY <1>1
<1>5. a \in Packets /\ b \in Packets /\ a <= b /\ Messages[a][2] /\ Messages[b][3]
  BY <1>1, <1>3, <1>4 DEF Message
<1>6. ASSUME NEW s \in Packets, a < s, s <= b PROVE ~Messages[s][2]
  <2> DEFINE k == s - base - 1
  <2>1. k \in j + 1 .. i /\ k \in j .. i /\ base + 1 + k = s
    <3>1. s \in Nat
      BY DEF Packets
    <3> QED BY <1>1, <1>6, <3>1
  <2> HIDE DEF k
  <2>2. ~IsFirst(st, At(st.rb, k))
    BY <2>1 DEF Message
  <2> QED BY <1>3, <2>1, <2>2
<1>7. IsWhole(a, b)
  <2> HIDE DEF a, b
  <2> QED BY <1>5, <1>6, WholeMessage
<1>8. Messages[a][4] = Messages[b][4]
  <2>1. b <= b /\ a <= b
    BY <1>1
  <2>2. Msg(b) = Msg(a)
    <3> HIDE DEF a, b
    <3> QED BY <1>5, <1>7, <2>1 DEF IsWhole
  <2> QED BY <1>5, <2>2, PacketsAre
<1>9. i < N - 1
  BY <1>1, <1>3, <1>4
<1>10. Msg(a) \notin done /\ (InOrder(st, At(st.rb, i)) <=> Messages[b][4])
  BY <1>3, <1>4
<1> QED BY <1>3, <1>7, <1>8, <1>9, <1>10 DEF Holds

\* A message in order is the first there is.
LEMMA FoundIsFirst ==
  ASSUME NEW st, NEW c, NEW done, IsMessages(st.rb, st.uq, c, done), Stops(st),
         st.rb \in RcvBufs, NEW m, NEW i \in 0 .. RcvSlots - 1, NEW j \in 0 .. i,
         Finds(st, m, j, i), i < getRcvDataSize(st.rb)
  PROVE  j = 0
<1> DEFINE size == getRcvDataSize(st.rb)
           base == c - size
           N == RcvSlots
           A(k) == At(st.rb, k)
<1>1. /\ N \in Nat /\ N > 2 /\ size \in 0 .. N - 1 /\ i < size /\ A(0) = st.rb.start
      /\ A(size) = st.rb.ack /\ j \in Nat /\ i \in Nat /\ j <= i
  <2>1. size \in 0 .. N - 1 /\ A(0) = st.rb.start /\ A(size) = st.rb.ack
    BY AtIs
  <2>2. N \in Nat /\ N > 2
    BY PositionsAre
  <2>3. j \in Nat /\ i \in Nat /\ j <= i
    BY <2>2
  <2> QED BY <2>1, <2>2, <2>3
<1>2. base \in Nat /\ \A k \in 0 .. size - 1 : st.rb.slot[A(k)] # NoUnit
  BY PacketsAre DEF IsMessages
<1>3. Message(st, j, i) /\ NoneBefore(st, i)
  BY DEF Finds
<1>4. GoodFrom(st)
  <2>1. 0 \in 0 .. N - 1 /\ 0 # size
    BY <1>1
  <2>2. A(0) # A(size)
    BY <1>1, <2>1, AtIs
  <2> QED BY <1>1, <2>2 DEF Stops
<1>5. /\ IsFirst(st, A(0))
      /\ \A k \in 0 .. size - 1 : ~Usable(st, A(k)) => \E l \in 0 .. k - 1 : IsLast(st, A(l))
  BY <1>1, <1>4 DEF GoodFrom, At
<1>6. \A k \in 0 .. size - 1 : /\ base + 1 + k \in Packets
                               /\ IsFirst(st, A(k)) <=> Messages[base + 1 + k][2]
                               /\ IsLast(st, A(k)) <=> Messages[base + 1 + k][3]
  <2> TAKE k \in 0 .. size - 1
  <2>1. k \in 0 .. RcvSlots - 1 /\ st.rb.slot[At(st.rb, k)] # NoUnit
    BY <1>1, <1>2
  <2> HIDE DEF A
  <2>2. /\ base + 1 + k \in Packets
        /\ IsFirst(st, At(st.rb, k)) <=> Messages[base + 1 + k][2]
        /\ IsLast(st, At(st.rb, k)) <=> Messages[base + 1 + k][3]
    <3>1. Shows(st, base, done, k)
      BY <2>1, UseIs
    <3> QED BY <2>1, <3>1 DEF Shows
  <2> QED BY <2>2 DEF A
<1> HIDE DEF A, size, base
<1>7. ASSUME NEW k \in 1 .. size - 1, IsFirst(st, A(k)) PROVE IsLast(st, A(k - 1))
  <2> DEFINE s == base + 1 + (k - 1)
             t == base + 1 + k
  <2>1. k - 1 \in 0 .. size - 1 /\ k \in 0 .. size - 1 /\ t = s + 1
    BY <1>1, <1>2
  <2>2. s \in Packets /\ t \in Packets /\ Messages[t][2]
    BY <1>6, <1>7, <2>1
  <2>3. IsLast(st, A(k - 1)) <=> Messages[s][3]
    BY <1>6, <2>1
  <2> HIDE DEF s, t
  <2> QED BY <2>1, <2>2, <2>3, PacketsAre
<1>8. SUFFICES ASSUME j # 0 PROVE FALSE
  OBVIOUS
<1> DEFINE T == {l \in 0 .. j - 1 : IsLast(st, A(l))}
<1>9. T # {} /\ T \subseteq Nat
  <2>1. j \in 1 .. size - 1 /\ j - 1 \in 0 .. j - 1
    BY <1>1, <1>8
  <2>2. IsFirst(st, A(j))
    BY <1>3 DEF Message, A
  <2>3. IsLast(st, A(j - 1))
    BY <1>7, <2>1, <2>2
  <2> QED BY <2>1, <2>3
<1>10. PICK l \in T : \A n \in T : l <= n
  <2> HIDE DEF T
  <2> QED BY <1>9, LeastIn
<1>11. l \in Nat /\ l < j /\ l < i /\ IsLast(st, A(l)) /\ \A n \in 0 .. l - 1 : ~IsLast(st, A(n))
  <2>1. l \in Nat /\ l < j /\ l < i /\ IsLast(st, A(l))
    BY <1>1, <1>10
  <2>2. ASSUME NEW n \in 0 .. l - 1 PROVE ~IsLast(st, A(n))
    <3>1. n \in 0 .. j - 1 /\ ~(l <= n)
      BY <1>1, <2>1
    <3> QED BY <1>10, <3>1
  <2> QED BY <2>1, <2>2
<1>12. Message(st, 0, l)
  <2>1. ASSUME NEW k \in 0 .. l PROVE Usable(st, A(k))
    <3>1. k \in 0 .. size - 1 /\ \A n \in 0 .. k - 1 : n \in 0 .. l - 1
      BY <1>1, <1>11
    <3> QED BY <1>5, <1>11, <3>1
  <2>2. ASSUME NEW k \in 0 + 1 .. l PROVE ~IsFirst(st, A(k))
    <3>1. k \in 1 .. size - 1 /\ k - 1 \in 0 .. l - 1
      BY <1>1, <1>11
    <3> QED BY <1>7, <1>11, <3>1
  <2> QED BY <1>5, <1>11, <2>1, <2>2 DEF Message, A
<1>13. 0 \in 0 .. i - 1 /\ l \in 0 .. i - 1 /\ l < size
  BY <1>1, <1>11
<1> QED BY <1>3, <1>12, <1>13 DEF NoneBefore, size

\* The unread messages of rb that one call of readMsg hands out: none, or one
\* that is whole, and next in order if it has to be.
Reads(r, c, done) ==
  \/ r.out = <<>> /\ IsMessages(r.rb, r.uq, c, done) /\ LeftBehind(r.rb, c, done)
  \/ \E a, b \in Packets :
       /\ IsWhole(a, b) /\ r.out = Row(a - 1, b - a + 1) /\ Msg(a) \notin done
       /\ Messages[a][4] =>
            \A s \in Packets : Messages[s][4] /\ Msg(s) \in done => Msg(s) < Msg(a)
       /\ IsMessages(r.rb, r.uq, c, done \cup {Msg(a)})
       /\ LeftBehind(r.rb, c, done \cup {Msg(a)})

\* The units of slots j to i, marked.
MarkedUnits(rb, uq, j, i) ==
  [pkt |-> uq.pkt,
   flag |-> [u \in AllUnits |->
               IF \E k \in j .. i : rb.slot[At(rb, k)] = u THEN 2 ELSE uq.flag[u]]]

LEMMA MarkedUnitsAre ==
  ASSUME NEW rb, NEW uq, Sound(rb, uq), NEW j \in 0 .. RcvSlots - 1, NEW i \in 0 .. RcvSlots - 1
  PROVE  Marked(rb, uq, MarkedUnits(rb, uq, j, i), j, i)
<1> DEFINE ub == MarkedUnits(rb, uq, j, i)
           v(k) == rb.slot[At(rb, k)]
<1>1. RcvSlots \in Nat /\ rb \in RcvBufs /\ rb.slot \in [Positions -> AllUnits \cup {NoUnit}]
  BY PositionsAre DEF Sound, RcvBufs
<1>2. ub.pkt = uq.pkt /\ \A u \in AllUnits :
        ub.flag[u] = IF \E k \in j .. i : v(k) = u THEN 2 ELSE uq.flag[u]
  BY DEF MarkedUnits
<1> HIDE DEF ub
<1>3. ASSUME NEW k \in 0 .. RcvSlots - 1, v(k) # NoUnit
      PROVE  ub.flag[v(k)] = IF j <= k /\ k <= i THEN 2 ELSE uq.flag[v(k)]
  <2>1. v(k) \in AllUnits
    BY <1>1, <1>3, AtIs
  <2>2. (\E l \in j .. i : v(l) = v(k)) <=> j <= k /\ k <= i
    <3>1. CASE j <= k /\ k <= i
      <4>1. k \in j .. i
        BY <1>1, <3>1
      <4> HIDE DEF v
      <4> QED BY <3>1, <4>1
    <3>2. CASE ~(j <= k /\ k <= i)
      <4>1. \A l \in j .. i : l \in 0 .. RcvSlots - 1 /\ l # k
        BY <1>1, <3>2
      <4>2. \A l \in j .. i : v(l) # v(k)
        BY <1>3, <4>1, UnitsDiffer
      <4> HIDE DEF v
      <4> QED BY <3>2, <4>2
    <3> QED BY <3>1, <3>2
  <2> HIDE DEF v
  <2> QED BY <1>2, <2>1, <2>2
<1>4. ub.pkt = uq.pkt
  BY <1>2
<1> QED BY <1>3, <1>4 DEF Marked, ub

LEMMA FoundIsRead ==
  ASSUME NEW st \in Messaging, Sound(st.rb, st.uq), NEW c \in Nat, NEW done,
         IsMessages(st.rb, st.uq, c, done), LeftBehind(st.rb, c, done), Stops(st),
         NEW m \in Looks, NEW i \in 0 .. RcvSlots - 1, NEW j \in 0 .. i, Finds(st, m, j, i)
  PROVE  Reads(TakeMsg(st, m), c, done)
<1> DEFINE size == getRcvDataSize(st.rb)
           base == c - size
           a == base + 1 + j
           b == base + 1 + i
           N == RcvSlots
           r == TakeMsg(st, m)
           more == done \cup {Msg(a)}
<1>1. /\ N \in Nat /\ N > 2 /\ st.rb \in RcvBufs /\ st.uq \in UnitQs /\ size \in 0 .. N - 1
      /\ j \in 0 .. N - 1 /\ j \in Nat /\ i \in Nat /\ j <= i
  BY PositionsAre, AtIs DEF Messaging
<1>2. base \in Nat /\ base = c - size
  BY PacketsAre DEF IsMessages
<1>3. /\ Message(st, j, i) /\ m.p = At(st.rb, j) /\ m.q = At(st.rb, i)
      /\ m.passack <=> i >= size
      /\ m.passack => ~InOrder(st, At(st.rb, i))
  BY DEF Finds
<1>4. /\ IsWhole(a, b) /\ Msg(a) \notin done /\ i < N - 1
      /\ InOrder(st, At(st.rb, i)) <=> Messages[a][4]
      /\ \A k \in j .. i : /\ st.rb.slot[At(st.rb, k)] # NoUnit
                           /\ st.uq.pkt[st.rb.slot[At(st.rb, k)]] = base + 1 + k
  <2> HIDE DEF base
  <2>0. base \in Nat /\ base = c - getRcvDataSize(st.rb) /\ Message(st, j, i)
    BY <1>2, <1>3
  <2>1. Holds(st, done, base, j, i)
    BY <2>0, FoundIsWhole
  <2> QED BY <2>1, Zenon DEF Holds
<1>5. ~m.passack => j = 0
  <2>1. ASSUME ~m.passack PROVE i < size
    BY <1>1, <1>3, <2>1
  <2> QED BY <1>1, <2>1, FoundIsFirst
<1>6. /\ r.out = Row(base + j, i - j + 1)
      /\ m.passack => r.rb = st.rb /\ Marked(st.rb, st.uq, r.uq, j, i)
      /\ ~m.passack => r.rb \in RcvBufs /\ Dropped(st.rb, st.uq, r.rb, r.uq, i + 1)
  <2>1. base \in Int /\ m.p = At(st.rb, j) /\ m.q = At(st.rb, i) /\ i < N - 1
    BY <1>2, <1>3, <1>4
  <2>2. Lies(st, base, j, i)
    BY <1>4 DEF Lies
  <2> HIDE DEF base
  <2>3. /\ r.out = Row(base + j, i - j + 1)
        /\ m.passack => r.rb = st.rb /\ Marked(st.rb, st.uq, r.uq, j, i)
        /\ ~m.passack /\ j = 0 => r.rb \in RcvBufs /\ Dropped(st.rb, st.uq, r.rb, r.uq, i + 1)
    BY <2>1, <2>2, TakeMsgIs
  <2> QED BY <1>5, <2>3
<1> HIDE DEF r
<1>7. r.out = Row(a - 1, b - a + 1)
  <2>1. b - a + 1 = i - j + 1
    BY <1>1, <1>2
  <2>2. a - 1 = base + j
    BY <1>1, <1>2
  <2> HIDE DEF a, b, base
  <2> QED BY <1>6, <2>1, <2>2
<1>8. /\ a \in Packets /\ b \in Packets /\ a <= b
      /\ \A s \in Packets : Msg(s) = Msg(a) <=> a <= s /\ s <= b
  BY <1>4 DEF IsWhole
<1>9. \A s \in Packets : Messages[s][4] /\ Msg(s) \in done => s <= base
  BY DEF LeftBehind
<1>10. \A s \in Packets : s \in Nat /\ Msg(s) \in Int
  BY PacketsAre DEF Packets
<1>11. ASSUME Messages[a][4], NEW s \in Packets, Messages[s][4], Msg(s) \in done
       PROVE  Msg(s) < Msg(a)
  <2>1. s <= base
    BY <1>9, <1>11
  <2>2. s < a
    BY <1>2, <1>10, <2>1
  <2>3. Msg(s) <= Msg(a)
    <3> HIDE DEF a
    <3> QED BY <1>8, <2>2, PacketsAre
  <2>4. Msg(s) # Msg(a)
    BY <1>4, <1>11
  <2> HIDE DEF a
  <2> QED BY <1>8, <1>10, <2>3, <2>4
<1>12. ASSUME IsMessages(r.rb, r.uq, c, more), LeftBehind(r.rb, c, more)
       PROVE  Reads(r, c, done)
  <2> HIDE DEF a, b
  <2>1. /\ IsWhole(a, b) /\ r.out = Row(a - 1, b - a + 1) /\ Msg(a) \notin done
        /\ Messages[a][4] =>
             \A s \in Packets : Messages[s][4] /\ Msg(s) \in done => Msg(s) < Msg(a)
        /\ IsMessages(r.rb, r.uq, c, done \cup {Msg(a)})
        /\ LeftBehind(r.rb, c, done \cup {Msg(a)})
    BY <1>4, <1>7, <1>11, <1>12
  <2> QED BY <1>8, <2>1, Zenon DEF Reads
<1>13. CASE m.passack
  <2>1. r.rb = st.rb /\ Marked(st.rb, st.uq, r.uq, j, i)
    BY <1>6, <1>13
  <2>2. IsMessages(st.rb, r.uq, c, more)
    <3> HIDE DEF base
    <3> QED BY <1>1, <1>2, <1>4, <2>1, MarkKeeps
  <2>3. ~Messages[a][4]
    BY <1>3, <1>4, <1>13
  <2>4. ASSUME NEW s \in Packets, Messages[s][4], Msg(s) \in more PROVE s <= base
    <3>1. Msg(s) # Msg(a)
      <4> HIDE DEF a
      <4> QED BY <1>8, <2>3, <2>4, PacketsAre
    <3> QED BY <1>9, <2>4, <3>1
  <2>5. LeftBehind(st.rb, c, more)
    BY <2>4 DEF LeftBehind
  <2> HIDE DEF more
  <2> QED BY <1>12, <2>1, <2>2, <2>5 DEF r
<1>14. CASE ~m.passack
  <2> DEFINE ub == MarkedUnits(st.rb, st.uq, j, i)
             d == i + 1
  <2>1. j = 0 /\ d \in 0 .. size /\ d <= N
    BY <1>1, <1>3, <1>5, <1>14
  <2>2. Marked(st.rb, st.uq, ub, j, i)
    BY <1>1, MarkedUnitsAre
  <2> HIDE DEF ub
  <2>3. IsMessages(st.rb, ub, c, more)
    <3> HIDE DEF base
    <3> QED BY <1>1, <1>2, <1>4, <2>2, MarkKeeps
  <2>4. r.rb \in RcvBufs /\ Dropped(st.rb, st.uq, r.rb, r.uq, d)
    BY <1>6, <1>14
  <2>5. Dropped(st.rb, ub, r.rb, r.uq, d)
    <3>1. ASSUME NEW k \in 0 .. N - 1, k >= d, st.rb.slot[At(st.rb, k)] # NoUnit
          PROVE  /\ r.uq.pkt[st.rb.slot[At(st.rb, k)]] = ub.pkt[st.rb.slot[At(st.rb, k)]]
                 /\ r.uq.flag[st.rb.slot[At(st.rb, k)]] = ub.flag[st.rb.slot[At(st.rb, k)]]
      <4>1. ~(j <= k /\ k <= i)
        BY <1>1, <3>1
      <4> DEFINE u == st.rb.slot[At(st.rb, k)]
      <4>2. r.uq.pkt[u] = st.uq.pkt[u] /\ r.uq.flag[u] = st.uq.flag[u]
        BY <2>4, <3>1 DEF Dropped
      <4>3. ub.pkt[u] = st.uq.pkt[u] /\ ub.flag[u] = st.uq.flag[u]
        BY <2>2, <3>1, <4>1 DEF Marked
      <4> QED BY <4>2, <4>3
    <3> HIDE DEF d
    <3> QED BY <2>4, <3>1 DEF Dropped
  <2>6. \A k \in 0 .. N - 1 : k < d => Msg(base + 1 + k) \in more
    <3> TAKE k \in 0 .. N - 1
    <3>1. SUFFICES ASSUME k < d PROVE Msg(base + 1 + k) \in more
      OBVIOUS
    <3> DEFINE s == base + 1 + k
    <3>2. a <= s /\ s <= b /\ s \in Nat
      BY <1>1, <1>2, <2>1, <3>1
    <3>3. s \in Packets
      <4> HIDE DEF a, b, s
      <4>1. 1 <= a /\ b <= Len(Messages) /\ a \in Int /\ b \in Int /\ Len(Messages) \in Int
        BY <1>8, PacketsAre DEF Packets
      <4> QED BY <3>2, <4>1 DEF Packets
    <3> HIDE DEF a, b, s
    <3>4. Msg(s) = Msg(a)
      BY <1>8, <3>2, <3>3
    <3> QED BY <3>4 DEF s
  <2>7. IsMessages(r.rb, r.uq, c, more) /\ getRcvDataSize(r.rb) = size - d
    <3> HIDE DEF more, d, r, ub
    <3> DEFINE x == st.rb
               y == r.rb
               f == r.uq
    <3>1. x \in RcvBufs /\ y \in RcvBufs /\ IsMessages(x, ub, c, more) /\ Dropped(x, ub, y, f, d)
      BY <1>1, <2>3, <2>4, <2>5
    <3>2. d \in 0 .. getRcvDataSize(x) /\ WereRead(more, c - getRcvDataSize(x), d)
      BY <2>1, <2>6 DEF WereRead
    <3> HIDE DEF base, size, N, x, y, f
    <3>3. IsMessages(y, f, c, more) /\ getRcvDataSize(y) = getRcvDataSize(x) - d
      BY <3>1, <3>2, DropKeeps
    <3> QED BY <3>3 DEF size, x, y, f
  <2>8. c - getRcvDataSize(r.rb) = b
    BY <1>1, <1>2, <2>7
  <2>9. ASSUME NEW s \in Packets, Messages[s][4], Msg(s) \in more PROVE s <= b
    <3>1. CASE Msg(s) = Msg(a)
      <4> HIDE DEF a, b
      <4> QED BY <1>8, <3>1
    <3>2. CASE Msg(s) \in done
      <4>1. s <= base
        BY <1>9, <2>9, <3>2
      <4> QED BY <1>1, <1>2, <1>10, <4>1
    <3> QED BY <2>9, <3>1, <3>2
  <2>10. LeftBehind(r.rb, c, more)
    <3> HIDE DEF b, more
    <3> QED BY <2>8, <2>9 DEF LeftBehind
  <2> HIDE DEF more
  <2> QED BY <1>12, <2>7, <2>10 DEF r
<1> QED BY <1>13, <1>14 DEF r

\* recvmsg returns a message that was not read before, or nothing.
LEMMA readMsgReads ==
  ASSUME NEW rb, NEW uq, Sound(rb, uq), NEW c \in Nat, NEW done,
         IsMessages(rb, uq, c, done), LeftBehind(rb, c, done)
  PROVE  Reads(readMsg(rb, uq), c, done)
<1> DEFINE st0 == [rb |-> rb, uq |-> uq, out |-> <<>>]
           st == SkipBad(st0)
           m == Scan(st)
<1>1. /\ st0 \in Messaging /\ Sound(st0.rb, st0.uq) /\ st0.out = <<>>
      /\ IsMessages(st0.rb, st0.uq, c, done) /\ LeftBehind(st0.rb, c, done)
  <2>1. <<>> \in Seq(Values)
    OBVIOUS
  <2> QED BY <2>1 DEF Messaging, Sound, IsUnits
<1> HIDE DEF st0
<1>2. /\ st \in Messaging /\ Sound(st.rb, st.uq) /\ st.out = <<>> /\ Stops(st)
      /\ IsMessages(st.rb, st.uq, c, done) /\ LeftBehind(st.rb, c, done)
  BY <1>1, SkipBadKeeps, SkipBadDrops
<1>3. \/ readMsg(rb, uq) = st0 \/ readMsg(rb, uq) = st
      \/ m.found /\ readMsg(rb, uq) = TakeMsg(st, m)
  BY DEF readMsg, st0
<1> HIDE DEF st
<1>4. CASE readMsg(rb, uq) = st0
  BY <1>1, <1>4 DEF Reads
<1>5. CASE readMsg(rb, uq) = st
  BY <1>2, <1>5 DEF Reads
<1>6. CASE m.found /\ readMsg(rb, uq) = TakeMsg(st, m)
  <2>1. st.rb \in RcvBufs /\ getRcvDataSize(st.rb) + st.rb.max <= RcvSlots - 1
    BY <1>2 DEF Messaging, IsMessages
  <2>2. m \in Looks /\ m.p \in Positions
    BY <1>6, <2>1, ScanFinds
  <2>3. \/ \E i \in 0 .. RcvSlots - 1 : \E j \in 0 .. i : Finds(st, m, j, i)
        \/ m.passack /\ m.p = NextPos(m.q)
    BY <1>6, <2>1, ScanIs
  <2> HIDE DEF m
  <2>4. CASE \E i \in 0 .. RcvSlots - 1 : \E j \in 0 .. i : Finds(st, m, j, i)
    BY <1>2, <1>6, <2>2, <2>4, FoundIsRead
  <2>5. CASE m.passack /\ m.p = NextPos(m.q)
    <3> DEFINE r == TakeMsg(st, m)
    <3>1. r.rb = st.rb /\ r.uq = st.uq /\ r.out = <<>>
      BY <1>2, <2>2, <2>5, TakeNothing
    <3> HIDE DEF r
    <3>2. Reads(r, c, done)
      BY <1>2, <3>1 DEF Reads
    <3> QED BY <1>6, <3>2 DEF r
  <2> QED BY <2>3, <2>4, <2>5
<1> QED BY <1>3, <1>4, <1>5, <1>6

\* What the arrival of a packet does to the buffer: v is the unit of the packet,
\* k its place.
Arrived(v, k) ==
  /\ v \in AllUnits /\ units.flag[v] = 0 /\ k \in 0 .. RcvSlots - 2
  /\ rcvBuf.slot[At(rcvBuf, k)] = NoUnit
  /\ rcvBase - getRcvDataSize(rcvBuf) + k <= Len(Messages)
  /\ rcvBuf'.start = rcvBuf.start /\ rcvBuf'.ack = rcvBuf.ack /\ rcvBuf'.notch = rcvBuf.notch
  /\ rcvBuf'.max \in {rcvBuf.max, k - getRcvDataSize(rcvBuf)}
  /\ \A j \in 0 .. RcvSlots - 1 :
       rcvBuf'.slot[At(rcvBuf, j)] = IF j = k THEN v ELSE rcvBuf.slot[At(rcvBuf, j)]
  /\ \A u \in AllUnits :
       /\ units'.flag[u] = IF u = v THEN 1 ELSE units.flag[u]
       /\ units'.pkt[u] = IF u = v THEN rcvBase - getRcvDataSize(rcvBuf) + k ELSE units.pkt[u]

LEMMA ArrivalIs ==
  ASSUME RbInv, NEW offset \in 0 .. RcvSlots - 1, NEW lost \in BOOLEAN, RbArrives(offset, lost)
  PROVE  \/ rcvBuf' = rcvBuf /\ units'.flag = units.flag /\ units'.pkt = units.pkt
         \/ \E v, k : Arrived(v, k)
<1> DEFINE r == getNextAvailUnit(units)
           p == (rcvBuf.ack + offset) % RcvSlots
           taker == /\ r.unit # NoUnit
                    /\ offset < getAvailBufSize(rcvBuf)
                    /\ rcvBuf.slot[p] = NoUnit
           q == r.uq
           v == r.unit
           size == getRcvDataSize(rcvBuf)
           k == size + offset
<1>1. /\ rcvBuf \in RcvBufs /\ IsUnits(units) /\ rcvBase \in Nat /\ rcvBase + offset <= Len(Messages)
      /\ offset \in Nat /\ RcvSlots \in Nat /\ RcvSlots > 2 /\ size \in 0 .. RcvSlots - 1
      /\ rcvBuf.slot \in [Positions -> AllUnits \cup {NoUnit}]
  <2>1. Sound(rcvBuf, units) /\ rcvBase \in Nat /\ rcvBase + offset <= Len(Messages)
    BY DEF RbInv, RbArrives
  <2>2. rcvBuf \in RcvBufs /\ IsUnits(units)
    BY <2>1 DEF Sound
  <2>3. offset \in Nat /\ RcvSlots \in Nat /\ RcvSlots > 2 /\ size \in 0 .. RcvSlots - 1
    BY <2>2, PositionsAre, DataSizeIs
  <2>4. rcvBuf.slot \in [Positions -> AllUnits \cup {NoUnit}]
    BY <2>2 DEF RcvBufs
  <2> QED BY <2>1, <2>2, <2>3, <2>4
<1>2. /\ q.pkt = units.pkt /\ q.flag = units.flag /\ q \in UnitQs
      /\ v # NoUnit => v \in AllUnits /\ units.flag[v] = 0
  BY <1>1, AskedFor DEF IsUnits
<1>3. CASE ~taker
  <2>1. units' = q /\ rcvBuf' = rcvBuf
    BY <1>3 DEF RbArrives
  <2> HIDE DEF q
  <2> QED BY <1>2, <2>1
<1>4. CASE taker
  <2>1. /\ rcvBuf' = [rcvBuf EXCEPT !.slot[p] = v, !.max = IF offset > @ THEN offset ELSE @]
        /\ units' = [q EXCEPT !.flag[v] = 1, !.pkt[v] = rcvBase + offset,
                              !.count = CountTo(@, @ + 1, lost)]
        /\ v # NoUnit /\ rcvBuf.slot[p] = NoUnit /\ offset < getAvailBufSize(rcvBuf)
    BY <1>4 DEF RbArrives
  <2> HIDE DEF taker, v, q, size
  <2>2. k \in 0 .. RcvSlots - 2 /\ k \in 0 .. RcvSlots - 1
    <3>1. offset < RcvSlots - size - 1
      BY <2>1 DEF getAvailBufSize, size
    <3> QED BY <1>1, <3>1
  <2>3. p = At(rcvBuf, k)
    <3>1. size + offset <= RcvSlots - 1
      BY <1>1, <2>2
    <3> QED BY <1>1, <3>1, AtAck DEF size
  <2>4. p \in Positions /\ \A j \in 0 .. RcvSlots - 1 :
          At(rcvBuf, j) \in Positions /\ (At(rcvBuf, j) = p <=> j = k)
    BY <1>1, <2>2, <2>3, AtIs
  <2> HIDE DEF p
  <2>5. /\ rcvBuf'.slot = [rcvBuf.slot EXCEPT ![p] = v] /\ rcvBuf'.start = rcvBuf.start
        /\ rcvBuf'.ack = rcvBuf.ack /\ rcvBuf'.notch = rcvBuf.notch
        /\ rcvBuf'.max = IF offset > rcvBuf.max THEN offset ELSE rcvBuf.max
    BY <1>1, <2>1 DEF RcvBufs
  <2>6. /\ units'.pkt = [q.pkt EXCEPT ![v] = rcvBase + offset]
        /\ units'.flag = [q.flag EXCEPT ![v] = 1]
    BY <1>2, <2>1 DEF UnitQs
  <2>7. q.pkt \in [AllUnits -> Int] /\ q.flag \in [AllUnits -> Nat] /\ v \in AllUnits
        /\ units.flag[v] = 0
    BY <1>2, <2>1 DEF UnitQs
  <2>8. \A j \in 0 .. RcvSlots - 1 :
          rcvBuf'.slot[At(rcvBuf, j)] = IF j = k THEN v ELSE rcvBuf.slot[At(rcvBuf, j)]
    <3> HIDE DEF k
    <3> QED BY <1>1, <2>4, <2>5
  <2>9. rcvBase + offset = rcvBase - size + k /\ offset = k - size
    BY <1>1
  <2>10. \A u \in AllUnits :
           /\ units'.flag[u] = IF u = v THEN 1 ELSE units.flag[u]
           /\ units'.pkt[u] = IF u = v THEN rcvBase - size + k ELSE units.pkt[u]
    <3> HIDE DEF k
    <3> QED BY <1>2, <2>6, <2>7, <2>9
  <2>11. rcvBuf.slot[At(rcvBuf, k)] = NoUnit
    BY <2>1, <2>3
  <2>12. rcvBase - size + k <= Len(Messages)
    BY <1>1, <2>9
  <2> HIDE DEF k
  <2>13. Arrived(v, k)
    BY <2>2, <2>5, <2>7, <2>8, <2>9, <2>10, <2>11, <2>12 DEF Arrived, size
  <2> QED BY <2>13
<1> QED BY <1>3, <1>4

\* What an acknowledgement does to the buffer when its last slot is empty: n
\* packets in a row become ready.
LEMMA AckIs ==
  ASSUME RbInv, RbAck, rcvBuf.slot[At(rcvBuf, RcvSlots - 1)] = NoUnit
  PROVE  \E n \in Nat :
           /\ rcvBase' = rcvBase + n /\ getRcvDataSize(rcvBuf) + n <= RcvSlots - 1
           /\ getRcvDataSize(rcvBuf') = getRcvDataSize(rcvBuf) + n
           /\ rcvBuf'.slot = rcvBuf.slot /\ rcvBuf'.start = rcvBuf.start
           /\ rcvBuf'.notch = rcvBuf.notch
           /\ rcvBuf'.max = IF rcvBuf.max - n < 0 THEN 0 ELSE rcvBuf.max - n
           /\ \A k \in 0 .. RcvSlots - 1 :
                /\ getRcvDataSize(rcvBuf) <= k /\ k < getRcvDataSize(rcvBuf) + n =>
                     rcvBuf.slot[At(rcvBuf, k)] # NoUnit
<1> DEFINE n == Ready(rcvBuf)
           size == getRcvDataSize(rcvBuf)
<1>1. /\ rcvBuf \in RcvBufs /\ rcvBase \in Nat
      /\ rcvBuf' = Acked(rcvBuf, n) /\ rcvBase' = rcvBase + n
  BY DEF RbInv, Sound, RbAck
<1>2. /\ n \in 0 .. RcvSlots - 1 /\ size \in 0 .. RcvSlots - 1 /\ RcvSlots \in Nat
      /\ \A k \in 0 .. n - 1 : rcvBuf.slot[(rcvBuf.ack + k) % RcvSlots] # NoUnit
  BY <1>1, ReadyIs, DataSizeIs, PositionsAre
<1> HIDE DEF n, size
<1>3. \A k \in 0 .. n - 1 : size + k <= RcvSlots - 1 => rcvBuf.slot[At(rcvBuf, size + k)] # NoUnit
  <2> TAKE k \in 0 .. n - 1
  <2>1. k \in Nat
    BY <1>2
  <2> QED BY <1>1, <1>2, <2>1, AtAck DEF size
<1>4. size + n <= RcvSlots - 1
  <2>1. CASE size + n > RcvSlots - 1
    <3> DEFINE k == RcvSlots - 1 - size
    <3>1. k \in 0 .. n - 1 /\ size + k = RcvSlots - 1
      BY <1>2, <2>1
    <3> HIDE DEF k
    <3>2. size + k <= RcvSlots - 1
      BY <1>2, <3>1
    <3>3. rcvBuf.slot[At(rcvBuf, size + k)] # NoUnit
      BY <1>3, <3>1, <3>2
    <3> QED BY <3>1, <3>3
  <2> QED BY <1>2, <2>1
<1>5. /\ rcvBuf'.slot = rcvBuf.slot /\ rcvBuf'.start = rcvBuf.start
      /\ rcvBuf'.notch = rcvBuf.notch /\ rcvBuf'.ack = (rcvBuf.ack + n) % RcvSlots
      /\ rcvBuf'.max = IF rcvBuf.max - n < 0 THEN 0 ELSE rcvBuf.max - n
  BY <1>1 DEF Acked, RcvBufs
<1>6. rcvBuf'.ack = At(rcvBuf, size + n)
  <2>1. n \in Nat
    BY <1>2
  <2> QED BY <1>1, <1>4, <1>5, <2>1, AtAck DEF size
<1>7. getRcvDataSize(rcvBuf') = size + n
  <2> DEFINE s == rcvBuf.start
             a == rcvBuf'.ack
             m == size + n
  <2>1. m \in 0 .. RcvSlots - 1
    BY <1>2, <1>4
  <2>2. a = IF s + m < RcvSlots THEN s + m ELSE s + m - RcvSlots
    BY <1>1, <1>6, <2>1, AtIs
  <2>3. s \in 0 .. RcvSlots - 1
    BY <1>1 DEF RcvBufs, Positions
  <2>4. getRcvDataSize(rcvBuf') = IF a >= s THEN a - s ELSE RcvSlots + a - s
    BY <1>5 DEF getRcvDataSize
  <2> HIDE DEF s, a, m
  <2>5. (IF a >= s THEN a - s ELSE RcvSlots + a - s) = m
    BY <1>2, <2>1, <2>2, <2>3
  <2> QED BY <2>4, <2>5 DEF m
<1>8. \A k \in 0 .. RcvSlots - 1 : size <= k /\ k < size + n => rcvBuf.slot[At(rcvBuf, k)] # NoUnit
  <2> TAKE k \in 0 .. RcvSlots - 1
  <2>1. SUFFICES ASSUME size <= k, k < size + n PROVE rcvBuf.slot[At(rcvBuf, k)] # NoUnit
    OBVIOUS
  <2> DEFINE j == k - size
  <2>2. j \in 0 .. n - 1 /\ size + j = k /\ size + j <= RcvSlots - 1
    BY <1>2, <2>1
  <2> HIDE DEF j
  <2>3. rcvBuf.slot[At(rcvBuf, size + j)] # NoUnit
    BY <1>3, <2>2
  <2> QED BY <2>2, <2>3
<1>9. n \in Nat
  BY <1>2
<1> QED BY <1>1, <1>4, <1>5, <1>7, <1>8, <1>9 DEF size

\* The messages that were read, as tk says.
Read(tk) == {Msg(tk[i][1]) : i \in 1 .. Len(tk)}

\* tk is of whole messages, none twice, and those in order in their order.
IsRead(tk) ==
  /\ tk \in Seq(Seq(Int))
  /\ \A i \in 1 .. Len(tk) : \E a, b \in Packets : IsWhole(a, b) /\ tk[i] = Row(a - 1, b - a + 1)
  /\ \A i, j \in 1 .. Len(tk) : i < j =>
       /\ Msg(tk[i][1]) # Msg(tk[j][1])
       /\ Messages[tk[i][1]][4] /\ Messages[tk[j][1]][4] => Msg(tk[i][1]) < Msg(tk[j][1])

LEMMA RowIs ==
  ASSUME NEW a \in Packets, NEW b \in Packets, a <= b
  PROVE  LET r == Row(a - 1, b - a + 1) IN
         /\ r \in Seq(Int) /\ r # <<>> /\ r[1] = a /\ DOMAIN r = 1 .. b - a + 1
         /\ {r[k] : k \in 1 .. b - a + 1} = a .. b
<1> DEFINE n == b - a + 1
           r == Row(a - 1, n)
<1>1. a \in Nat /\ b \in Nat /\ n \in Nat /\ n > 0
  BY DEF Packets
<1> HIDE DEF n
<1>2. DOMAIN r = 1 .. n /\ \A k \in 1 .. n : r[k] = a - 1 + k
  BY DEF Row
<1>3. r \in Seq(Int) /\ Len(r) = n
  BY <1>1 DEF Row
<1>4. r # <<>>
  <2>1. Len(r) # 0
    BY <1>1, <1>3
  <2> QED BY <2>1
<1> HIDE DEF r
<1>5. r[1] = a
  BY <1>1, <1>2
<1>6. {r[k] : k \in 1 .. n} = a .. b
  <2>1. ASSUME NEW s \in a .. b PROVE \E k \in 1 .. n : r[k] = s
    <3>1. s - a + 1 \in 1 .. n /\ a - 1 + (s - a + 1) = s
      BY <1>1 DEF n
    <3> QED BY <1>2, <3>1
  <2>2. ASSUME NEW k \in 1 .. n PROVE r[k] \in a .. b
    <3>1. a - 1 + k \in a .. b
      BY <1>1 DEF n
    <3> QED BY <1>2, <3>1
  <2> QED BY <2>1, <2>2
<1> QED BY <1>2, <1>3, <1>4, <1>5, <1>6 DEF r, n

LEMMA ReadOneMore ==
  ASSUME NEW tk, IsRead(tk), NEW a \in Packets, NEW b \in Packets, IsWhole(a, b),
         Msg(a) \notin Read(tk),
         Messages[a][4] =>
           \A s \in Packets : Messages[s][4] /\ Msg(s) \in Read(tk) => Msg(s) < Msg(a)
  PROVE  LET new == Append(tk, Row(a - 1, b - a + 1)) IN
         IsRead(new) /\ Read(new) = Read(tk) \cup {Msg(a)}
<1> DEFINE e == Row(a - 1, b - a + 1)
           new == Append(tk, e)
           n == Len(tk)
<1>1. e \in Seq(Int) /\ e[1] = a
  BY RowIs DEF IsWhole
<1> HIDE DEF e
<1>2. /\ tk \in Seq(Seq(Int)) /\ n \in Nat /\ new \in Seq(Seq(Int)) /\ Len(new) = n + 1
      /\ \A i \in 1 .. n : new[i] = tk[i]
      /\ new[n + 1] = e
  BY <1>1, AppendProperties DEF IsRead
<1> HIDE DEF new, n
<1>3. \A i \in 1 .. n + 1 : i \in 1 .. n \/ i = n + 1
  BY <1>2
<1>4. n + 1 \in 1 .. n + 1 /\ \A i \in 1 .. n : i \in 1 .. n + 1
  BY <1>2
<1>5. /\ \A i \in 1 .. n : \E x, y \in Packets : IsWhole(x, y) /\ tk[i] = Row(x - 1, y - x + 1)
      /\ \A i, j \in 1 .. n : i < j =>
           /\ Msg(tk[i][1]) # Msg(tk[j][1])
           /\ Messages[tk[i][1]][4] /\ Messages[tk[j][1]][4] => Msg(tk[i][1]) < Msg(tk[j][1])
  BY DEF IsRead, n
<1>6. Read(tk) = {Msg(tk[i][1]) : i \in 1 .. n}
  BY DEF Read, n
<1>7. Read(new) = Read(tk) \cup {Msg(a)}
  <2>1. \A x : x \in Read(new) <=> \E i \in 1 .. n + 1 : x = Msg(new[i][1])
    BY <1>2 DEF Read
  <2>2. \A x : x \in Read(tk) <=> \E i \in 1 .. n : x = Msg(tk[i][1])
    BY <1>6
  <2>3. Msg(new[n + 1][1]) = Msg(a) /\ \A i \in 1 .. n : Msg(new[i][1]) = Msg(tk[i][1])
    BY <1>1, <1>2
  <2>4. \A x : x \in Read(new) <=> x \in Read(tk) \/ x = Msg(a)
    BY <1>3, <1>4, <2>1, <2>2, <2>3
  <2> QED BY <2>4
<1>8. ASSUME NEW i \in 1 .. n PROVE tk[i][1] \in Packets
  <2>1. PICK x \in Packets, y \in Packets : IsWhole(x, y) /\ tk[i] = Row(x - 1, y - x + 1)
    BY <1>5
  <2>2. tk[i][1] = x
    BY <2>1, RowIs DEF IsWhole
  <2> QED BY <2>1, <2>2
<1>9. \A i \in 1 .. n + 1 : \E x, y \in Packets : IsWhole(x, y) /\ new[i] = Row(x - 1, y - x + 1)
  <2>1. IsWhole(a, b) /\ new[n + 1] = Row(a - 1, b - a + 1)
    BY <1>2 DEF e
  <2>2. ASSUME NEW i \in 1 .. n
        PROVE  \E x, y \in Packets : IsWhole(x, y) /\ new[i] = Row(x - 1, y - x + 1)
    BY <1>2, <1>5
  <2> QED BY <1>3, <2>1, <2>2
<1>10. ASSUME NEW i \in 1 .. n + 1, NEW j \in 1 .. n + 1, i < j
       PROVE  /\ Msg(new[i][1]) # Msg(new[j][1])
              /\ Messages[new[i][1]][4] /\ Messages[new[j][1]][4] => Msg(new[i][1]) < Msg(new[j][1])
  <2>1. i \in 1 .. n /\ new[i] = tk[i]
    BY <1>2, <1>10
  <2>2. CASE j \in 1 .. n
    <3>1. new[j] = tk[j]
      BY <1>2, <2>2
    <3>2. /\ Msg(tk[i][1]) # Msg(tk[j][1])
          /\ Messages[tk[i][1]][4] /\ Messages[tk[j][1]][4] => Msg(tk[i][1]) < Msg(tk[j][1])
      BY <1>5, <1>10, <2>1, <2>2
    <3> QED BY <2>1, <3>1, <3>2
  <2>3. CASE j = n + 1
    <3>1. Msg(tk[i][1]) \in Read(tk) /\ tk[i][1] \in Packets
      BY <1>6, <1>8, <2>1
    <3>2. new[j][1] = a
      BY <1>1, <1>2, <2>3
    <3> QED BY <2>1, <3>1, <3>2
  <2> QED BY <1>3, <2>2, <2>3
<1>11. IsRead(new)
  BY <1>2, <1>9, <1>10 DEF IsRead
<1> QED BY <1>7, <1>11 DEF new, e

MsgInv ==
  /\ RbInv
  /\ ~asStream => /\ IsMessages(rcvBuf, units, rcvBase - 1, Read(taken))
                  /\ LeftBehind(rcvBuf, rcvBase - 1, Read(taken)) /\ IsRead(taken)

LEMMA MsgInitially == RbInit => MsgInv
<1> SUFFICES ASSUME RbInit PROVE MsgInv
  OBVIOUS
<1>1. RbInv /\ rcvBuf \in RcvBufs
  BY RbInitially DEF RbInv, Sound
<1>2. rcvBuf = NewRcvBuf /\ rcvBase = 1 /\ taken = <<>>
  BY DEF RbInit
<1>3. getRcvDataSize(rcvBuf) = 0 /\ rcvBuf.max = 0
  BY <1>2 DEF NewRcvBuf, getRcvDataSize
<1>4. \A p \in Positions : rcvBuf.slot[p] = NoUnit
  BY <1>2 DEF NewRcvBuf, Positions
<1>5. \A k \in 0 .. RcvSlots - 1 : rcvBuf.slot[At(rcvBuf, k)] = NoUnit
  BY <1>1, <1>4, AtIs
<1>6. \A i \in 1 .. Len(taken) : FALSE
  BY <1>2
<1>7. Read(taken) = {}
  BY <1>6 DEF Read
<1>8. IsRead(taken)
  <2>1. taken \in Seq(Seq(Int))
    BY <1>2
  <2> QED BY <1>6, <2>1 DEF IsRead
<1>9. /\ \A k \in 0 .. 0 - 1 : FALSE
      /\ \A s \in Packets : ~(s <= 0)
      /\ 0 - 0 = 0 /\ 0 + 0 = 0 /\ 0 \in 0 .. Len(Messages) /\ 0 <= RcvSlots - 1
  BY PacketsAre, PositionsAre DEF Packets
<1>10. \A k \in 0 .. RcvSlots - 1 : Waits(rcvBuf, units, 0, {}, k)
  BY <1>5 DEF Waits
<1>11. IsMessages(rcvBuf, units, 0, {})
  BY <1>3, <1>9, <1>10 DEF IsMessages
<1>12. LeftBehind(rcvBuf, 0, {})
  BY DEF LeftBehind
<1>13. rcvBase - 1 = 0
  BY <1>2
<1> QED BY <1>1, <1>7, <1>8, <1>11, <1>12, <1>13 DEF MsgInv

\* The messages do not depend on the counts.
LEMMA MessagesOf ==
  ASSUME NEW rb, NEW uq, NEW c, NEW done, IsMessages(rb, uq, c, done),
         NEW ub, ub.pkt = uq.pkt, ub.flag = uq.flag
  PROVE  IsMessages(rb, ub, c, done)
BY DEF IsMessages, Waits

\* A packet that came waits at its place.
LEMMA MsgArrives ==
  ASSUME MsgInv, NEW offset \in 0 .. RcvSlots - 1, NEW lost \in BOOLEAN,
         RbArrives(offset, lost), ~asStream
  PROVE  /\ IsMessages(rcvBuf', units', rcvBase' - 1, Read(taken'))
         /\ LeftBehind(rcvBuf', rcvBase' - 1, Read(taken')) /\ IsRead(taken')
<1> DEFINE size == getRcvDataSize(rcvBuf)
           c == rcvBase - 1
           base == c - size
           done == Read(taken)
           N == RcvSlots
<1>1. /\ RbInv /\ IsMessages(rcvBuf, units, c, done) /\ LeftBehind(rcvBuf, c, done) /\ IsRead(taken)
      /\ rcvBase' = rcvBase /\ taken' = taken
  BY DEF MsgInv, RbArrives
<1>2. /\ rcvBuf \in RcvBufs /\ Placed(rcvBuf.slot, units.flag) /\ rcvBase \in Nat
      /\ N \in Nat /\ N > 2 /\ size \in 0 .. N - 1 /\ rcvBuf.max \in Nat
      /\ rcvBuf.slot \in [Positions -> AllUnits \cup {NoUnit}]
  <2>1. Sound(rcvBuf, units) /\ rcvBase \in Nat
    BY <1>1 DEF RbInv
  <2>2. rcvBuf \in RcvBufs /\ Placed(rcvBuf.slot, units.flag)
    BY <2>1 DEF Sound
  <2>3. rcvBuf.max \in Nat /\ rcvBuf.slot \in [Positions -> AllUnits \cup {NoUnit}]
    BY <2>2 DEF RcvBufs
  <2> QED BY <2>1, <2>2, <2>3, PositionsAre, DataSizeIs
<1>3. /\ base \in 0 .. Len(Messages) /\ size + rcvBuf.max <= N - 1
      /\ \A k \in 0 .. N - 1 : Waits(rcvBuf, units, base, done, k)
      /\ \A k \in 0 .. size - 1 : rcvBuf.slot[At(rcvBuf, k)] # NoUnit
      /\ \A s \in Packets : s <= base => Msg(s) \in done
      /\ \A s \in Packets : s > base /\ Msg(s) \in done =>
           s - base - 1 <= N - 1 /\ rcvBuf.slot[At(rcvBuf, s - base - 1)] # NoUnit
  BY <1>1 DEF IsMessages
<1> HIDE DEF done
<1>4. CASE rcvBuf' = rcvBuf /\ units'.flag = units.flag /\ units'.pkt = units.pkt
  <2>1. IsMessages(rcvBuf, units', c, done)
    BY <1>1, <1>4, MessagesOf
  <2> QED BY <1>1, <1>4, <2>1 DEF done
<1>5. ASSUME NEW v, NEW n, Arrived(v, n)
      PROVE  IsMessages(rcvBuf', units', c, done) /\ LeftBehind(rcvBuf', c, done)
  <2>1. /\ v \in AllUnits /\ units.flag[v] = 0 /\ n \in 0 .. N - 2
        /\ rcvBuf.slot[At(rcvBuf, n)] = NoUnit
        /\ rcvBase - size + n <= Len(Messages)
        /\ rcvBuf'.start = rcvBuf.start /\ rcvBuf'.ack = rcvBuf.ack
        /\ rcvBuf'.max \in {rcvBuf.max, n - size}
        /\ \A j \in 0 .. N - 1 :
             rcvBuf'.slot[At(rcvBuf, j)] = IF j = n THEN v ELSE rcvBuf.slot[At(rcvBuf, j)]
        /\ \A u \in AllUnits :
             /\ units'.flag[u] = IF u = v THEN 1 ELSE units.flag[u]
             /\ units'.pkt[u] = IF u = v THEN rcvBase - size + n ELSE units.pkt[u]
    BY <1>5 DEF Arrived
  <2>2. getRcvDataSize(rcvBuf') = size /\ \A k : At(rcvBuf', k) = At(rcvBuf, k)
    BY <2>1 DEF getRcvDataSize, At
  <2> DEFINE s0 == base + 1 + n
  <2>3. /\ rcvBase - size + n = s0 /\ s0 \in Packets /\ s0 > base /\ s0 - base - 1 = n
        /\ n \in 0 .. N - 1 /\ n # N - 1 /\ base \in Nat /\ base = c - size
    <3>1. Len(Messages) \in Nat /\ base \in 0 .. Len(Messages) /\ rcvBase \in Nat
      BY <1>2, <1>3, PacketsAre
    <3>2. n \in 0 .. N - 2 /\ rcvBase - size + n <= Len(Messages) /\ size \in Nat
      BY <1>2, <2>1
    <3> HIDE DEF size
    <3>3. rcvBase - size + n = s0 /\ base \in Nat /\ n \in Nat
      BY <3>1, <3>2
    <3>4. s0 <= Len(Messages) /\ base = c - size
      BY <3>2, <3>3
    <3> HIDE DEF base, c
    <3>5. s0 \in Packets /\ s0 > base /\ s0 - base - 1 = n
      BY <3>1, <3>3, <3>4 DEF Packets
    <3>6. n \in 0 .. N - 1 /\ n # N - 1
      BY <1>2, <3>2
    <3> HIDE DEF s0
    <3> QED BY <3>3, <3>4, <3>5, <3>6
  <2> HIDE DEF size, base, c, s0
  <2>4. Msg(s0) \notin done
    BY <1>3, <2>1, <2>3
  <2>5. v # NoUnit
    BY <2>1, UnitBounds DEF NoUnit
  <2>6. ASSUME NEW k \in 0 .. N - 1 PROVE Waits(rcvBuf', units', base, done, k)
    <3> DEFINE u == rcvBuf.slot[At(rcvBuf, k)]
    <3>1. CASE k = n
      <4>1. /\ rcvBuf'.slot[At(rcvBuf', k)] = v /\ units'.pkt[v] = base + 1 + k
            /\ units'.flag[v] = 1 /\ base + 1 + k = s0
        BY <2>1, <2>2, <2>3, <3>1 DEF s0
      <4> QED BY <2>3, <2>4, <3>1, <4>1 DEF Waits
    <3>2. CASE k # n
      <4>1. rcvBuf'.slot[At(rcvBuf', k)] = u
        BY <2>1, <2>2, <3>2
      <4>2. CASE u = NoUnit
        BY <4>1, <4>2 DEF Waits
      <4>3. CASE u # NoUnit
        <5>1. At(rcvBuf, k) \in Positions
          BY <1>2, AtIs
        <5>2. u \in AllUnits /\ units.flag[u] # 0
          BY <1>2, <4>3, <5>1 DEF Placed
        <5>3. u # v
          BY <2>1, <5>2
        <5>4. units'.pkt[u] = units.pkt[u] /\ units'.flag[u] = units.flag[u]
          BY <2>1, <5>2, <5>3
        <5>5. Waits(rcvBuf, units, base, done, k)
          BY <1>3
        <5>6. /\ k # N - 1 /\ base + 1 + k \in Packets /\ units.pkt[u] = base + 1 + k
              /\ units.flag[u] = IF Msg(base + 1 + k) \in done THEN 2 ELSE 1
          BY <4>3, <5>5 DEF Waits
        <5> HIDE DEF u
        <5> QED BY <4>1, <5>4, <5>6 DEF Waits
      <4> QED BY <4>2, <4>3
    <3> QED BY <3>1, <3>2
  <2>7. \A k \in 0 .. N - 1 : rcvBuf.slot[At(rcvBuf, k)] # NoUnit =>
          rcvBuf'.slot[At(rcvBuf', k)] # NoUnit
    BY <2>1, <2>2, <2>5
  <2>8. \A k \in 0 .. size - 1 : rcvBuf'.slot[At(rcvBuf', k)] # NoUnit
    <3>1. \A k \in 0 .. size - 1 : k \in 0 .. N - 1
      BY <1>2
    <3> QED BY <1>3, <2>7, <3>1
  <2>9. ASSUME NEW s \in Packets, s > base, Msg(s) \in done
        PROVE  s - base - 1 <= N - 1 /\ rcvBuf'.slot[At(rcvBuf', s - base - 1)] # NoUnit
    <3>1. s - base - 1 <= N - 1 /\ rcvBuf.slot[At(rcvBuf, s - base - 1)] # NoUnit
      BY <1>3, <2>9
    <3>2. s - base - 1 \in 0 .. N - 1
      <4>1. s \in Nat /\ base \in Nat /\ N \in Nat
        BY <1>2, <2>3 DEF Packets
      <4> QED BY <2>9, <3>1, <4>1
    <3> QED BY <2>7, <3>1, <3>2
  <2>10. size + rcvBuf'.max <= N - 1
    BY <1>2, <1>3, <2>1
  <2>11. IsMessages(rcvBuf', units', c, done)
    BY <1>3, <2>2, <2>3, <2>6, <2>8, <2>9, <2>10 DEF IsMessages
  <2>12. LeftBehind(rcvBuf', c, done)
    BY <1>1, <2>2 DEF LeftBehind, size
  <2> QED BY <2>11, <2>12
<1>6. CASE \E v, n : Arrived(v, n)
  <2>1. IsMessages(rcvBuf', units', c, done) /\ LeftBehind(rcvBuf', c, done)
    BY <1>5, <1>6
  <2> QED BY <1>1, <2>1 DEF done
<1> QED BY <1>1, <1>4, <1>6, ArrivalIs

LEMMA MsgAck ==
  ASSUME MsgInv, RbAck, ~asStream
  PROVE  /\ IsMessages(rcvBuf', units', rcvBase' - 1, Read(taken'))
         /\ LeftBehind(rcvBuf', rcvBase' - 1, Read(taken')) /\ IsRead(taken')
<1> DEFINE size == getRcvDataSize(rcvBuf)
           c == rcvBase - 1
           base == c - size
           done == Read(taken)
           N == RcvSlots
<1>1. /\ RbInv /\ IsMessages(rcvBuf, units, c, done) /\ LeftBehind(rcvBuf, c, done) /\ IsRead(taken)
      /\ units' = units /\ taken' = taken
  BY DEF MsgInv, RbAck
<1>2. /\ rcvBuf \in RcvBufs /\ rcvBase \in Nat /\ N \in Nat /\ N > 2 /\ size \in 0 .. N - 1
      /\ rcvBuf.max \in Nat
  <2>1. rcvBuf \in RcvBufs /\ rcvBase \in Nat
    BY <1>1 DEF RbInv, Sound
  <2>2. rcvBuf.max \in Nat
    BY <2>1 DEF RcvBufs
  <2> QED BY <2>1, <2>2, PositionsAre, DataSizeIs
<1>3. /\ base \in 0 .. Len(Messages) /\ size + rcvBuf.max <= N - 1
      /\ \A k \in 0 .. N - 1 : Waits(rcvBuf, units, base, done, k)
      /\ \A k \in 0 .. size - 1 : rcvBuf.slot[At(rcvBuf, k)] # NoUnit
      /\ \A s \in Packets : s <= base => Msg(s) \in done
      /\ \A s \in Packets : s > base /\ Msg(s) \in done =>
           s - base - 1 <= N - 1 /\ rcvBuf.slot[At(rcvBuf, s - base - 1)] # NoUnit
  BY <1>1 DEF IsMessages
<1>4. rcvBuf.slot[At(rcvBuf, N - 1)] = NoUnit
  <2>1. N - 1 \in 0 .. N - 1
    BY <1>2
  <2>2. Waits(rcvBuf, units, base, done, N - 1)
    BY <1>3, <2>1
  <2> QED BY <2>2 DEF Waits
<1>5. PICK n \in Nat :
           /\ rcvBase' = rcvBase + n /\ size + n <= N - 1 /\ getRcvDataSize(rcvBuf') = size + n
           /\ rcvBuf'.slot = rcvBuf.slot /\ rcvBuf'.start = rcvBuf.start
           /\ rcvBuf'.max = IF rcvBuf.max - n < 0 THEN 0 ELSE rcvBuf.max - n
           /\ \A k \in 0 .. N - 1 :
                size <= k /\ k < size + n => rcvBuf.slot[At(rcvBuf, k)] # NoUnit
  BY <1>1, <1>4, AckIs
<1> DEFINE z == size + n
           d == c + n
<1>6. \A k : At(rcvBuf', k) = At(rcvBuf, k)
  BY <1>5 DEF At
<1>7. /\ getRcvDataSize(rcvBuf') = z /\ d - z = base /\ rcvBase' - 1 = d
      /\ z + rcvBuf'.max <= N - 1
  BY <1>2, <1>3, <1>5
<1> HIDE DEF base, c, done
<1>8. \A k \in 0 .. z - 1 : rcvBuf.slot[At(rcvBuf, k)] # NoUnit
  <2> TAKE k \in 0 .. z - 1
  <2>1. k \in 0 .. N - 1 /\ k < size + n
    BY <1>2, <1>5
  <2>2. CASE k < size
    <3>1. k \in 0 .. size - 1
      BY <1>2, <2>2
    <3> QED BY <1>3, <3>1
  <2>3. CASE size <= k
    BY <1>5, <2>1, <2>3
  <2> QED BY <1>2, <2>2, <2>3
<1> HIDE DEF size, z, d
<1>9. \A k \in 0 .. N - 1 : Waits(rcvBuf', units, base, done, k)
  BY <1>3, <1>5, <1>6 DEF Waits
<1>10. IsMessages(rcvBuf', units, d, done)
  BY <1>3, <1>5, <1>6, <1>7, <1>8, <1>9 DEF IsMessages
<1>11. LeftBehind(rcvBuf', d, done)
  BY <1>1, <1>7 DEF LeftBehind, base, size
<1> QED BY <1>1, <1>7, <1>10, <1>11 DEF done

\* recvmsg
LEMMA MsgIsRead ==
  ASSUME MsgInv, NEW lost \in BOOLEAN, RbReadMsg(lost)
  PROVE  /\ IsMessages(rcvBuf', units', rcvBase' - 1, Read(taken'))
         /\ LeftBehind(rcvBuf', rcvBase' - 1, Read(taken')) /\ IsRead(taken')
<1> DEFINE r == readMsg(rcvBuf, units)
           gone == lost /\ r.uq.count # units.count
           c == rcvBase - 1
           done == Read(taken)
<1>1. /\ ~asStream /\ rcvBuf' = r.rb /\ units' = [r.uq EXCEPT !.count = CountTo(@ + 1, @, gone)]
      /\ taken' = (IF r.out = <<>> THEN taken ELSE Append(taken, r.out)) /\ rcvBase' = rcvBase
  BY DEF RbReadMsg
<1>2. /\ IsMessages(rcvBuf, units, c, done) /\ LeftBehind(rcvBuf, c, done) /\ IsRead(taken)
      /\ Sound(rcvBuf, units)
  BY <1>1 DEF MsgInv, RbInv
<1>3. c \in Nat
  <2>1. rcvBuf \in RcvBufs /\ rcvBase \in Nat
    BY DEF MsgInv, RbInv, Sound
  <2>2. getRcvDataSize(rcvBuf) \in 0 .. RcvSlots - 1 /\ RcvSlots \in Nat
    BY <2>1, DataSizeIs, PositionsAre
  <2>3. c - getRcvDataSize(rcvBuf) \in 0 .. Len(Messages)
    BY <1>2 DEF IsMessages
  <2> QED BY <2>1, <2>2, <2>3, PacketsAre
<1> HIDE DEF c, done
<1>4. Reads(r, c, done) /\ r.uq \in UnitQs
  <2>1. Sound(r.rb, r.uq)
    BY <1>2, readMsgKeeps
  <2> QED BY <1>2, <1>3, <2>1, readMsgReads DEF Sound, IsUnits
<1> HIDE DEF r, gone
<1>5. units'.pkt = r.uq.pkt /\ units'.flag = r.uq.flag
  BY <1>1, <1>4 DEF UnitQs
<1>6. CASE r.out = <<>> /\ IsMessages(r.rb, r.uq, c, done) /\ LeftBehind(r.rb, c, done)
  <2>1. IsMessages(r.rb, units', c, done)
    BY <1>5, <1>6, MessagesOf
  <2> QED BY <1>1, <1>2, <1>6, <2>1 DEF c, done
<1>7. ASSUME NEW a \in Packets, NEW b \in Packets,
             IsWhole(a, b), r.out = Row(a - 1, b - a + 1), Msg(a) \notin done,
             Messages[a][4] =>
               \A s \in Packets : Messages[s][4] /\ Msg(s) \in done => Msg(s) < Msg(a),
             IsMessages(r.rb, r.uq, c, done \cup {Msg(a)}),
             LeftBehind(r.rb, c, done \cup {Msg(a)})
      PROVE  /\ IsMessages(rcvBuf', units', rcvBase' - 1, Read(taken'))
             /\ LeftBehind(rcvBuf', rcvBase' - 1, Read(taken')) /\ IsRead(taken')
  <2>1. r.out # <<>>
    BY <1>7, RowIs DEF IsWhole
  <2>2. taken' = Append(taken, Row(a - 1, b - a + 1))
    BY <1>1, <1>7, <2>1
  <2>3. IsRead(taken') /\ Read(taken') = done \cup {Msg(a)}
    BY <1>2, <1>7, <2>2, ReadOneMore DEF done
  <2>4. IsMessages(r.rb, units', c, done \cup {Msg(a)})
    BY <1>5, <1>7, MessagesOf
  <2> QED BY <1>1, <1>7, <2>3, <2>4 DEF c
<1> QED BY <1>4, <1>6, <1>7 DEF Reads

LEMMA MsgInvIsInductive == MsgInv /\ [RbStep]_rbVars => MsgInv'
<1> SUFFICES ASSUME MsgInv, [RbStep]_rbVars PROVE MsgInv'
  OBVIOUS
<1>1. RbInv'
  BY RbInvIsInductive DEF MsgInv
<1>2. CASE UNCHANGED rbVars
  BY <1>1, <1>2 DEF rbVars, MsgInv
<1>3. ASSUME NEW offset \in 0 .. RcvSlots - 1, NEW lost \in BOOLEAN, RbArrives(offset, lost)
      PROVE  MsgInv'
  <2>1. asStream' = asStream
    BY <1>3 DEF RbArrives
  <2> QED BY <1>1, <1>3, <2>1, MsgArrives DEF MsgInv
<1>4. CASE RbAck
  <2>1. asStream' = asStream
    BY <1>4 DEF RbAck
  <2> QED BY <1>1, <1>4, <2>1, MsgAck DEF MsgInv
<1>5. ASSUME NEW len \in 1 .. MaxRead, NEW left \in {1, RcvSlots}, NEW lost \in BOOLEAN,
             RbReadStream(len, left, lost)
      PROVE  MsgInv'
  BY <1>1, <1>5 DEF RbReadStream, MsgInv
<1>6. ASSUME NEW lost \in BOOLEAN, RbReadMsg(lost) PROVE MsgInv'
  BY <1>1, <1>6, MsgIsRead DEF MsgInv
<1> QED BY <1>2, <1>3, <1>4, <1>5, <1>6 DEF RbStep

LEMMA MsgInvIsRead == MsgInv => MessagesAreRead
<1> SUFFICES ASSUME MsgInv, ~asStream PROVE
      /\ \A i \in DOMAIN taken :
           {taken[i][k] : k \in DOMAIN taken[i]}
             = {s \in DOMAIN Messages : Messages[s][1] = MsgOf(i)}
      /\ \A i, j \in DOMAIN taken :
           i < j => /\ MsgOf(i) # MsgOf(j)
                    /\ (Messages[taken[i][1]][4] /\ Messages[taken[j][1]][4])
                         => MsgOf(i) < MsgOf(j)
      /\ \A s \in 1 .. rcvBase - 1 - getRcvDataSize(rcvBuf) :
           \E i \in DOMAIN taken : MsgOf(i) = Messages[s][1]
  BY DEF MessagesAreRead
<1> DEFINE c == rcvBase - 1
<1>1. IsMessages(rcvBuf, units, c, Read(taken)) /\ IsRead(taken)
  BY DEF MsgInv
<1>2. DOMAIN taken = 1 .. Len(taken) /\ \A i : MsgOf(i) = Msg(taken[i][1])
  BY <1>1 DEF IsRead, MsgOf, Msg
<1>3. ASSUME NEW i \in 1 .. Len(taken)
      PROVE  {taken[i][k] : k \in DOMAIN taken[i]}
               = {s \in DOMAIN Messages : Messages[s][1] = MsgOf(i)}
  <2>1. PICK a \in Packets, b \in Packets : IsWhole(a, b) /\ taken[i] = Row(a - 1, b - a + 1)
    BY <1>1 DEF IsRead
  <2>2. /\ taken[i][1] = a /\ DOMAIN taken[i] = 1 .. b - a + 1
        /\ {taken[i][k] : k \in 1 .. b - a + 1} = a .. b
    BY <2>1, RowIs DEF IsWhole
  <2>3. \A s \in Packets : Msg(s) = Msg(a) <=> a <= s /\ s <= b
    BY <2>1 DEF IsWhole
  <2>4. a .. b = {s \in Packets : a <= s /\ s <= b}
    BY PacketsAre DEF Packets
  <2>5. a .. b = {s \in Packets : Msg(s) = Msg(a)}
    BY <2>3, <2>4
  <2>6. {s \in DOMAIN Messages : Messages[s][1] = MsgOf(i)} = {s \in Packets : Msg(s) = Msg(a)}
    BY <1>2, <2>2, PacketsAre DEF Msg
  <2> QED BY <2>2, <2>5, <2>6
<1>4. ASSUME NEW s \in 1 .. c - getRcvDataSize(rcvBuf)
      PROVE  \E i \in 1 .. Len(taken) : MsgOf(i) = Messages[s][1]
  <2>1. s \in Packets /\ Msg(s) \in Read(taken)
    <3> DEFINE base == c - getRcvDataSize(rcvBuf)
    <3>1. base \in 0 .. Len(Messages) /\ \A t \in Packets : t <= base => Msg(t) \in Read(taken)
      BY <1>1 DEF IsMessages
    <3>2. s \in 1 .. base
      OBVIOUS
    <3> HIDE DEF base
    <3>3. s \in Packets /\ s <= base
      BY <3>1, <3>2, PacketsAre DEF Packets
    <3> QED BY <3>1, <3>3
  <2>2. PICK i \in 1 .. Len(taken) : Msg(s) = Msg(taken[i][1])
    BY <2>1 DEF Read
  <2> QED BY <1>2, <2>2 DEF Msg
<1>5. \A i, j \in 1 .. Len(taken) :
        i < j => /\ MsgOf(i) # MsgOf(j)
                 /\ (Messages[taken[i][1]][4] /\ Messages[taken[j][1]][4])
                      => MsgOf(i) < MsgOf(j)
  BY <1>1, <1>2 DEF IsRead
<1> QED BY <1>2, <1>3, <1>4, <1>5

\* What the reader was given is what came in: of a stream, the bytes in their
\* order; of messages, each of them whole, from its first packet to its last,
\* and once, those sent in order in that order, and none behind the buffer's
\* first place unread, whatever the order the packets came in and however early
\* a message was read (CRcvBuffer::readBuffer, readMsg and scanMsg).
THEOREM WhatCameIsAlwaysRead == RbSpec => []ReadIsWhatCame
<1>1. RbInit => MsgInv
  BY MsgInitially
<1>2. MsgInv /\ [RbStep]_rbVars => MsgInv'
  BY MsgInvIsInductive
<1>3. MsgInv => MessagesAreRead
  BY MsgInvIsRead
<1>4. RbSpec => []MessagesAreRead
  BY <1>1, <1>2, <1>3, PTL DEF RbSpec
<1>5. StreamIsRead /\ MessagesAreRead => ReadIsWhatCame
  BY DEF ReadIsWhatCame
<1> QED BY <1>4, <1>5, StreamIsAlwaysRead, PTL

-----------------------------------------------------------------------------
(* The list of the receiver and its hash table.                            *)

Distinct(s) == \A i, j \in 1 .. Len(s) : s[i] = s[j] => i = j

Within(s) == {s[k] : k \in 1 .. Len(s)}

Lists == [next : [SocketIds -> SocketIds \cup {NoSocket}],
          prev : [SocketIds -> SocketIds \cup {NoSocket}],
          head : SocketIds \cup {NoSocket}, last : SocketIds \cup {NoSocket}]

\* The links of l are the sequence q, there and back.
IsList(l, q) ==
  /\ l \in Lists /\ q \in Seq(SocketIds) /\ Distinct(q)
  /\ l.head = IF q = <<>> THEN NoSocket ELSE q[1]
  /\ l.last = IF q = <<>> THEN NoSocket ELSE q[Len(q)]
  /\ \A k \in 1 .. Len(q) :
       /\ l.next[q[k]] = IF k = Len(q) THEN NoSocket ELSE q[k + 1]
       /\ l.prev[q[k]] = IF k = 1 THEN NoSocket ELSE q[k - 1]

\* The hash table bs finds what is in q.
Hashes(bs, q) ==
  /\ bs \in [0 .. HashSize - 1 -> Seq(SocketIds)]
  /\ \A i \in 0 .. HashSize - 1 : Distinct(bs[i])
  /\ \A u \in SocketIds : u \in Within(bs[HashOf(u)]) <=> u \in Within(q)

ListInv ==
  /\ IsList(rcvOrder, onHash) /\ Hashes(buckets, onHash)
  /\ newEntries \in Seq(SocketIds) /\ Distinct(newEntries)
  /\ Within(newEntries) \cap Within(onHash) = {}
  /\ onList \in [SocketIds -> BOOLEAN]
  /\ \A u \in Within(newEntries) \cup Within(onHash) : onList[u]

\* What is left of a sequence when its i-th element is taken out.
LEMMA RemovedAt ==
  ASSUME NEW S, NEW s \in Seq(S), NEW i \in 1 .. Len(s)
  PROVE  /\ RemoveAt(s, i) \in Seq(S) /\ Len(RemoveAt(s, i)) = Len(s) - 1
         /\ \A k \in 1 .. Len(s) - 1 : RemoveAt(s, i)[k] = IF k < i THEN s[k] ELSE s[k + 1]
<1> DEFINE a == SubSeq(s, 1, i - 1)
           b == SubSeq(s, i + 1, Len(s))
           n == Len(s)
<1>1. n \in Nat /\ i \in Nat /\ 1 <= i /\ i <= n
  OBVIOUS
<1>2. a \in Seq(S) /\ Len(a) = i - 1 /\ \A k \in 1 .. i - 1 : a[k] = s[k]
  <2>1. 1 \in 1 .. n + 1 /\ i - 1 \in 0 .. n /\ 1 .. i - 1 \subseteq 1 .. n
    BY <1>1
  <2> QED BY <1>1, <2>1, SubSeqProperties
<1>3. b \in Seq(S) /\ Len(b) = n - i /\ \A k \in 1 .. n - i : b[k] = s[i + k]
  <2>1. \A k \in 1 .. n - i : i + k \in 1 .. n /\ (i + 1) + k - 1 = i + k
    BY <1>1
  <2> QED BY <1>1, <2>1, SubSeqProperties
<1>4. RemoveAt(s, i) = a \o b
  BY DEF RemoveAt
<1> HIDE DEF a, b, n
<1> DEFINE c == a \o b
<1>5. /\ c \in Seq(S) /\ Len(c) = Len(a) + Len(b)
      /\ \A k \in 1 .. Len(a) + Len(b) : c[k] = IF k <= Len(a) THEN a[k] ELSE b[k - Len(a)]
  BY <1>2, <1>3, ConcatProperties
<1> HIDE DEF c
<1>6. Len(c) = n - 1
  BY <1>1, <1>2, <1>3, <1>5
<1>7. ASSUME NEW k \in 1 .. n - 1 PROVE c[k] = IF k < i THEN s[k] ELSE s[k + 1]
  <2>1. c[k] = IF k <= i - 1 THEN a[k] ELSE b[k - (i - 1)]
    <3>1. k \in 1 .. Len(a) + Len(b)
      BY <1>1, <1>2, <1>3
    <3> QED BY <1>2, <1>5, <3>1
  <2>2. CASE k < i
    <3>1. k \in 1 .. i - 1 /\ k <= i - 1
      BY <1>1, <2>2
    <3> QED BY <1>2, <2>1, <2>2, <3>1
  <2>3. CASE ~(k < i)
    <3>1. k - (i - 1) \in 1 .. n - i /\ ~(k <= i - 1) /\ i + (k - (i - 1)) = k + 1
      BY <1>1, <2>3
    <3> QED BY <1>3, <2>1, <2>3, <3>1
  <2> QED BY <2>2, <2>3
<1> QED BY <1>4, <1>5, <1>6, <1>7 DEF c, n

\* Of a sequence without repetitions the element e goes, and nothing else.
LEMMA RemovedFirst ==
  ASSUME NEW S, NEW s \in Seq(S), Distinct(s), NEW e
  PROVE  /\ RemoveFirst(s, e) \in Seq(S) /\ Distinct(RemoveFirst(s, e))
         /\ Within(RemoveFirst(s, e)) = Within(s) \ {e}
         /\ \A i \in 1 .. Len(s) : s[i] = e => RemoveFirst(s, e) = RemoveAt(s, i)
<1> DEFINE r == RemoveFirst(s, e)
           n == Len(s)
<1>0. n \in Nat
  OBVIOUS
<1>1. CASE \E i \in 1 .. Len(s) : s[i] = e
  <2>1. PICK i \in 1 .. n : s[i] = e
    BY <1>1
  <2>2. \A j \in 1 .. n : s[j] = e => j = i
    BY <2>1 DEF Distinct
  <2> DEFINE I == {j \in 1 .. n : s[j] = e}
  <2>3. I = {i}
    BY <2>1, <2>2
  <2>4. Min(I) = i
    <3>1. \A x \in I : x = i
      BY <2>3
    <3>2. i \in I /\ \A y \in I : i <= y
      BY <2>3
    <3> HIDE DEF I
    <3>3. Min(I) \in I
      BY <3>2 DEF Min
    <3> QED BY <3>1, <3>3
  <2>5. r = RemoveAt(s, i)
    <3>1. I # {} /\ SelectInSeq(s, LAMBDA v : v = e) = IF I # {} THEN Min(I) ELSE 0
      BY <2>3 DEF SelectInSeq
    <3>2. r = RemoveAt(s, SelectInSeq(s, LAMBDA v : v = e))
      BY <1>1 DEF RemoveFirst
    <3> HIDE DEF I, r
    <3> QED BY <2>4, <3>1, <3>2
  <2>6. /\ r \in Seq(S) /\ Len(r) = n - 1
        /\ \A k \in 1 .. n - 1 : r[k] = IF k < i THEN s[k] ELSE s[k + 1]
    BY <2>5, RemovedAt
  <2> HIDE DEF r, n
  <2>7. n \in Nat /\ i \in Nat /\ 1 <= i /\ i <= n
    BY <1>0
  <2>8. Distinct(r)
    <3> SUFFICES ASSUME NEW k \in 1 .. n - 1, NEW m \in 1 .. n - 1, r[k] = r[m] PROVE k = m
      BY <2>6 DEF Distinct
    <3> DEFINE to(j) == IF j < i THEN j ELSE j + 1
    <3>1. to(k) \in 1 .. n /\ to(m) \in 1 .. n
      BY <2>7
    <3>2. s[to(k)] = s[to(m)]
      BY <2>6
    <3>3. to(k) = to(m)
      <4> HIDE DEF to
      <4> QED BY <3>1, <3>2 DEF Distinct, n
    <3> QED BY <2>7, <3>3
  <2>9. Within(r) = Within(s) \ {e}
    <3>1. ASSUME NEW k \in 1 .. n - 1 PROVE r[k] \in Within(s) \ {e}
      <4> DEFINE to == IF k < i THEN k ELSE k + 1
      <4>1. to \in 1 .. n /\ to # i /\ r[k] = s[to]
        BY <2>6, <2>7
      <4> HIDE DEF to
      <4> QED BY <2>2, <4>1 DEF Within, n
    <3>2. ASSUME NEW j \in 1 .. n, s[j] # e PROVE s[j] \in Within(r)
      <4> DEFINE k == IF j < i THEN j ELSE j - 1
      <4>1. j # i
        BY <2>1, <3>2
      <4>2. k \in 1 .. n - 1 /\ (k < i <=> j < i) /\ (~(k < i) => k + 1 = j) /\ (k < i => k = j)
        BY <2>7, <4>1
      <4> HIDE DEF k
      <4>3. r[k] = s[j]
        BY <2>6, <4>2
      <4> QED BY <2>6, <4>2, <4>3 DEF Within
    <3> QED BY <2>6, <3>1, <3>2 DEF Within, n
  <2> QED BY <2>1, <2>2, <2>5, <2>6, <2>8, <2>9 DEF r, n
<1>2. CASE ~\E i \in 1 .. Len(s) : s[i] = e
  <2>1. RemoveFirst(s, e) = s
    BY <1>2 DEF RemoveFirst
  <2>2. Within(s) = Within(s) \ {e}
    BY <1>2 DEF Within
  <2> QED BY <1>2, <2>1, <2>2
<1> QED BY <1>1, <1>2

LEMMA AppendedLast ==
  ASSUME NEW S, NEW s \in Seq(S), NEW e \in S
  PROVE  /\ Append(s, e) \in Seq(S) /\ Within(Append(s, e)) = Within(s) \cup {e}
         /\ Distinct(s) /\ e \notin Within(s) => Distinct(Append(s, e))
<1> DEFINE a == Append(s, e)
           n == Len(s)
<1>1. /\ n \in Nat /\ a \in Seq(S) /\ Len(a) = n + 1 /\ a[n + 1] = e
      /\ \A k \in 1 .. n : a[k] = s[k]
  OBVIOUS
<1> HIDE DEF a, n
<1>2. \A k : k \in 1 .. Len(a) <=> k \in 1 .. n \/ k = n + 1
  BY <1>1
<1>3. ASSUME NEW x \in Within(a) PROVE x \in Within(s) \cup {e}
  <2>1. PICK k \in 1 .. Len(a) : x = a[k]
    BY DEF Within
  <2> QED BY <1>1, <1>2, <2>1 DEF Within, n
<1>4. ASSUME NEW x \in Within(s) \cup {e} PROVE x \in Within(a)
  <2>1. CASE x = e
    <3>1. n + 1 \in 1 .. Len(a)
      BY <1>2
    <3> QED BY <1>1, <2>1, <3>1 DEF Within
  <2>2. CASE x \in Within(s)
    <3>1. PICK k \in 1 .. n : x = s[k]
      BY <2>2 DEF Within, n
    <3>2. k \in 1 .. Len(a) /\ a[k] = x
      BY <1>1, <1>2, <3>1
    <3> QED BY <3>2 DEF Within
  <2> QED BY <2>1, <2>2
<1>5. ASSUME Distinct(s), e \notin Within(s) PROVE Distinct(a)
  <2> SUFFICES ASSUME NEW i \in 1 .. Len(a), NEW j \in 1 .. Len(a), a[i] = a[j] PROVE i = j
    BY DEF Distinct
  <2>1. (i \in 1 .. n \/ i = n + 1) /\ (j \in 1 .. n \/ j = n + 1)
    BY <1>2
  <2>2. \A k \in 1 .. n : s[k] # e
    BY <1>5 DEF Within, n
  <2> QED BY <1>1, <1>5, <2>1, <2>2 DEF Distinct, n
<1> QED BY <1>1, <1>3, <1>4, <1>5 DEF a

LEMMA PutFirst ==
  ASSUME NEW S, NEW s \in Seq(S), NEW e \in S
  PROVE  /\ <<e>> \o s \in Seq(S) /\ Within(<<e>> \o s) = Within(s) \cup {e}
         /\ Distinct(s) /\ e \notin Within(s) => Distinct(<<e>> \o s)
<1> DEFINE a == <<e>> \o s
           n == Len(s)
<1>1. /\ n \in Nat /\ a \in Seq(S) /\ Len(a) = n + 1 /\ a[1] = e
      /\ \A k \in 1 .. n : a[k + 1] = s[k]
  <2>1. <<e>> \in Seq(S) /\ Len(<<e>>) = 1 /\ <<e>>[1] = e /\ n \in Nat
    OBVIOUS
  <2> DEFINE b == <<e>>
  <2> HIDE DEF b
  <2>2. /\ b \o s \in Seq(S) /\ Len(b \o s) = Len(b) + n
        /\ \A i \in 1 .. Len(b) + n : (b \o s)[i] = IF i <= Len(b) THEN b[i] ELSE s[i - Len(b)]
    BY <2>1, ConcatProperties DEF b
  <2>3. a = b \o s /\ Len(b) = 1 /\ b[1] = e
    BY <2>1 DEF b
  <2> HIDE DEF a, n
  <2>4. 1 \in 1 .. 1 + n /\ \A k \in 1 .. n : k + 1 \in 1 .. 1 + n /\ ~(k + 1 <= 1) /\ (k + 1) - 1 = k
    BY <2>1
  <2> QED BY <2>1, <2>2, <2>3, <2>4
<1> HIDE DEF a, n
<1>2. \A k \in 1 .. Len(a) : k = 1 \/ (k - 1 \in 1 .. n /\ a[k] = s[k - 1])
  <2> SUFFICES ASSUME NEW k \in 1 .. Len(a), k # 1 PROVE k - 1 \in 1 .. n /\ a[k] = s[k - 1]
    OBVIOUS
  <2>1. k - 1 \in 1 .. n /\ (k - 1) + 1 = k
    BY <1>1
  <2> QED BY <1>1, <2>1
<1>3. ASSUME NEW x \in Within(a) PROVE x \in Within(s) \cup {e}
  <2>1. PICK k \in 1 .. Len(a) : x = a[k]
    BY DEF Within
  <2> QED BY <1>1, <1>2, <2>1 DEF Within, n
<1>4. ASSUME NEW x \in Within(s) \cup {e} PROVE x \in Within(a)
  <2>1. CASE x = e
    <3>1. 1 \in 1 .. Len(a)
      BY <1>1
    <3> QED BY <1>1, <2>1, <3>1 DEF Within
  <2>2. CASE x \in Within(s)
    <3>1. PICK k \in 1 .. n : x = s[k]
      BY <2>2 DEF Within, n
    <3>2. k + 1 \in 1 .. Len(a) /\ a[k + 1] = x
      BY <1>1, <3>1
    <3> QED BY <3>2 DEF Within
  <2> QED BY <2>1, <2>2
<1>5. ASSUME Distinct(s), e \notin Within(s) PROVE Distinct(a)
  <2> SUFFICES ASSUME NEW i \in 1 .. Len(a), NEW j \in 1 .. Len(a), a[i] = a[j] PROVE i = j
    BY DEF Distinct
  <2>1. \A k \in 1 .. n : s[k] # e
    BY <1>5 DEF Within, n
  <2>2. CASE i = 1 \/ j = 1
    BY <1>1, <1>2, <2>1, <2>2
  <2>3. CASE i # 1 /\ j # 1
    <3>1. i - 1 = j - 1
      BY <1>2, <1>5, <2>3 DEF Distinct, n
    <3> QED BY <1>1, <3>1
  <2> QED BY <2>2, <2>3
<1> QED BY <1>1, <1>3, <1>4, <1>5 DEF a

LEMMA TookFirst ==
  ASSUME NEW S, NEW s \in Seq(S), s # <<>>, Distinct(s)
  PROVE  /\ Head(s) \in Within(s) /\ Head(s) \in S
         /\ Tail(s) \in Seq(S) /\ Distinct(Tail(s)) /\ Within(Tail(s)) = Within(s) \ {Head(s)}
<1> DEFINE t == Tail(s)
           n == Len(s)
<1>1. /\ n \in Nat /\ n >= 1 /\ t \in Seq(S) /\ Len(t) = n - 1 /\ Head(s) = s[1] /\ s[1] \in S
      /\ \A k \in 1 .. n - 1 : t[k] = s[k + 1]
  OBVIOUS
<1> HIDE DEF t, n
<1>2. \A k \in 1 .. n - 1 : k + 1 \in 1 .. n /\ k + 1 # 1
  BY <1>1
<1>3. 1 \in 1 .. n
  BY <1>1
<1>4. Distinct(t)
  <2> SUFFICES ASSUME NEW i \in 1 .. n - 1, NEW j \in 1 .. n - 1, t[i] = t[j] PROVE i = j
    BY <1>1 DEF Distinct
  <2>1. s[i + 1] = s[j + 1] /\ i + 1 \in 1 .. n /\ j + 1 \in 1 .. n
    BY <1>1, <1>2
  <2>2. i + 1 = j + 1
    BY <2>1 DEF Distinct, n
  <2> QED BY <1>1, <2>2
<1>5. Within(t) = Within(s) \ {s[1]}
  <2>1. ASSUME NEW k \in 1 .. n - 1 PROVE t[k] \in Within(s) \ {s[1]}
    BY <1>1, <1>2, <1>3 DEF Within, Distinct, n
  <2>2. ASSUME NEW k \in 1 .. n, s[k] # s[1] PROVE s[k] \in Within(t)
    <3>1. k # 1
      BY <2>2
    <3>2. k - 1 \in 1 .. n - 1 /\ (k - 1) + 1 = k
      BY <1>1, <3>1
    <3>3. t[k - 1] = s[k]
      BY <1>1, <3>2
    <3> QED BY <1>1, <3>2, <3>3 DEF Within
  <2> QED BY <1>1, <2>1, <2>2 DEF Within, n
<1>6. s[1] \in Within(s)
  BY <1>3 DEF Within, n
<1> QED BY <1>1, <1>4, <1>5, <1>6 DEF t

\* insert: a socket goes to the end.
LEMMA InsertKeeps ==
  ASSUME NEW l, NEW q, IsList(l, q), NEW u \in SocketIds, u \notin Within(q)
  PROVE  IsList(ListInsert(l, u), Append(q, u))
<1> DEFINE n == Len(q)
           r == Append(q, u)
           new == ListInsert(l, u)
<1>1. /\ l \in Lists /\ q \in Seq(SocketIds) /\ n \in Nat /\ Distinct(q)
      /\ l.head = (IF q = <<>> THEN NoSocket ELSE q[1])
      /\ l.last = (IF q = <<>> THEN NoSocket ELSE q[n])
      /\ \A k \in 1 .. n : /\ l.next[q[k]] = IF k = n THEN NoSocket ELSE q[k + 1]
                           /\ l.prev[q[k]] = IF k = 1 THEN NoSocket ELSE q[k - 1]
  BY DEF IsList
<1>2. /\ r \in Seq(SocketIds) /\ Len(r) = n + 1 /\ r[n + 1] = u /\ r # <<>>
      /\ \A k \in 1 .. n : r[k] = q[k] /\ q[k] \in SocketIds /\ q[k] # u
  BY <1>1 DEF Within
<1>3. NoSocket \notin SocketIds
  BY QueuesAssumption DEF NoSocket
<1>4. q = <<>> <=> n = 0
  BY <1>1
<1>5. Distinct(r)
  <2> SUFFICES ASSUME NEW i \in 1 .. n + 1, NEW j \in 1 .. n + 1, r[i] = r[j] PROVE i = j
    BY <1>2 DEF Distinct
  <2>1. (i \in 1 .. n \/ i = n + 1) /\ (j \in 1 .. n \/ j = n + 1)
    BY <1>1
  <2> HIDE DEF r
  <2> QED BY <1>1, <1>2, <2>1 DEF Distinct
<1> HIDE DEF r
<1>6. CASE n = 0
  <2>1. new = [l EXCEPT !.prev[u] = NoSocket, !.next[u] = NoSocket, !.head = u, !.last = u]
    BY <1>1, <1>4, <1>6 DEF ListInsert
  <2> DEFINE next == [l.next EXCEPT ![u] = NoSocket]
             prev == [l.prev EXCEPT ![u] = NoSocket]
  <2>2. new = [l EXCEPT !.prev = prev, !.next = next, !.head = u, !.last = u]
    BY <2>1
  <2>3. /\ next \in [SocketIds -> SocketIds \cup {NoSocket}] /\ next[u] = NoSocket
        /\ prev \in [SocketIds -> SocketIds \cup {NoSocket}] /\ prev[u] = NoSocket
    BY <1>1 DEF Lists
  <2> HIDE DEF next, prev
  <2>4. /\ new \in Lists /\ new.head = u /\ new.last = u
        /\ new.next = next /\ new.prev = prev
    BY <1>1, <2>2, <2>3 DEF Lists
  <2> HIDE DEF new
  <2>5. Len(r) = 1 /\ r[1] = u
    BY <1>2, <1>6
  <2>6. \A k \in 1 .. Len(r) : k = 1
    BY <2>5
  <2>7. IsList(new, r)
    BY <1>2, <1>5, <2>3, <2>4, <2>5, <2>6 DEF IsList
  <2> QED BY <2>7 DEF new, r
<1>7. CASE n # 0
  <2>1. l.head = q[1] /\ l.last = q[n] /\ 1 \in 1 .. n /\ n \in 1 .. n /\ n # n + 1
    BY <1>1, <1>4, <1>7
  <2>2. l.head # NoSocket /\ q[n] \in SocketIds /\ q[n] # u
    BY <1>2, <1>3, <2>1
  <2> DEFINE next == [l.next EXCEPT ![u] = NoSocket, ![q[n]] = u]
             prev == [l.prev EXCEPT ![u] = q[n]]
  <2>3. new = [l EXCEPT !.prev = prev, !.next = next, !.last = u]
    BY <2>1, <2>2 DEF ListInsert
  <2>4. /\ next \in [SocketIds -> SocketIds \cup {NoSocket}]
        /\ next[u] = NoSocket /\ next[q[n]] = u
        /\ \A v \in SocketIds : v # u /\ v # q[n] => next[v] = l.next[v]
    BY <1>1, <2>2 DEF Lists
  <2>5. /\ prev \in [SocketIds -> SocketIds \cup {NoSocket}]
        /\ prev[u] = q[n] /\ \A v \in SocketIds : v # u => prev[v] = l.prev[v]
    BY <1>1, <2>2 DEF Lists
  <2> HIDE DEF next, prev
  <2>6. /\ new \in Lists /\ new.head = l.head /\ new.last = u
        /\ new.next = next /\ new.prev = prev
    BY <1>1, <2>3, <2>4, <2>5 DEF Lists
  <2> HIDE DEF new
  <2>7. ASSUME NEW k \in 1 .. n + 1
        PROVE  /\ next[r[k]] = IF k = n + 1 THEN NoSocket ELSE r[k + 1]
               /\ prev[r[k]] = IF k = 1 THEN NoSocket ELSE r[k - 1]
    <3>1. CASE k = n + 1
      <4>1. k # 1 /\ k - 1 = n
        BY <1>1, <1>7, <3>1
      <4> QED BY <1>2, <2>1, <2>4, <2>5, <3>1, <4>1, Zenon
    <3>2. CASE k = n
      <4>1. k # n + 1 /\ (k # 1 => k - 1 \in 1 .. n)
        BY <1>1, <1>7, <3>2
      <4>2. r[k] = q[n] /\ r[k + 1] = u /\ (k # 1 => r[k - 1] = q[k - 1])
        BY <1>2, <2>1, <3>2, <4>1
      <4>3. l.prev[q[n]] = IF n = 1 THEN NoSocket ELSE q[n - 1]
        BY <1>1, <2>1
      <4> QED BY <2>2, <2>4, <2>5, <3>2, <4>1, <4>2, <4>3
    <3>3. CASE k \in 1 .. n /\ k # n
      <4>1. k # n + 1 /\ k + 1 \in 1 .. n /\ (k # 1 => k - 1 \in 1 .. n)
        BY <1>1, <3>3
      <4>2. r[k] = q[k] /\ r[k + 1] = q[k + 1] /\ (k # 1 => r[k - 1] = q[k - 1])
        BY <1>2, <3>3, <4>1
      <4>3. q[k] # u /\ q[k] # q[n] /\ q[k] \in SocketIds
        BY <1>1, <1>2, <2>1, <3>3 DEF Distinct
      <4>4. next[q[k]] = l.next[q[k]] /\ prev[q[k]] = l.prev[q[k]]
        BY <2>4, <2>5, <4>3
      <4> QED BY <1>1, <3>3, <4>1, <4>2, <4>4
    <3>4. k \in 1 .. n \/ k = n + 1
      BY <1>1
    <3> QED BY <3>1, <3>2, <3>3, <3>4
  <2>8. r[1] = q[1]
    BY <1>2, <2>1
  <2>9. new.head = r[1] /\ new.last = r[Len(r)]
    BY <1>2, <2>1, <2>6, <2>8
  <2>10. \A k \in 1 .. Len(r) :
           /\ new.next[r[k]] = IF k = Len(r) THEN NoSocket ELSE r[k + 1]
           /\ new.prev[r[k]] = IF k = 1 THEN NoSocket ELSE r[k - 1]
    BY <1>2, <2>6, <2>7
  <2> HIDE DEF n
  <2>11. IsList(new, r)
    BY <1>2, <1>5, <2>6, <2>9, <2>10 DEF IsList
  <2> QED BY <2>11 DEF new, r
<1> QED BY <1>6, <1>7 DEF r, new

\* The neighbours of a socket are joined.
LEMMA UnlinkKeeps ==
  ASSUME NEW l, NEW q, IsList(l, q), NEW i \in 1 .. Len(q)
  PROVE  IsList(Unlink(l, q[i]), RemoveAt(q, i))
<1> DEFINE n == Len(q)
           u == q[i]
           p == l.prev[u]
           m == l.next[u]
           r == RemoveAt(q, i)
           new == Unlink(l, u)
<1>1. /\ l \in Lists /\ q \in Seq(SocketIds) /\ n \in Nat /\ Distinct(q)
      /\ l.head = (IF q = <<>> THEN NoSocket ELSE q[1])
      /\ l.last = (IF q = <<>> THEN NoSocket ELSE q[n])
      /\ \A k \in 1 .. n : /\ l.next[q[k]] = IF k = n THEN NoSocket ELSE q[k + 1]
                           /\ l.prev[q[k]] = IF k = 1 THEN NoSocket ELSE q[k - 1]
  BY DEF IsList
<1>2. i \in Nat /\ 1 <= i /\ i <= n /\ n \in Nat
  BY <1>1
<1>3. NoSocket \notin SocketIds
  BY QueuesAssumption DEF NoSocket
<1>4. /\ r \in Seq(SocketIds) /\ Len(r) = n - 1
      /\ \A k \in 1 .. n - 1 : r[k] = IF k < i THEN q[k] ELSE q[k + 1]
  BY <1>1, RemovedAt
<1>5. Distinct(r)
  <2>1. Distinct(q) /\ q \in Seq(SocketIds) /\ i \in 1 .. Len(q) /\ q[i] = u
    BY <1>1
  <2>2. Distinct(RemoveFirst(q, u)) /\ RemoveFirst(q, u) = RemoveAt(q, i)
    <3> HIDE DEF u
    <3> QED BY <2>1, RemovedFirst
  <2> QED BY <2>2
<1>6. \A k \in 1 .. n : q[k] \in SocketIds
  BY <1>1
<1>7. /\ m = IF i = n THEN NoSocket ELSE q[i + 1]
      /\ p = IF i = 1 THEN NoSocket ELSE q[i - 1]
  BY <1>1, <1>2
<1>8. /\ i # n => i + 1 \in 1 .. n /\ m \in SocketIds /\ m # NoSocket
      /\ i # 1 => i - 1 \in 1 .. n /\ p \in SocketIds /\ p # NoSocket
      /\ (m = NoSocket <=> i = n) /\ (p = NoSocket <=> i = 1)
  <2>1. (i # n => i + 1 \in 1 .. n) /\ (i # 1 => i - 1 \in 1 .. n)
    BY <1>2
  <2> QED BY <1>3, <1>6, <1>7, <2>1
<1> DEFINE next == IF p = NoSocket THEN l.next ELSE [l.next EXCEPT ![p] = m]
           prev == IF m = NoSocket THEN l.prev ELSE [l.prev EXCEPT ![m] = p]
           head == IF p = NoSocket THEN m ELSE l.head
           last == IF m = NoSocket THEN p ELSE l.last
<1>9. new = [l EXCEPT !.head = head, !.last = last, !.next = next, !.prev = prev]
  BY DEF Unlink
<1>10. /\ l.next \in [SocketIds -> SocketIds \cup {NoSocket}]
       /\ l.prev \in [SocketIds -> SocketIds \cup {NoSocket}]
       /\ l.head \in SocketIds \cup {NoSocket} /\ l.last \in SocketIds \cup {NoSocket}
  BY <1>1 DEF Lists
<1>11. p \in SocketIds \cup {NoSocket} /\ m \in SocketIds \cup {NoSocket}
  BY <1>8
<1> HIDE DEF p, m, u, n
<1>12. /\ next \in [SocketIds -> SocketIds \cup {NoSocket}]
       /\ p # NoSocket => next[p] = m
       /\ \A v \in SocketIds : v # p => next[v] = l.next[v]
  BY <1>8, <1>10, <1>11
<1>13. /\ prev \in [SocketIds -> SocketIds \cup {NoSocket}]
       /\ m # NoSocket => prev[m] = p
       /\ \A v \in SocketIds : v # m => prev[v] = l.prev[v]
  BY <1>8, <1>10, <1>11
<1>14. head \in SocketIds \cup {NoSocket} /\ last \in SocketIds \cup {NoSocket}
  BY <1>10, <1>11
<1> HIDE DEF next, prev, new
<1>15. /\ new \in Lists /\ new.head = head /\ new.last = last
       /\ new.next = next /\ new.prev = prev
  <2> HIDE DEF head, last
  <2> QED BY <1>1, <1>9, <1>12, <1>13, <1>14 DEF Lists
<1> HIDE DEF r
<1>16. ASSUME NEW k \in 1 .. n - 1
       PROVE  /\ next[r[k]] = IF k = n - 1 THEN NoSocket ELSE r[k + 1]
              /\ prev[r[k]] = IF k = 1 THEN NoSocket ELSE r[k - 1]
  <2> DEFINE to == IF k < i THEN k ELSE k + 1
  <2>1. /\ to \in 1 .. n /\ to # i /\ k \in Nat /\ 1 <= k /\ k <= n - 1
        /\ (i # 1 => (to = i - 1 <=> k = i - 1)) /\ (i # n => (to = i + 1 <=> k = i))
    BY <1>2
  <2>2. r[k] = q[to]
    BY <1>2, <1>4
  <2> HIDE DEF to
  <2>3. q[to] \in SocketIds /\ (p # NoSocket => (q[to] = p <=> to = i - 1))
                          /\ (m # NoSocket => (q[to] = m <=> to = i + 1))
    BY <1>1, <1>6, <1>7, <1>8, <2>1 DEF Distinct, n
  <2>4. /\ next[q[to]] = IF i # 1 /\ to = i - 1 THEN m
                         ELSE IF to = n THEN NoSocket ELSE q[to + 1]
        /\ prev[q[to]] = IF i # n /\ to = i + 1 THEN p
                         ELSE IF to = 1 THEN NoSocket ELSE q[to - 1]
    <3>1. q[to] # NoSocket
      BY <1>3, <2>3
    <3>2. next[q[to]] = IF q[to] = p THEN m ELSE l.next[q[to]]
      BY <1>12, <2>3, <3>1
    <3>3. prev[q[to]] = IF q[to] = m THEN p ELSE l.prev[q[to]]
      BY <1>13, <2>3, <3>1
    <3>4. q[to] = p <=> i # 1 /\ to = i - 1
      BY <1>8, <2>3, <3>1
    <3>5. q[to] = m <=> i # n /\ to = i + 1
      BY <1>8, <2>3, <3>1
    <3> QED BY <1>1, <2>1, <3>2, <3>3, <3>4, <3>5
  <2>5. next[r[k]] = IF k = n - 1 THEN NoSocket ELSE r[k + 1]
    <3>1. CASE k = n - 1
      <4>1. i = n \/ to = n
        BY <1>2, <3>1 DEF to
      <4>2. CASE i = n
        <5>1. to = i - 1 /\ i # 1
          BY <1>2, <2>1, <3>1, <4>2
        <5> QED BY <1>8, <2>2, <2>4, <3>1, <4>2, <5>1
      <4>3. CASE to = n /\ i # n
        <5>1. ~(i # 1 /\ to = i - 1)
          BY <1>2, <4>3
        <5> QED BY <2>2, <2>4, <3>1, <4>3, <5>1
      <4> QED BY <4>1, <4>2, <4>3
    <3>2. CASE k # n - 1
      <4>1. k + 1 \in 1 .. n - 1
        BY <1>2, <2>1, <3>2
      <4>2. r[k + 1] = IF k + 1 < i THEN q[k + 1] ELSE q[(k + 1) + 1]
        BY <1>4, <4>1
      <4>3. CASE k + 1 < i
        <5>1. to = k /\ ~(i # 1 /\ to = i - 1) /\ to # n
          BY <1>2, <2>1, <4>3 DEF to
        <5> QED BY <2>2, <2>4, <3>2, <4>2, <4>3, <5>1
      <4>4. CASE k + 1 = i
        <5>1. i # 1 /\ to = i - 1 /\ i # n /\ ~(k + 1 < i) /\ (k + 1) + 1 = i + 1
          BY <1>2, <2>1, <3>2, <4>4 DEF to
        <5> QED BY <1>7, <2>2, <2>4, <3>2, <4>2, <5>1
      <4>5. CASE k + 1 > i
        <5>1. to = k + 1 /\ ~(i # 1 /\ to = i - 1) /\ to # n /\ ~(k + 1 < i)
          BY <1>2, <2>1, <3>2, <4>5 DEF to
        <5> QED BY <2>2, <2>4, <3>2, <4>2, <5>1
      <4> QED BY <1>2, <2>1, <4>3, <4>4, <4>5
    <3> QED BY <3>1, <3>2
  <2>6. prev[r[k]] = IF k = 1 THEN NoSocket ELSE r[k - 1]
    <3>1. CASE k = 1
      <4>1. CASE i = 1
        <5>1. to = i + 1 /\ i # n
          BY <1>2, <2>1, <3>1, <4>1
        <5> QED BY <1>8, <2>2, <2>4, <3>1, <4>1, <5>1
      <4>2. CASE i # 1
        <5>1. to = 1 /\ to # i + 1
          BY <1>2, <2>1, <3>1, <4>2 DEF to
        <5> QED BY <2>2, <2>4, <3>1, <5>1
      <4> QED BY <4>1, <4>2
    <3>2. CASE k # 1
      <4>1. k - 1 \in 1 .. n - 1
        BY <1>2, <2>1, <3>2
      <4>2. r[k - 1] = IF k - 1 < i THEN q[k - 1] ELSE q[(k - 1) + 1]
        BY <1>4, <4>1
      <4>3. CASE k < i
        <5>1. to = k /\ to # i + 1 /\ to # 1 /\ k - 1 < i
          BY <1>2, <2>1, <3>2, <4>3 DEF to
        <5> QED BY <2>2, <2>4, <3>2, <4>2, <5>1
      <4>4. CASE k = i
        <5>1. i # n /\ to = i + 1 /\ k - 1 < i /\ i # 1
          BY <1>2, <2>1, <3>2, <4>4 DEF to
        <5> QED BY <1>7, <2>2, <2>4, <3>2, <4>2, <4>4, <5>1
      <4>5. CASE k > i
        <5>1. to = k + 1 /\ to # i + 1 /\ to # 1 /\ ~(k - 1 < i) /\ (k - 1) + 1 = to - 1
          BY <1>2, <2>1, <3>2, <4>5 DEF to
        <5> QED BY <2>2, <2>4, <3>2, <4>2, <5>1
      <4> QED BY <1>2, <2>1, <4>3, <4>4, <4>5
    <3> QED BY <3>1, <3>2
  <2> QED BY <2>5, <2>6
<1>17. r = <<>> <=> n = 1
  BY <1>2, <1>4
<1>18. head = IF r = <<>> THEN NoSocket ELSE r[1]
  <2>1. q # <<>>
    BY <1>1, <1>2 DEF n
  <2>2. CASE n = 1
    <3>1. i = 1 /\ i = n
      BY <1>2, <2>2
    <3> QED BY <1>8, <1>17, <2>2, <3>1
  <2>3. CASE n # 1 /\ i = 1
    <3>1. 1 \in 1 .. n - 1 /\ i # n /\ ~(1 < i)
      BY <1>2, <2>3
    <3> QED BY <1>4, <1>7, <1>8, <1>17, <2>3, <3>1
  <2>4. CASE n # 1 /\ i # 1
    <3>1. 1 \in 1 .. n - 1 /\ 1 < i
      BY <1>2, <2>4
    <3> QED BY <1>1, <1>4, <1>8, <1>17, <2>1, <2>4, <3>1
  <2> QED BY <2>2, <2>3, <2>4
<1>19. last = IF r = <<>> THEN NoSocket ELSE r[n - 1]
  <2>1. q # <<>>
    BY <1>1, <1>2 DEF n
  <2>2. CASE n = 1
    <3>1. i = 1 /\ i = n
      BY <1>2, <2>2
    <3> QED BY <1>8, <1>17, <2>2, <3>1
  <2>3. CASE n # 1 /\ i = n
    <3>1. n - 1 \in 1 .. n - 1 /\ i # 1 /\ n - 1 < i /\ i - 1 = n - 1
      BY <1>2, <2>3
    <3> QED BY <1>4, <1>7, <1>8, <1>17, <2>3, <3>1
  <2>4. CASE n # 1 /\ i # n
    <3>1. n - 1 \in 1 .. n - 1 /\ ~(n - 1 < i) /\ (n - 1) + 1 = n
      BY <1>2, <2>4
    <3> QED BY <1>1, <1>4, <1>8, <1>17, <2>1, <2>4, <3>1
  <2> QED BY <2>2, <2>3, <2>4
<1> HIDE DEF head, last
<1>20. IsList(new, r)
  BY <1>4, <1>5, <1>15, <1>16, <1>18, <1>19 DEF IsList
<1> QED BY <1>20 DEF new, r, u

\* update: a socket goes to the end, unless it is there.
LEMMA UpdateKeeps ==
  ASSUME NEW l, NEW q, IsList(l, q), NEW u \in Within(q)
  PROVE  /\ IsList(ListUpdate(l, u), Append(RemoveFirst(q, u), u))
         /\ Within(Append(RemoveFirst(q, u), u)) = Within(q)
<1> DEFINE n == Len(q)
           r == RemoveFirst(q, u)
<1>1. PICK i \in 1 .. Len(q) : q[i] = u
  BY DEF Within
<1>2. q \in Seq(SocketIds) /\ n \in Nat /\ Distinct(q) /\ u \in SocketIds
  BY <1>1 DEF IsList
<1>3. l.next[u] = IF i = n THEN NoSocket ELSE q[i + 1]
  BY <1>1 DEF IsList
<1>4. /\ r = RemoveAt(q, i) /\ Within(r) = Within(q) \ {u}
      /\ r \in Seq(SocketIds) /\ Len(r) = n - 1
      /\ \A k \in 1 .. n - 1 : r[k] = IF k < i THEN q[k] ELSE q[k + 1]
  <2>1. /\ r = RemoveAt(q, i) /\ Within(r) = Within(q) \ {u}
    BY <1>1, <1>2, RemovedFirst
  <2> HIDE DEF r
  <2> QED BY <1>1, <1>2, <2>1, RemovedAt
<1> HIDE DEF r
<1> DEFINE a == Append(r, u)
<1>5. Within(a) = Within(q)
  <2>1. Within(a) = Within(r) \cup {u}
    BY <1>2, <1>4, AppendedLast
  <2> QED BY <1>4, <2>1
<1>6. NoSocket \notin SocketIds
  BY QueuesAssumption DEF NoSocket
<1>7. CASE i = n
  <2>1. ListUpdate(l, u) = l
    BY <1>3, <1>7 DEF ListUpdate
  <2>2. a = q
    <3>1. a \in Seq(SocketIds) /\ Len(a) = n
      BY <1>2, <1>4
    <3>2. ASSUME NEW k \in 1 .. n PROVE a[k] = q[k]
      <4>1. CASE k = n
        <5>1. k = Len(r) + 1
          BY <1>2, <1>4, <4>1
        <5>2. a[Len(r) + 1] = u
          BY <1>2, <1>4
        <5> QED BY <1>1, <1>7, <4>1, <5>1, <5>2
      <4>2. CASE k # n
        <5>1. k \in 1 .. n - 1 /\ k < i
          BY <1>2, <1>7, <4>2
        <5>2. a[k] = r[k]
          BY <1>2, <1>4, <5>1
        <5> QED BY <1>4, <5>1, <5>2
      <4> QED BY <4>1, <4>2
    <3> HIDE DEF a
    <3> QED BY <1>2, <3>1, <3>2
  <2> QED BY <1>5, <2>1, <2>2 DEF r
<1>8. CASE i # n
  <2>1. i + 1 \in 1 .. n
    BY <1>2, <1>8
  <2>2. l.next[u] # NoSocket
    BY <1>2, <1>3, <1>6, <1>8, <2>1
  <2>3. ListUpdate(l, u) = ListInsert(Unlink(l, u), u)
    BY <2>2 DEF ListUpdate
  <2>4. IsList(Unlink(l, u), r)
    BY <1>1, <1>4, UnlinkKeeps
  <2>5. u \notin Within(r)
    BY <1>4
  <2>6. IsList(ListInsert(Unlink(l, u), u), a)
    BY <1>2, <2>4, <2>5, InsertKeeps
  <2> QED BY <1>5, <2>3, <2>6 DEF r
<1> QED BY <1>7, <1>8

\* remove: the socket is unlinked, and its own links are reset.
LEMMA RemoveKeeps ==
  ASSUME NEW l, NEW q, IsList(l, q), NEW u \in Within(q)
  PROVE  IsList(ListRemove(l, u), RemoveFirst(q, u))
<1> DEFINE r == RemoveFirst(q, u)
           m == Unlink(l, u)
           new == ListRemove(l, u)
<1>1. PICK i \in 1 .. Len(q) : q[i] = u
  BY DEF Within
<1>2. q \in Seq(SocketIds) /\ Distinct(q) /\ u \in SocketIds
  BY <1>1 DEF IsList
<1>3. r = RemoveAt(q, i) /\ Within(r) = Within(q) \ {u}
  BY <1>1, <1>2, RemovedFirst
<1>4. IsList(m, r)
  BY <1>1, <1>3, UnlinkKeeps
<1>5. \A k \in 1 .. Len(r) : r[k] # u
  BY <1>3 DEF Within
<1> HIDE DEF r, m
<1> DEFINE next == [m.next EXCEPT ![u] = NoSocket]
           prev == [m.prev EXCEPT ![u] = NoSocket]
<1>6. new = [m EXCEPT !.next = next, !.prev = prev]
  BY DEF ListRemove, m
<1>7. m \in Lists /\ r \in Seq(SocketIds)
  BY <1>4 DEF IsList
<1>8. /\ next \in [SocketIds -> SocketIds \cup {NoSocket}]
      /\ prev \in [SocketIds -> SocketIds \cup {NoSocket}]
      /\ \A v \in SocketIds : v # u => next[v] = m.next[v] /\ prev[v] = m.prev[v]
  BY <1>2, <1>7 DEF Lists
<1> HIDE DEF next, prev
<1>9. /\ new \in Lists /\ new.head = m.head /\ new.last = m.last
      /\ new.next = next /\ new.prev = prev
  BY <1>6, <1>7, <1>8 DEF Lists
<1> HIDE DEF new
<1>10. \A k \in 1 .. Len(r) : next[r[k]] = m.next[r[k]] /\ prev[r[k]] = m.prev[r[k]]
  BY <1>5, <1>7, <1>8
<1> QED BY <1>4, <1>9, <1>10 DEF IsList, r, new

LEMMA HashOfIsBucket == ASSUME NEW u \in SocketIds PROVE HashOf(u) \in 0 .. HashSize - 1
<1>1. u \in Nat /\ HashSize \in Nat /\ HashSize > 0
  BY QueuesAssumption
<1> QED BY <1>1, SMTT(30) DEF HashOf

LEMMA HashInsertKeeps ==
  ASSUME NEW bs, NEW q, NEW r, Hashes(bs, q), NEW u \in SocketIds, u \notin Within(q),
         Within(r) = Within(q) \cup {u}
  PROVE  Hashes([bs EXCEPT ![HashOf(u)] = <<u>> \o @], r)
<1> DEFINE h == HashOf(u)
           new == [bs EXCEPT ![h] = <<u>> \o @]
<1>1. /\ bs \in [0 .. HashSize - 1 -> Seq(SocketIds)]
      /\ \A i \in 0 .. HashSize - 1 : Distinct(bs[i])
      /\ \A v \in SocketIds : v \in Within(bs[HashOf(v)]) <=> v \in Within(q)
  BY DEF Hashes
<1>2. h \in 0 .. HashSize - 1
  BY HashOfIsBucket
<1>3. bs[h] \in Seq(SocketIds) /\ Distinct(bs[h]) /\ u \notin Within(bs[h])
  BY <1>1, <1>2
<1> DEFINE b == <<u>> \o bs[h]
<1>4. b \in Seq(SocketIds) /\ Distinct(b) /\ Within(b) = Within(bs[h]) \cup {u}
  BY <1>3, PutFirst
<1> HIDE DEF b
<1>5. /\ new \in [0 .. HashSize - 1 -> Seq(SocketIds)] /\ new[h] = b
      /\ \A i \in 0 .. HashSize - 1 : i # h => new[i] = bs[i]
  BY <1>1, <1>2, <1>4 DEF b
<1> HIDE DEF new
<1>6. \A i \in 0 .. HashSize - 1 : Distinct(new[i])
  BY <1>1, <1>4, <1>5
<1>7. ASSUME NEW v \in SocketIds PROVE v \in Within(new[HashOf(v)]) <=> v \in Within(r)
  <2>1. HashOf(v) \in 0 .. HashSize - 1
    BY HashOfIsBucket
  <2>2. CASE HashOf(v) = h
    <3>1. v \in Within(new[HashOf(v)]) <=> v \in Within(bs[HashOf(v)]) \/ v = u
      BY <1>4, <1>5, <2>2
    <3> QED BY <1>1, <3>1
  <2>3. CASE HashOf(v) # h
    <3>1. v # u
      BY <2>3
    <3> QED BY <1>1, <1>5, <2>1, <2>3, <3>1
  <2> QED BY <2>2, <2>3
<1> QED BY <1>5, <1>6, <1>7 DEF Hashes, new

LEMMA HashRemoveKeeps ==
  ASSUME NEW bs, NEW q, NEW r, Hashes(bs, q), NEW u \in SocketIds,
         Within(r) = Within(q) \ {u}
  PROVE  Hashes(HashRemove(bs, u), r)
<1> DEFINE h == HashOf(u)
           new == HashRemove(bs, u)
           b == RemoveFirst(bs[h], u)
<1>1. /\ bs \in [0 .. HashSize - 1 -> Seq(SocketIds)]
      /\ \A i \in 0 .. HashSize - 1 : Distinct(bs[i])
      /\ \A v \in SocketIds : v \in Within(bs[HashOf(v)]) <=> v \in Within(q)
  BY DEF Hashes
<1>2. h \in 0 .. HashSize - 1
  BY HashOfIsBucket
<1>3. b \in Seq(SocketIds) /\ Distinct(b) /\ Within(b) = Within(bs[h]) \ {u}
  <2>1. bs[h] \in Seq(SocketIds) /\ Distinct(bs[h])
    BY <1>1, <1>2
  <2> QED BY <2>1, RemovedFirst
<1>4. new = [bs EXCEPT ![h] = b]
  BY DEF HashRemove
<1> HIDE DEF b, new
<1>5. /\ new \in [0 .. HashSize - 1 -> Seq(SocketIds)] /\ new[h] = b
      /\ \A i \in 0 .. HashSize - 1 : i # h => new[i] = bs[i]
  BY <1>1, <1>2, <1>3, <1>4
<1>6. \A i \in 0 .. HashSize - 1 : Distinct(new[i])
  BY <1>1, <1>3, <1>5
<1>7. ASSUME NEW v \in SocketIds PROVE v \in Within(new[HashOf(v)]) <=> v \in Within(r)
  <2>1. HashOf(v) \in 0 .. HashSize - 1
    BY HashOfIsBucket
  <2>2. CASE HashOf(v) = h
    <3>1. v \in Within(new[HashOf(v)]) <=> v \in Within(bs[HashOf(v)]) /\ v # u
      BY <1>3, <1>5, <2>2
    <3> QED BY <1>1, <3>1
  <2>3. CASE HashOf(v) # h
    <3>1. v # u
      BY <2>3
    <3> QED BY <1>1, <1>5, <2>1, <2>3, <3>1
  <2> QED BY <2>2, <2>3
<1> QED BY <1>5, <1>6, <1>7 DEF Hashes, new

LEMMA ListInitially == ListInit => ListInv
<1> SUFFICES ASSUME ListInit PROVE ListInv
  OBVIOUS
<1>1. /\ rcvOrder = EmptyList /\ buckets = [i \in 0 .. HashSize - 1 |-> <<>>]
      /\ newEntries = <<>> /\ onHash = <<>> /\ onList = [u \in SocketIds |-> FALSE]
  BY DEF ListInit
<1>2. Within(<<>>) = {} /\ Distinct(<<>>) /\ <<>> \in Seq(SocketIds) /\ Len(<<>>) = 0
  BY DEF Within, Distinct
<1>3. EmptyList \in Lists /\ EmptyList.head = NoSocket /\ EmptyList.last = NoSocket
  BY DEF EmptyList, Lists
<1>4. IsList(rcvOrder, onHash)
  <2>1. \A k \in 1 .. Len(onHash) : FALSE
    BY <1>1
  <2> QED BY <1>1, <1>2, <1>3, <2>1 DEF IsList
<1>5. Hashes(buckets, onHash)
  <2>1. \A u \in SocketIds : buckets[HashOf(u)] = <<>>
    BY <1>1, HashOfIsBucket
  <2> QED BY <1>1, <1>2, <2>1 DEF Hashes
<1> QED BY <1>1, <1>2, <1>4, <1>5 DEF ListInv

LEMMA ListConnectKeeps == ASSUME ListInv, NEW u \in SocketIds, ListConnect(u) PROVE ListInv'
<1>1. /\ ~onList[u] /\ newEntries' = Append(newEntries, u)
      /\ rcvOrder' = rcvOrder /\ buckets' = buckets /\ onHash' = onHash
      /\ onList' = [onList EXCEPT ![u] = TRUE]
  BY DEF ListConnect
<1>2. /\ newEntries \in Seq(SocketIds) /\ Distinct(newEntries)
      /\ Within(newEntries) \cap Within(onHash) = {}
      /\ onList \in [SocketIds -> BOOLEAN]
      /\ \A v \in Within(newEntries) \cup Within(onHash) : onList[v]
      /\ IsList(rcvOrder, onHash) /\ Hashes(buckets, onHash)
  BY DEF ListInv
<1>3. u \notin Within(newEntries) /\ u \notin Within(onHash)
  BY <1>1, <1>2
<1>4. /\ newEntries' \in Seq(SocketIds) /\ Distinct(newEntries')
      /\ Within(newEntries') = Within(newEntries) \cup {u}
  BY <1>1, <1>2, <1>3, AppendedLast
<1>5. onList' \in [SocketIds -> BOOLEAN]
  BY <1>1, <1>2
<1>6. onList'[u] /\ \A v \in SocketIds : v # u => onList'[v] = onList[v]
  BY <1>1, <1>2
<1>7. Within(newEntries) \subseteq SocketIds /\ Within(onHash) \subseteq SocketIds
  BY <1>2 DEF Within, IsList
<1>8. \A v \in Within(newEntries') \cup Within(onHash) : onList'[v]
  BY <1>2, <1>4, <1>6, <1>7, Zenon
<1>9. Within(newEntries') \cap Within(onHash) = {}
  BY <1>2, <1>3, <1>4
<1> QED BY <1>1, <1>2, <1>4, <1>5, <1>8, <1>9 DEF ListInv

LEMMA ListTakeNewKeeps == ListInv /\ ListTakeNew => ListInv'
<1> SUFFICES ASSUME ListInv, ListTakeNew PROVE ListInv'
  OBVIOUS
<1> DEFINE u == Head(newEntries)
<1>1. /\ newEntries # <<>> /\ newEntries' = Tail(newEntries)
      /\ rcvOrder' = ListInsert(rcvOrder, u)
      /\ buckets' = [buckets EXCEPT ![HashOf(u)] = <<u>> \o @]
      /\ onHash' = Append(onHash, u) /\ onList' = onList
  BY DEF ListTakeNew
<1>2. /\ newEntries \in Seq(SocketIds) /\ Distinct(newEntries)
      /\ Within(newEntries) \cap Within(onHash) = {}
      /\ onList \in [SocketIds -> BOOLEAN]
      /\ \A v \in Within(newEntries) \cup Within(onHash) : onList[v]
      /\ IsList(rcvOrder, onHash) /\ Hashes(buckets, onHash)
  BY DEF ListInv
<1>3. /\ u \in Within(newEntries) /\ u \in SocketIds
      /\ newEntries' \in Seq(SocketIds) /\ Distinct(newEntries')
      /\ Within(newEntries') = Within(newEntries) \ {u}
  BY <1>1, <1>2, TookFirst
<1> HIDE DEF u
<1>4. u \notin Within(onHash)
  BY <1>2, <1>3
<1>5. IsList(rcvOrder', onHash')
  BY <1>1, <1>2, <1>3, <1>4, InsertKeeps
<1>6. Within(onHash') = Within(onHash) \cup {u}
  <2>1. onHash \in Seq(SocketIds)
    BY <1>2 DEF IsList
  <2> QED BY <1>1, <1>3, <2>1, AppendedLast
<1>7. Hashes(buckets', onHash')
  BY <1>1, <1>2, <1>3, <1>4, <1>6, HashInsertKeeps
<1>8. Within(newEntries') \cap Within(onHash') = {}
  BY <1>2, <1>3, <1>6
<1>9. \A v \in Within(newEntries') \cup Within(onHash') : onList[v]
  BY <1>2, <1>3, <1>6, Zenon
<1> QED BY <1>1, <1>2, <1>3, <1>5, <1>7, <1>8, <1>9 DEF ListInv

\* A socket heard of goes to the end; the hash table does not change.
LEMMA LateKeeps ==
  ASSUME ListInv, NEW u \in Within(onHash), rcvOrder' = ListUpdate(rcvOrder, u),
         onHash' = Append(RemoveFirst(onHash, u), u),
         UNCHANGED <<buckets, newEntries, onList>>
  PROVE  ListInv'
<1>1. IsList(rcvOrder', onHash') /\ Within(onHash') = Within(onHash)
  BY UpdateKeeps DEF ListInv
<1>2. Hashes(buckets', onHash')
  BY <1>1 DEF ListInv, Hashes
<1> QED BY <1>1, <1>2 DEF ListInv

LEMMA ListHeardKeeps == ASSUME ListInv, NEW u \in SocketIds, ListHeard(u) PROVE ListInv'
<1>1. /\ \E k \in DOMAIN buckets[HashOf(u)] : buckets[HashOf(u)][k] = u
      /\ rcvOrder' = ListUpdate(rcvOrder, u)
      /\ onHash' = Append(RemoveFirst(onHash, u), u)
      /\ UNCHANGED <<buckets, newEntries, onList>>
  BY DEF ListHeard
<1>2. buckets[HashOf(u)] \in Seq(SocketIds)
  BY HashOfIsBucket DEF ListInv, Hashes
<1>3. u \in Within(buckets[HashOf(u)])
  BY <1>1, <1>2 DEF Within
<1>4. u \in Within(onHash)
  BY <1>3 DEF ListInv, Hashes
<1> QED BY <1>1, <1>4, LateKeeps

LEMMA ListTimerKeeps == ListInv /\ ListTimer => ListInv'
<1> SUFFICES ASSUME ListInv, ListTimer PROVE ListInv'
  OBVIOUS
<1> DEFINE u == rcvOrder.head
<1>1. u # NoSocket /\ newEntries' = newEntries
  BY DEF ListTimer
<1>2. IsList(rcvOrder, onHash) /\ Hashes(buckets, onHash) /\ onHash \in Seq(SocketIds)
      /\ Distinct(onHash)
  BY DEF ListInv, IsList
<1>3. u \in Within(onHash) /\ u \in SocketIds
  <2>1. onHash # <<>> /\ u = onHash[1]
    BY <1>1, <1>2 DEF IsList
  <2>2. 1 \in 1 .. Len(onHash)
    BY <1>2, <2>1
  <2> HIDE DEF u
  <2> QED BY <1>2, <2>1, <2>2 DEF Within
<1>4. CASE u \in alive
  <2>1. /\ rcvOrder' = ListUpdate(rcvOrder, u)
        /\ onHash' = Append(RemoveFirst(onHash, u), u)
        /\ buckets' = buckets /\ onList' = onList
    BY <1>4 DEF ListTimer
  <2> HIDE DEF u
  <2> QED BY <1>1, <1>3, <2>1, LateKeeps
<1>5. CASE u \notin alive
  <2>1. /\ buckets' = HashRemove(buckets, u) /\ rcvOrder' = ListRemove(rcvOrder, u)
        /\ onList' = [onList EXCEPT ![u] = FALSE] /\ onHash' = RemoveFirst(onHash, u)
    BY <1>5 DEF ListTimer
  <2> HIDE DEF u
  <2>2. IsList(rcvOrder', onHash')
    BY <1>2, <1>3, <2>1, RemoveKeeps
  <2>3. Within(onHash') = Within(onHash) \ {u}
    BY <1>2, <2>1, RemovedFirst
  <2>4. Hashes(buckets', onHash')
    BY <1>2, <1>3, <2>1, <2>3, HashRemoveKeeps
  <2>5. /\ newEntries \in Seq(SocketIds) /\ Distinct(newEntries)
        /\ Within(newEntries) \cap Within(onHash) = {}
        /\ onList \in [SocketIds -> BOOLEAN]
        /\ \A v \in Within(newEntries) \cup Within(onHash) : onList[v]
    BY DEF ListInv
  <2>6. onList' \in [SocketIds -> BOOLEAN]
    BY <2>1, <2>5
  <2>7. \A v \in SocketIds : v # u => onList'[v] = onList[v]
    BY <2>1, <2>5
  <2>8. Within(newEntries) \subseteq SocketIds /\ Within(onHash) \subseteq SocketIds
    BY <1>2, <2>5 DEF Within
  <2>9. Within(newEntries) \cap Within(onHash') = {} /\ u \notin Within(newEntries)
    BY <1>3, <2>3, <2>5
  <2>10. \A v \in Within(newEntries) \cup Within(onHash') : onList'[v]
    BY <2>3, <2>5, <2>7, <2>8, <2>9, Zenon
  <2> QED BY <1>1, <2>2, <2>4, <2>5, <2>6, <2>9, <2>10 DEF ListInv
<1> QED BY <1>4, <1>5

LEMMA ListInvIsInductive == ListInv /\ [ListStep]_listVars => ListInv'
<1> SUFFICES ASSUME ListInv, [ListStep]_listVars PROVE ListInv'
  OBVIOUS
<1>1. CASE UNCHANGED listVars
  BY <1>1 DEF listVars, ListInv
<1>2. ASSUME NEW u \in SocketIds, ListConnect(u) PROVE ListInv'
  BY <1>2, ListConnectKeeps
<1>3. ASSUME NEW u \in SocketIds, ListHeard(u) PROVE ListInv'
  BY <1>3, ListHeardKeeps
<1>4. ASSUME NEW u \in SocketIds, ListBreak(u) PROVE ListInv'
  BY <1>4 DEF ListBreak, ListInv
<1>5. CASE ListTakeNew
  BY <1>5, ListTakeNewKeeps
<1>6. CASE ListTimer
  BY <1>6, ListTimerKeeps
<1> QED BY <1>1, <1>2, <1>3, <1>4, <1>5, <1>6 DEF ListStep

LEMMA ListInvIsInOrder == ListInv => NewsInOrder
<1> SUFFICES ASSUME ListInv PROVE NewsInOrder
  OBVIOUS
<1>1. /\ onHash \in Seq(SocketIds) /\ DOMAIN onHash = 1 .. Len(onHash)
      /\ rcvOrder.head = (IF onHash = <<>> THEN NoSocket ELSE onHash[1])
      /\ rcvOrder.last = (IF onHash = <<>> THEN NoSocket ELSE onHash[Len(onHash)])
      /\ \A k \in 1 .. Len(onHash) :
           /\ rcvOrder.next[onHash[k]] = IF k = Len(onHash) THEN NoSocket ELSE onHash[k + 1]
           /\ rcvOrder.prev[onHash[k]] = IF k = 1 THEN NoSocket ELSE onHash[k - 1]
  BY DEF ListInv, IsList
<1>2. newEntries \in Seq(SocketIds) /\ DOMAIN newEntries = 1 .. Len(newEntries)
  <2>1. newEntries \in Seq(SocketIds)
    BY DEF ListInv
  <2> QED BY <2>1
<1>3. ASSUME NEW u \in SocketIds
      PROVE  /\ (\E k \in DOMAIN buckets[HashOf(u)] : buckets[HashOf(u)][k] = u)
                  <=> \E k \in DOMAIN onHash : onHash[k] = u
             /\ ~onList[u] => /\ \A k \in DOMAIN onHash : onHash[k] # u
                              /\ \A k \in DOMAIN newEntries : newEntries[k] # u
  <2>1. buckets[HashOf(u)] \in Seq(SocketIds)
    BY HashOfIsBucket DEF ListInv, Hashes
  <2>2. DOMAIN buckets[HashOf(u)] = 1 .. Len(buckets[HashOf(u)])
    BY <2>1
  <2>3. u \in Within(buckets[HashOf(u)]) <=> u \in Within(onHash)
    BY DEF ListInv, Hashes
  <2>4. (\E k \in DOMAIN buckets[HashOf(u)] : buckets[HashOf(u)][k] = u)
          <=> \E k \in DOMAIN onHash : onHash[k] = u
    <3> DEFINE b == buckets[HashOf(u)]
    <3> HIDE DEF b
    <3>1. u \in Within(b) <=> \E k \in DOMAIN b : b[k] = u
      <4>1. DOMAIN b = 1 .. Len(b)
        BY <2>2 DEF b
      <4> QED BY <4>1 DEF Within
    <3>2. u \in Within(onHash) <=> \E k \in DOMAIN onHash : onHash[k] = u
      <4>1. DOMAIN onHash = 1 .. Len(onHash)
        BY <1>1
      <4> QED BY <4>1 DEF Within
    <3>3. u \in Within(b) <=> u \in Within(onHash)
      BY <2>3 DEF b
    <3>4. (\E k \in DOMAIN b : b[k] = u) <=> \E k \in DOMAIN onHash : onHash[k] = u
      BY <3>1, <3>2, <3>3, Zenon
    <3> QED BY <3>4 DEF b
  <2>5. ~onList[u] => u \notin Within(newEntries) \cup Within(onHash)
    BY DEF ListInv
  <2> QED BY <1>1, <1>2, <2>4, <2>5 DEF Within
<1> QED BY <1>1, <1>3 DEF NewsInOrder

-----------------------------------------------------------------------------
(* The heap of the sender.                                                 *)

Heaps ==
  [node : [Slots -> SocketIds \cup {NoSocket}], loc : [SocketIds -> Slots \cup {NoPlace}],
   time : [SocketIds -> Int], last : Slots \cup {NoPlace}]

\* The nodes 0 .. last are sockets and each remembers its place; no other
\* socket remembers one.
IsHeap(h) ==
  /\ h \in Heaps
  /\ \A u \in SocketIds : h.loc[u] >= 0 => h.loc[u] <= h.last /\ h.node[h.loc[u]] = u
  /\ \A i \in 0 .. h.last : h.node[i] \in SocketIds /\ h.loc[h.node[i]] = i

LEMMA SlotsAre == Cardinality(SocketIds) \in Nat /\ Slots = 0 .. Cardinality(SocketIds) - 1
                  /\ Slots \subseteq Nat /\ \A i \in Slots : \A j \in 0 .. i : j \in Slots
<1>1. Cardinality(SocketIds) \in Nat
  BY FS_CardinalityType, QueuesAssumption
<1> QED BY <1>1 DEF Slots

\* As many nodes as sockets with a place.
LEMMA AsManyAsPlaces ==
  ASSUME NEW h, IsHeap(h)
  PROVE  /\ Cardinality(Scheduled(h)) = h.last + 1
         /\ {h.loc[u] : u \in Scheduled(h)} = 0 .. h.last
         /\ \A u \in SocketIds \ Scheduled(h) : h.last + 1 \in Slots
<1>0. h.last \in Int /\ h.last >= -1 /\ h.loc \in [SocketIds -> Int]
  BY SlotsAre DEF IsHeap, Heaps, NoPlace
<1> DEFINE S == 0 .. h.last
           f == [i \in S |-> h.node[i]]
<1>1. \A i \in S : h.node[i] \in SocketIds /\ h.loc[h.node[i]] = i
  BY DEF IsHeap
<1>2. \A i \in S : h.node[i] \in Scheduled(h)
  BY <1>0, <1>1 DEF Scheduled
<1>3. \A u \in Scheduled(h) : h.loc[u] \in S /\ h.node[h.loc[u]] = u
  BY <1>0 DEF IsHeap, Scheduled
<1>4. f \in Bijection(S, Scheduled(h))
  <2>1. f \in [S -> Scheduled(h)]
    BY <1>2
  <2>2. \A i, j \in S : f[i] = f[j] => i = j
    BY <1>1
  <2>3. \A u \in Scheduled(h) : \E i \in S : f[i] = u
    BY <1>3
  <2> QED BY <2>1, <2>2, <2>3 DEF Bijection, Injection, Surjection, IsInjective
<1>5. IsFiniteSet(S) /\ Cardinality(S) = h.last + 1
  <2>1. h.last \in Int /\ 0 \in Int
    BY <1>0
  <2> DEFINE n == h.last
  <2> HIDE DEF n
  <2>2. n \in Int
    BY <2>1 DEF n
  <2>3. IsFiniteSet(0 .. n) /\ Cardinality(0 .. n) = IF 0 > n THEN 0 ELSE n - 0 + 1
    BY <2>1, <2>2, FS_Interval
  <2>4. n >= -1
    BY <1>0 DEF n
  <2>5. Cardinality(0 .. n) = n + 1
    BY <2>2, <2>3, <2>4
  <2> QED BY <2>3, <2>5 DEF n
<1>6. Cardinality(Scheduled(h)) = h.last + 1
  <2>1. ExistsBijection(S, Scheduled(h))
    BY <1>4 DEF ExistsBijection
  <2> HIDE DEF S
  <2> QED BY <1>5, <2>1, FS_Bijection
<1>7. {h.loc[u] : u \in Scheduled(h)} = 0 .. h.last
  BY <1>1, <1>2, <1>3
<1>8. ASSUME NEW u \in SocketIds \ Scheduled(h) PROVE h.last + 1 \in Slots
  <2>1. Scheduled(h) \subseteq SocketIds /\ Scheduled(h) # SocketIds
    BY DEF Scheduled
  <2>2. /\ Cardinality(Scheduled(h)) <= Cardinality(SocketIds)
        /\ Cardinality(Scheduled(h)) # Cardinality(SocketIds)
    BY <2>1, FS_Subset, QueuesAssumption
  <2> QED BY <1>0, <1>6, <2>2, SlotsAre
<1> QED BY <1>6, <1>7, <1>8

LEMMA SwapKeeps ==
  ASSUME NEW h, IsHeap(h), NEW p \in 0 .. h.last, NEW q \in 0 .. h.last
  PROVE  IsHeap(Swap(h, p, q)) /\ Swap(h, p, q).last = h.last
<1> DEFINE a == h.node[p]
           b == h.node[q]
           nd == [h.node EXCEPT ![p] = b, ![q] = a]
           lc == [h.loc EXCEPT ![b] = p, ![a] = q]
           m == [h EXCEPT !.node = nd]
           g == Swap(h, p, q)
<1>0. /\ h \in Heaps /\ h.last \in Int /\ h.node \in [Slots -> SocketIds \cup {NoSocket}]
      /\ h.loc \in [SocketIds -> Slots \cup {NoPlace}] /\ h.last \in Slots \cup {NoPlace}
      /\ \A u \in SocketIds : h.loc[u] \in Int
  BY SlotsAre DEF IsHeap, Heaps, NoPlace
<1>1. /\ a \in SocketIds /\ b \in SocketIds /\ h.loc[a] = p /\ h.loc[b] = q
  BY DEF IsHeap
<1>2. h.last \in Slots /\ p \in Slots /\ q \in Slots
  BY <1>0, SlotsAre DEF NoPlace
<1>3. \A i \in 0 .. h.last : i \in Slots /\ h.node[i] \in SocketIds /\ h.loc[h.node[i]] = i
  BY <1>2, SlotsAre DEF IsHeap
<1>4. /\ nd \in [Slots -> SocketIds \cup {NoSocket}] /\ lc \in [SocketIds -> Slots \cup {NoPlace}]
  BY <1>0, <1>1, <1>2
<1>5. m \in Heaps /\ m.loc = h.loc /\ m.last = h.last /\ m.node = nd /\ g = [m EXCEPT !.loc = lc]
  <2>1. m \in Heaps /\ m.loc = h.loc /\ m.last = h.last /\ m.node = nd
    BY <1>0, <1>4 DEF Heaps
  <2>2. g = [m EXCEPT !.loc = lc]
    BY <1>0 DEF Swap, Heaps
  <2> QED BY <2>1, <2>2
<1>6. g \in Heaps /\ g.node = nd /\ g.loc = lc /\ g.last = h.last
  <2> HIDE DEF m, g, lc, nd
  <2> QED BY <1>4, <1>5 DEF Heaps
<1>7. /\ nd[q] = a /\ (p # q => nd[p] = b) /\ \A i \in Slots : i # p /\ i # q => nd[i] = h.node[i]
      /\ (p = q => a = b)
  BY <1>0, <1>2
<1>8. /\ lc[a] = q /\ (p # q => lc[b] = p) /\ \A u \in SocketIds : u # a /\ u # b => lc[u] = h.loc[u]
  BY <1>0, <1>1
<1>9. ASSUME NEW u \in SocketIds, lc[u] >= 0 PROVE lc[u] <= h.last /\ nd[lc[u]] = u
  <2> HIDE DEF lc, nd
  <2>1. CASE u = a
    BY <1>0, <1>7, <1>8, <2>1
  <2>2. CASE u = b /\ u # a
    BY <1>0, <1>7, <1>8, <2>2
  <2>3. CASE u # a /\ u # b
    <3>1. lc[u] = h.loc[u]
      BY <1>8, <2>3
    <3>2. h.loc[u] <= h.last /\ h.node[h.loc[u]] = u
      BY <1>9, <3>1 DEF IsHeap
    <3>3. h.loc[u] \in Slots /\ h.loc[u] # p /\ h.loc[u] # q
      BY <1>0, <1>1, <1>9, <2>3, <3>1, <3>2 DEF NoPlace
    <3> QED BY <1>7, <3>1, <3>2, <3>3
  <2> QED BY <2>1, <2>2, <2>3
<1>10. ASSUME NEW i \in 0 .. h.last PROVE nd[i] \in SocketIds /\ lc[nd[i]] = i
  <2> HIDE DEF lc, nd
  <2>1. CASE i = q
    BY <1>1, <1>7, <1>8, <2>1
  <2>2. CASE i = p /\ i # q
    BY <1>1, <1>7, <1>8, <2>2
  <2>3. CASE i # p /\ i # q
    <3>1. nd[i] = h.node[i] /\ h.node[i] \in SocketIds /\ h.loc[h.node[i]] = i
      BY <1>3, <1>7, <2>3
    <3>2. h.node[i] # a /\ h.node[i] # b
      BY <1>1, <2>3, <3>1
    <3> QED BY <1>8, <3>1, <3>2
  <2> QED BY <2>1, <2>2, <2>3
<1> HIDE DEF g, nd, lc
<1>11. IsHeap(g) /\ g.last = h.last
  BY <1>6, <1>9, <1>10 DEF IsHeap
<1> QED BY <1>11 DEF g

\* A node of the heap and the heap, while it moves.
Moving == [h : Heaps, q : Nat]

LEMMA RiseKeeps ==
  ASSUME NEW x \in Moving, IsHeap(x.h), x.q <= x.h.last
  PROVE  /\ RiseOnce(x) \in Moving /\ IsHeap(RiseOnce(x).h)
         /\ RiseOnce(x).q <= RiseOnce(x).h.last
<1> DEFINE p == (x.q - 1) \div 2
           y == [h |-> Swap(x.h, p, x.q), q |-> p]
<1>1. x.q \in Nat /\ x.h \in Heaps /\ x.h.last \in Int
  BY SlotsAre DEF Moving, Heaps, NoPlace
<1>2. CASE RiseOnce(x) = x
  BY <1>1, <1>2
<1>3. CASE RiseOnce(x) # x
  <2>1. x.q # 0 /\ RiseOnce(x) = y
    BY <1>3 DEF RiseOnce
  <2>2. p \in 0 .. x.h.last /\ x.q \in 0 .. x.h.last
    <3>1. x.q \in Nat \ {0} /\ x.q - 1 \in Nat
      BY <1>1, <2>1
    <3>2. (x.q - 1) \div 2 \in Nat /\ (x.q - 1) \div 2 <= x.q - 1
      BY <3>1, SMTT(30)
    <3> QED BY <1>1, <3>1, <3>2
  <2> HIDE DEF p
  <2>3. IsHeap(Swap(x.h, p, x.q)) /\ Swap(x.h, p, x.q).last = x.h.last
    BY <2>2, SwapKeeps
  <2>4. y.h = Swap(x.h, p, x.q) /\ y.q = p /\ p \in Nat /\ p <= x.h.last
    BY <1>1, <2>2
  <2>5. y \in Moving
    BY <2>3, <2>4 DEF Moving, IsHeap
  <2> HIDE DEF y
  <2> QED BY <2>1, <2>3, <2>4, <2>5
<1> QED BY <1>2, <1>3

LEMMA SinkKeeps ==
  ASSUME NEW x \in Moving, IsHeap(x.h)
  PROVE  SinkOnce(x) \in Moving /\ IsHeap(SinkOnce(x).h)
<1> DEFINE left == 2 * x.q + 1
           p == IF left + 1 <= x.h.last /\ TimeAt(x.h, left) > TimeAt(x.h, left + 1)
                THEN left + 1 ELSE left
           y == [h |-> Swap(x.h, p, x.q), q |-> p]
<1>1. x.q \in Nat /\ x.h \in Heaps /\ x.h.last \in Int
  BY SlotsAre DEF Moving, Heaps, NoPlace
<1>2. CASE SinkOnce(x) = x
  BY <1>1, <1>2
<1>3. CASE SinkOnce(x) # x
  <2>1. ~(left > x.h.last) /\ SinkOnce(x) = y
    BY <1>3 DEF SinkOnce
  <2>2. p \in 0 .. x.h.last /\ x.q \in 0 .. x.h.last
    <3>1. p = left \/ (p = left + 1 /\ left + 1 <= x.h.last)
      OBVIOUS
    <3>2. left \in Nat /\ left <= x.h.last /\ x.q <= left
      BY <1>1, <2>1
    <3> HIDE DEF left, p
    <3> QED BY <1>1, <3>1, <3>2
  <2> HIDE DEF p
  <2>3. IsHeap(Swap(x.h, p, x.q))
    BY <2>2, SwapKeeps
  <2>4. y.h = Swap(x.h, p, x.q) /\ y.q = p /\ p \in Nat
    BY <1>1, <2>2
  <2>5. y \in Moving
    BY <2>3, <2>4 DEF Moving, IsHeap
  <2> HIDE DEF y
  <2> QED BY <2>1, <2>3, <2>4, <2>5
<1> QED BY <1>2, <1>3

LEMMA SiftUpKeeps ==
  ASSUME NEW h, IsHeap(h), NEW q \in Nat, q <= h.last
  PROVE  IsHeap(SiftUp(h, q))
<1> DEFINE V == {x \in Moving : IsHeap(x.h) /\ x.q <= x.h.last}
           a == [h |-> h, q |-> q]
           g == [x \in V |-> RiseOnce(x)]
           Turn(f) == [k \in Nat |-> IF k = 0 THEN a ELSE RiseOnce(f[k - 1])]
           after == CHOOSE f : f = Turn(f)
<1>1. SiftUp(h, q) = after[q].h
  BY DEF SiftUp
<1>2. a \in V
  BY DEF Moving, IsHeap
<1>3. \A x \in V : RiseOnce(x) \in V
  BY RiseKeeps
<1> HIDE DEF a
<1>4. PICK w : Runs(w, V, a, g)
  <2> HIDE DEF V
  <2>1. g \in [V -> V]
    BY <1>3
  <2> HIDE DEF g
  <2> QED BY <1>2, <2>1, Iterates
<1>5. w = Turn(w)
  <2> HIDE DEF V
  <2>1. w \in [Nat -> V] /\ w[0] = a
    BY <1>4 DEF Runs
  <2>2. ASSUME NEW k \in Nat, k # 0 PROVE w[k] = RiseOnce(w[k - 1])
    <3>1. k - 1 \in Nat /\ (k - 1) + 1 = k
      BY <2>2
    <3>2. w[(k - 1) + 1] = g[w[k - 1]]
      <4> HIDE DEF g
      <4> QED BY <1>4, <3>1 DEF Runs
    <3> QED BY <2>1, <3>1, <3>2
  <2>3. \A k \in Nat : w[k] = IF k = 0 THEN a ELSE RiseOnce(w[k - 1])
    BY <2>1, <2>2
  <2> QED BY <2>1, <2>3
<1>6. after = Turn(after)
  <2> HIDE DEF Turn
  <2> QED BY <1>5
<1> HIDE DEF g, after
<1>7. after[0] = a /\ \A k \in Nat : after[k + 1] = RiseOnce(after[k])
  <2>1. \A k \in Nat : after[k] = IF k = 0 THEN a ELSE RiseOnce(after[k - 1])
    BY <1>6
  <2>2. \A k \in Nat : k + 1 \in Nat /\ k + 1 # 0 /\ (k + 1) - 1 = k
    OBVIOUS
  <2> HIDE DEF Turn
  <2> QED BY <2>1, <2>2
<1> HIDE DEF Turn
<1>8. \A k \in Nat : after[k] \in V
  <2> HIDE DEF V
  <2>1. \A k \in Nat : after[k] \in V => after[k + 1] \in V
    BY <1>3, <1>7
  <2> QED BY <1>2, <1>7, <2>1, StaysIn
<1> QED BY <1>1, <1>8

LEMMA SiftDownKeeps ==
  ASSUME NEW h, IsHeap(h), NEW q \in Nat
  PROVE  IsHeap(SiftDown(h, q))
<1> DEFINE V == {x \in Moving : IsHeap(x.h)}
           a == [h |-> h, q |-> q]
           g == [x \in V |-> SinkOnce(x)]
           Turn(f) == [k \in Nat |-> IF k = 0 THEN a ELSE SinkOnce(f[k - 1])]
           after == CHOOSE f : f = Turn(f)
<1>1. SiftDown(h, q) = after[h.last + 1].h
  BY DEF SiftDown
<1>2. a \in V
  BY DEF Moving, IsHeap
<1>3. \A x \in V : SinkOnce(x) \in V
  BY SinkKeeps
<1> HIDE DEF a
<1>4. PICK w : Runs(w, V, a, g)
  <2> HIDE DEF V
  <2>1. g \in [V -> V]
    BY <1>3
  <2> HIDE DEF g
  <2> QED BY <1>2, <2>1, Iterates
<1>5. w = Turn(w)
  <2> HIDE DEF V
  <2>1. w \in [Nat -> V] /\ w[0] = a
    BY <1>4 DEF Runs
  <2>2. ASSUME NEW k \in Nat, k # 0 PROVE w[k] = SinkOnce(w[k - 1])
    <3>1. k - 1 \in Nat /\ (k - 1) + 1 = k
      BY <2>2
    <3>2. w[(k - 1) + 1] = g[w[k - 1]]
      <4> HIDE DEF g
      <4> QED BY <1>4, <3>1 DEF Runs
    <3> QED BY <2>1, <3>1, <3>2
  <2>3. \A k \in Nat : w[k] = IF k = 0 THEN a ELSE SinkOnce(w[k - 1])
    BY <2>1, <2>2
  <2> QED BY <2>1, <2>3
<1>6. after = Turn(after)
  <2> HIDE DEF Turn
  <2> QED BY <1>5
<1> HIDE DEF g, after
<1>7. after[0] = a /\ \A k \in Nat : after[k + 1] = SinkOnce(after[k])
  <2>1. \A k \in Nat : after[k] = IF k = 0 THEN a ELSE SinkOnce(after[k - 1])
    BY <1>6
  <2>2. \A k \in Nat : k + 1 \in Nat /\ k + 1 # 0 /\ (k + 1) - 1 = k
    OBVIOUS
  <2> HIDE DEF Turn
  <2> QED BY <2>1, <2>2
<1> HIDE DEF Turn
<1>8. \A k \in Nat : after[k] \in V
  <2> HIDE DEF V
  <2>1. \A k \in Nat : after[k] \in V => after[k + 1] \in V
    BY <1>3, <1>7
  <2> QED BY <1>2, <1>7, <2>1, StaysIn
<1>9. h.last + 1 \in Nat
  BY SlotsAre DEF IsHeap, Heaps, NoPlace
<1> QED BY <1>1, <1>8, <1>9

LEMMA InsertKeepsHeap ==
  ASSUME NEW h, IsHeap(h), NEW u \in SocketIds, NEW ts \in Int
  PROVE  IsHeap(HeapInsert(h, ts, u))
<1> DEFINE l == h.last + 1
           nd == [h.node EXCEPT ![l] = u]
           lc == [h.loc EXCEPT ![u] = l]
           tm == [h.time EXCEPT ![u] = ts]
           m == [h EXCEPT !.last = @ + 1, !.node[h.last + 1] = u,
                          !.loc[u] = h.last + 1, !.time[u] = ts]
<1>0. /\ h \in Heaps /\ h.last \in Int /\ h.last >= -1 /\ h.node \in [Slots -> SocketIds \cup {NoSocket}]
      /\ h.loc \in [SocketIds -> Slots \cup {NoPlace}] /\ h.time \in [SocketIds -> Int]
      /\ \A v \in SocketIds : h.loc[v] \in Int
  BY SlotsAre DEF IsHeap, Heaps, NoPlace
<1>1. CASE h.loc[u] >= 0
  BY <1>1 DEF HeapInsert
<1>2. CASE ~(h.loc[u] >= 0)
  <2>1. l \in Slots
    BY <1>2, AsManyAsPlaces DEF Scheduled
  <2>2. l \in Nat /\ h.last = l - 1 /\ l \in Int
    BY <1>0, <2>1, SlotsAre
  <2> HIDE DEF l
  <2>3. /\ nd \in [Slots -> SocketIds \cup {NoSocket}] /\ lc \in [SocketIds -> Slots \cup {NoPlace}]
        /\ tm \in [SocketIds -> Int]
    BY <1>0, <2>1
  <2>4. m = [h EXCEPT !.last = l, !.node = nd, !.loc = lc, !.time = tm]
    BY <1>0 DEF Heaps, l
  <2>5. m \in Heaps /\ m.node = nd /\ m.loc = lc /\ m.last = l
    <3> HIDE DEF m, nd, lc, tm
    <3> DEFINE m1 == [h EXCEPT !.last = l]
               m2 == [m1 EXCEPT !.node = nd]
               m3 == [m2 EXCEPT !.loc = lc]
    <3>1. m1 \in Heaps /\ m1.last = l
      BY <1>0, <2>1 DEF Heaps
    <3> HIDE DEF m1
    <3>2. m2 \in Heaps /\ m2.last = l /\ m2.node = nd
      BY <2>3, <3>1 DEF Heaps
    <3> HIDE DEF m2
    <3>3. m3 \in Heaps /\ m3.last = l /\ m3.node = nd /\ m3.loc = lc
      BY <2>3, <3>2 DEF Heaps
    <3> HIDE DEF m3
    <3>4. m = [m3 EXCEPT !.time = tm]
      BY <1>0, <2>4 DEF Heaps, m1, m2, m3
    <3> QED BY <2>3, <3>3, <3>4 DEF Heaps
  <2>6. nd[l] = u /\ lc[u] = l /\ (\A i \in Slots : i # l => nd[i] = h.node[i])
        /\ \A v \in SocketIds : v # u => lc[v] = h.loc[v]
    BY <1>0, <2>1
  <2> HIDE DEF m, nd, lc
  <2>7. ASSUME NEW v \in SocketIds, lc[v] >= 0 PROVE lc[v] <= l /\ nd[lc[v]] = v
    <3>1. CASE v = u
      BY <2>2, <2>6, <3>1
    <3>2. CASE v # u
      <4>1. lc[v] = h.loc[v] /\ h.loc[v] <= h.last /\ h.node[h.loc[v]] = v
        BY <2>6, <2>7, <3>2 DEF IsHeap
      <4>2. h.loc[v] \in Slots /\ h.loc[v] # l /\ h.loc[v] <= l
        BY <1>0, <2>2, <2>7, <4>1 DEF NoPlace
      <4> QED BY <2>6, <4>1, <4>2
    <3> QED BY <3>1, <3>2
  <2>8. ASSUME NEW i \in 0 .. l PROVE nd[i] \in SocketIds /\ lc[nd[i]] = i
    <3>1. CASE i = l
      BY <2>6, <3>1
    <3>2. CASE i # l
      <4>1. i \in 0 .. h.last /\ i \in Int
        BY <2>2, <3>2
      <4>2. h.node[i] \in SocketIds /\ h.loc[h.node[i]] = i
        BY <4>1 DEF IsHeap
      <4>3. i \in Slots
        BY <2>1, SlotsAre
      <4>4. h.node[i] # u
        BY <1>2, <4>1, <4>2
      <4> QED BY <2>6, <3>2, <4>2, <4>3, <4>4
    <3> QED BY <3>1, <3>2
  <2>9. IsHeap(m)
    BY <2>5, <2>7, <2>8 DEF IsHeap
  <2>10. HeapInsert(h, ts, u) = SiftUp(m, l)
    BY <1>2 DEF HeapInsert, m, l
  <2> QED BY <2>2, <2>5, <2>9, <2>10, SiftUpKeeps
<1> QED BY <1>1, <1>2

LEMMA RemoveKeepsHeap ==
  ASSUME NEW h, IsHeap(h), NEW u \in SocketIds
  PROVE  IsHeap(HeapRemove(h, u))
<1> DEFINE q == h.loc[u]
           l == h.last
           b == h.node[h.last]
           nd == [h.node EXCEPT ![q] = b, ![l] = NoSocket]
           lc == [h.loc EXCEPT ![b] = q, ![u] = NoPlace]
           tm == [h.time EXCEPT ![u] = 0]
           m == [h EXCEPT !.node = [@ EXCEPT ![q] = h.node[h.last], ![h.last] = NoSocket],
                          !.loc = [@ EXCEPT ![h.node[h.last]] = q, ![u] = NoPlace],
                          !.time[u] = 0, !.last = @ - 1]
<1>0. /\ h \in Heaps /\ h.last \in Int /\ h.last >= -1 /\ h.node \in [Slots -> SocketIds \cup {NoSocket}]
      /\ h.loc \in [SocketIds -> Slots \cup {NoPlace}] /\ h.time \in [SocketIds -> Int]
      /\ h.last \in Slots \cup {NoPlace}
      /\ \A v \in SocketIds : h.loc[v] \in Int
  BY SlotsAre DEF IsHeap, Heaps, NoPlace
<1>1. CASE q < 0
  BY <1>1 DEF HeapRemove
<1>2. CASE ~(q < 0)
  <2>1. q \in 0 .. l /\ q \in Nat /\ l \in Nat /\ h.node[q] = u
    BY <1>0, <1>2 DEF IsHeap
  <2>2. l \in Slots /\ q \in Slots /\ l - 1 \in Slots \cup {NoPlace}
    BY <1>0, <2>1, SlotsAre DEF NoPlace
  <2>3. b \in SocketIds /\ h.loc[b] = l
    BY <2>1 DEF IsHeap
  <2>4. /\ nd \in [Slots -> SocketIds \cup {NoSocket}] /\ lc \in [SocketIds -> Slots \cup {NoPlace}]
        /\ tm \in [SocketIds -> Int]
    BY <1>0, <2>2, <2>3
  <2>5. m = [h EXCEPT !.node = nd, !.loc = lc, !.time = tm, !.last = l - 1]
    BY <1>0 DEF Heaps
  <2>6. m \in Heaps /\ m.node = nd /\ m.loc = lc /\ m.last = l - 1
    <3> HIDE DEF m, nd, lc, tm, l
    <3> DEFINE m1 == [h EXCEPT !.node = nd]
               m2 == [m1 EXCEPT !.loc = lc]
               m3 == [m2 EXCEPT !.time = tm]
    <3>1. m1 \in Heaps /\ m1.node = nd
      BY <1>0, <2>4 DEF Heaps
    <3> HIDE DEF m1
    <3>2. m2 \in Heaps /\ m2.node = nd /\ m2.loc = lc
      BY <2>4, <3>1 DEF Heaps
    <3> HIDE DEF m2
    <3>3. m3 \in Heaps /\ m3.node = nd /\ m3.loc = lc
      BY <2>4, <3>2 DEF Heaps
    <3> HIDE DEF m3
    <3>4. m = [m3 EXCEPT !.last = l - 1]
      BY <1>0, <2>5 DEF Heaps, m1, m2, m3
    <3> QED BY <2>2, <3>3, <3>4 DEF Heaps
  <2>7. /\ q # l => nd[q] = b
        /\ \A i \in Slots : i # l /\ i # q => nd[i] = h.node[i]
    BY <1>0, <2>2
  <2>8. /\ lc[u] = NoPlace /\ (b # u => lc[b] = q)
        /\ \A v \in SocketIds : v # u /\ v # b => lc[v] = h.loc[v]
    BY <1>0, <2>3
  <2> HIDE DEF m, nd, lc
  <2>9. ASSUME NEW v \in SocketIds, lc[v] >= 0 PROVE lc[v] <= l - 1 /\ nd[lc[v]] = v
    <3>1. v # u
      BY <2>8, <2>9 DEF NoPlace
    <3>2. CASE v = b
      <4>1. q # l
        BY <2>1, <3>1, <3>2
      <4> QED BY <2>1, <2>7, <2>8, <3>1, <3>2, <4>1
    <3>3. CASE v # b
      <4>1. lc[v] = h.loc[v] /\ h.loc[v] <= h.last /\ h.node[h.loc[v]] = v
        BY <2>8, <2>9, <3>1, <3>3 DEF IsHeap
      <4>2. h.loc[v] \in Slots /\ h.loc[v] # l /\ h.loc[v] # q /\ h.loc[v] <= l - 1
        BY <1>0, <2>1, <2>9, <3>1, <3>3, <4>1 DEF NoPlace
      <4> QED BY <2>7, <4>1, <4>2
    <3> QED BY <3>2, <3>3
  <2>10. ASSUME NEW i \in 0 .. l - 1 PROVE nd[i] \in SocketIds /\ lc[nd[i]] = i
    <3>0. i \in 0 .. l /\ i # l /\ i \in Slots
      BY <2>1, <2>2, SlotsAre
    <3>1. CASE i = q
      <4>1. b # u
        BY <2>3, <3>0, <3>1
      <4> QED BY <2>3, <2>7, <2>8, <3>0, <3>1, <4>1
    <3>2. CASE i # q
      <4>1. nd[i] = h.node[i] /\ h.node[i] \in SocketIds /\ h.loc[h.node[i]] = i
        BY <2>7, <3>0, <3>2 DEF IsHeap
      <4>2. h.node[i] # u /\ h.node[i] # b
        BY <2>3, <3>0, <3>2, <4>1
      <4> QED BY <2>8, <4>1, <4>2
    <3> QED BY <3>1, <3>2
  <2>11. IsHeap(m)
    BY <2>6, <2>9, <2>10 DEF IsHeap
  <2>12. HeapRemove(h, u) = SiftDown(m, q)
    BY <1>2 DEF HeapRemove, m
  <2> QED BY <2>1, <2>11, <2>12, SiftDownKeeps
<1> QED BY <1>1, <1>2

LEMMA UpdateKeepsHeap ==
  ASSUME NEW h, IsHeap(h), NEW u \in SocketIds, NEW reschedule \in BOOLEAN
  PROVE  IsHeap(HeapUpdate(h, u, reschedule))
<1>1. ASSUME h.loc[u] = 0 PROVE IsHeap([h EXCEPT !.time[u] = 1])
  <2> DEFINE m == [h EXCEPT !.time[u] = 1]
  <2>1. m \in Heaps /\ m.node = h.node /\ m.loc = h.loc /\ m.last = h.last
    BY DEF IsHeap, Heaps
  <2> HIDE DEF m
  <2>2. IsHeap(m)
    BY <2>1 DEF IsHeap
  <2> QED BY <2>2 DEF m
<1>2. IsHeap(HeapInsert(h, 1, u)) /\ IsHeap(HeapInsert(HeapRemove(h, u), 1, u))
  BY InsertKeepsHeap, RemoveKeepsHeap
<1> QED BY <1>1, <1>2 DEF HeapUpdate

LEMMA HeapInitially == HeapInit => IsHeap(heap)
<1> SUFFICES ASSUME HeapInit PROVE IsHeap(heap)
  OBVIOUS
<1>1. heap = EmptyHeap
  BY DEF HeapInit
<1>2. heap \in Heaps /\ heap.last = -1 /\ \A u \in SocketIds : heap.loc[u] = -1
  BY <1>1 DEF EmptyHeap, Heaps, NoPlace, NoSocket
<1> QED BY <1>2 DEF IsHeap

LEMMA IsHeapIsInductive == IsHeap(heap) /\ [HeapStep]_heapVars => IsHeap(heap)'
<1> SUFFICES ASSUME IsHeap(heap), [HeapStep]_heapVars PROVE IsHeap(heap')
  OBVIOUS
<1>1. CASE UNCHANGED heapVars
  BY <1>1 DEF heapVars
<1>2. ASSUME NEW u \in SocketIds, NEW reschedule \in BOOLEAN, HeapPut(u, reschedule)
      PROVE  IsHeap(heap')
  BY <1>2, UpdateKeepsHeap DEF HeapPut
<1>3. ASSUME NEW ts \in 0 .. MaxTime, HeapPop(ts) PROVE IsHeap(heap')
  <2> DEFINE u == heap.node[0]
  <2>1. heap.last \in Int /\ heap.last >= 0 /\ ts \in Int
    BY <1>3, SlotsAre, QueuesAssumption DEF HeapPop, IsHeap, Heaps, NoPlace
  <2>2. u \in SocketIds
    BY <2>1 DEF IsHeap
  <2>3. heap' = IF ts > 0 THEN HeapInsert(HeapRemove(heap, u), ts, u) ELSE HeapRemove(heap, u)
    BY <1>3 DEF HeapPop
  <2> HIDE DEF u
  <2> QED BY <2>1, <2>2, <2>3, InsertKeepsHeap, RemoveKeepsHeap
<1>4. ASSUME NEW u \in SocketIds, HeapDrop(u) PROVE IsHeap(heap')
  BY <1>4, RemoveKeepsHeap DEF HeapDrop
<1> QED BY <1>1, <1>2, <1>3, <1>4 DEF HeapStep

LEMMA IsHeapAgrees == IsHeap(heap) => HeapAgrees
  BY AsManyAsPlaces DEF IsHeap, Scheduled, HeapAgrees

-----------------------------------------------------------------------------
(* Both lists of a multiplexer.                                            *)

\* Whatever is inserted, moved up, taken out of the middle, heard of or closed,
\* the heap of CSndUList, the list of CRcvUList and the table of CHash each hold
\* the sockets they should, and a socket is found where it says it is.
THEOREM QueuesAlwaysAgree == HeapSpec /\ ListSpec => []QueuesAgree
<1>1. HeapInit => IsHeap(heap)
  BY HeapInitially
<1>2. IsHeap(heap) /\ [HeapStep]_heapVars => IsHeap(heap)'
  BY IsHeapIsInductive
<1>3. IsHeap(heap) => HeapAgrees
  BY IsHeapAgrees
<1>4. ListInit => ListInv
  BY ListInitially
<1>5. ListInv /\ [ListStep]_listVars => ListInv'
  BY ListInvIsInductive
<1>6. ListInv => NewsInOrder
  BY ListInvIsInOrder
<1>7. QueuesAgree <=> HeapAgrees /\ NewsInOrder
  BY DEF QueuesAgree
<1> QED
  BY <1>1, <1>2, <1>3, <1>4, <1>5, <1>6, <1>7, PTL DEF HeapSpec, ListSpec

=============================================================================
