----------------------------- MODULE UdtBuffers -----------------------------
(***************************************************************************)
(* The buffers of a UDT connection, src/udt4/src/buffer.cpp, and the units *)
(* packets are received into, CUnitQueue of src/udt4/src/queue.cpp.        *)
(*                                                                         *)
(* CSndBuffer is a ring of blocks with three pointers: what is not         *)
(* acknowledged starts at first, what was never sent at curr, and the free *)
(* blocks at last.  CRcvBuffer is a circular array of pointers to units;   *)
(* what the application may read lies between start and ack, packets       *)
(* beyond ack wait for the ones missing before them.                       *)
(*                                                                         *)
(* The sender's packets are counted; the receiver's come from one sequence *)
(* of packets, read as a stream of bytes, PktBytes to a packet, or as      *)
(* messages.  Messages that expire (a time to live, sendmsg only) are left *)
(* out.                                                                    *)
(***************************************************************************)
EXTENDS Integers, Sequences, FiniteSets, FiniteSetsExt

CONSTANTS
  SndBlocks,   \* blocks CSndBuffer starts with, and grows by
  MaxBlocks,   \* bound: memory for blocks
  MaxPackets,  \* bound: packets given to the sender's buffer
  MaxAdd,      \* bound: packets of one addBuffer or addBufferFromFile
  RcvSlots,    \* m_iSize of CRcvBuffer
  UnitBlock,   \* units in one entry of CUnitQueue
  MaxEntries,  \* bound: memory for entries of CUnitQueue
  GrowNum,     \* the queue grows when more than GrowNum / GrowDen
  GrowDen,     \*   of its units are in use, 9 / 10 in the code
  MaxRaces,    \* bound: updates of the unit count lost to the other thread
  PktBytes,    \* bytes of a packet
  MaxRead,     \* bound: bytes of one read
  Messages     \* the packets: <<message, first?, last?, in order?>>

ASSUME BuffersAssumption ==
  /\ {SndBlocks, MaxBlocks, MaxPackets, MaxAdd} \subseteq Nat
  /\ {RcvSlots, UnitBlock, GrowNum, GrowDen, MaxRaces, PktBytes, MaxRead} \subseteq Nat
  /\ MaxEntries \in Nat \ {0}
  /\ SndBlocks > 1 /\ RcvSlots > 2 /\ UnitBlock > 1 /\ PktBytes > 0
  /\ GrowNum < GrowDen
  /\ (UnitBlock - 1) * GrowDen >= GrowNum * UnitBlock

\* A message is packets in a row, of which the first and the last say so; the
\* last packet of all may be in the middle of one.
ASSUME MessagesAssumption ==
  /\ Messages \in Seq(Int \X BOOLEAN \X BOOLEAN \X BOOLEAN)
  /\ Messages # <<>> => Messages[1][2]
  /\ \A s, t \in DOMAIN Messages :
       /\ s < t => Messages[s][1] <= Messages[t][1]
       /\ t = s + 1 => /\ Messages[t][2] = (Messages[s][1] # Messages[t][1])
                       /\ Messages[s][3] = (Messages[s][1] # Messages[t][1])
       /\ Messages[s][1] = Messages[t][1] => Messages[s][4] = Messages[t][4]

VARIABLES
  sndBuf,    \* CSndBuffer
  sndQueue,  \* the packets it stands for, oldest first
  sndAdded,  \* packets added so far
  sndSent,   \* how many of the queue were sent
  sndShort,  \* packets counted that short reads of files did not bring
  rcvBuf,    \* CRcvBuffer
  units,     \* CUnitQueue
  races,     \* updates of units.count lost so far
  rcvBase,   \* number of the packet expected at rcvBuf.ack
  asStream,  \* read as a stream, or as messages
  taken      \* what the application has read

sbVars == <<sndBuf, sndQueue, sndAdded, sndSent, sndShort>>
rbVars == <<rcvBuf, units, races, rcvBase, asStream, taken>>

Nothing == -1
NoUnit == -1

-----------------------------------------------------------------------------
(* CSndBuffer *)

NewSndBuf ==
  [next |-> [b \in 1 .. SndBlocks |-> (b % SndBlocks) + 1],
   data |-> [b \in 1 .. SndBlocks |-> Nothing],
   first |-> 1, curr |-> 1, last |-> 1, size |-> SndBlocks, count |-> 0]

\* increase(): a chain of new blocks goes behind the last one.
Increase(sb) ==
  LET new == sb.size + 1 .. sb.size + SndBlocks
  IN [sb EXCEPT
        !.next = [b \in 1 .. sb.size + SndBlocks |->
                    IF b = sb.last THEN sb.size + 1
                    ELSE IF b = sb.size + SndBlocks THEN sb.next[sb.last]
                    ELSE IF b \in new THEN b + 1
                    ELSE sb.next[b]],
        !.data = [b \in 1 .. sb.size + SndBlocks |-> IF b \in new THEN Nothing ELSE @[b]],
        !.size = @ + SndBlocks]

\* Mutant: the ring may be filled to its last block.
CrowdedWhenFull(sb, n) == n + sb.count > sb.size

Crowded(sb, n) == n + sb.count >= sb.size

\* "while (size + m_iCount >= m_iSize) increase();"
IncreaseFor(sb, n) ==
  LET grown[k \in Nat] == IF k = 0 THEN sb ELSE Increase(grown[k - 1])
  IN grown[Min({k \in 0 .. n + sb.count : ~Crowded(grown[k], n)})]

\* n blocks on from b.
Walk(sb, b, n) ==
  LET at[k \in Nat] == IF k = 0 THEN b ELSE sb.next[at[k - 1]] IN at[n]

\* The packets go into the blocks from last on.
Fill(sb, packets) ==
  LET block(k) == Walk(sb, sb.last, k - 1)
      filled == {block(k) : k \in DOMAIN packets}
  IN [sb EXCEPT !.data = [b \in DOMAIN @ |->
                            IF b \in filled
                            THEN packets[CHOOSE k \in DOMAIN packets : block(k) = b]
                            ELSE @[b]],
                !.last = Walk(sb, @, Len(packets))]

\* addBuffer and addBufferFromFile of data for n packets, of which the file
\* may turn out to hold fewer; all n are counted.
Add(sb, n, packets) ==
  [Fill(IncreaseFor(sb, n), packets) EXCEPT !.count = @ + n]

-----------------------------------------------------------------------------
(* CUnitQueue: unit u is unit u % UnitBlock of entry u \div UnitBlock *)

AllUnits == 0 .. UnitBlock * MaxEntries - 1

NewUnits ==
  [flag |-> [u \in AllUnits |-> 0], pkt |-> [u \in AllUnits |-> Nothing],
   entries |-> 1, count |-> 0, curr |-> 0, avail |-> 0]

InUse(uq) == {u \in AllUnits : uq.flag[u] # 0}

\* increase(): the count is corrected first.
Grow(uq) ==
  LET n == Cardinality(InUse(uq)) IN
  IF n * GrowDen < GrowNum * uq.entries * UnitBlock \/ uq.entries = MaxEntries
  THEN [uq EXCEPT !.count = n]
  ELSE [uq EXCEPT !.count = n, !.entries = @ + 1]

\* The search of getNextAvailUnit, entry by entry from the current one on, once
\* round: the rest of the entry but for its last unit, or its first unit.
Search(uq) ==
  LET entry(k) == (uq.curr + k) % uq.entries
      base(k) == entry(k) * UnitBlock
      from(k) == IF k = 0 THEN uq.avail ELSE base(k)
      free(k) == {u \in from(k) .. base(k) + UnitBlock - 2 : uq.flag[u] = 0}
      unit(k) == IF free(k) # {} THEN Min(free(k)) ELSE base(k)
      found == {k \in 0 .. uq.entries - 1 : uq.flag[unit(k)] = 0}
      first == Min(found)
  IN IF found # {}
     THEN [unit |-> unit(first),
           uq |-> [uq EXCEPT !.curr = entry(first), !.avail = unit(first)]]
     ELSE [unit |-> NoUnit, uq |-> Grow([uq EXCEPT !.avail = base(0)])]

getNextAvailUnit(uq0) ==
  LET uq == IF uq0.count * GrowDen > uq0.entries * UnitBlock * GrowNum
            THEN Grow(uq0) ELSE uq0
  IN IF uq.count >= uq.entries * UnitBlock THEN [unit |-> NoUnit, uq |-> uq]
     ELSE Search(uq)

\* m_iCount is incremented by the receiving worker and decremented by the
\* application's thread with no lock: either update may be lost.
CountTo(old, new, lost) == IF lost THEN old ELSE new

-----------------------------------------------------------------------------
(* CRcvBuffer *)

NewRcvBuf ==
  [slot |-> [p \in 0 .. RcvSlots - 1 |-> NoUnit],
   start |-> 0, ack |-> 0, max |-> 0, notch |-> 0]

NextPos(p) == (p + 1) % RcvSlots

getRcvDataSize(rb) ==
  IF rb.ack >= rb.start THEN rb.ack - rb.start ELSE RcvSlots + rb.ack - rb.start

getAvailBufSize(rb) == RcvSlots - getRcvDataSize(rb) - 1

\* ackData(len)
Acked(rb, n) ==
  [rb EXCEPT !.ack = (@ + n) % RcvSlots,
             !.max = IF @ - n < 0 THEN 0 ELSE @ - n]

\* Mutant: the unit stays marked as in use.
ReleaseMarked(st, p) ==
  [st EXCEPT !.rb.slot[p] = NoUnit, !.uq.count = @ - 1]

\* The unit at p goes back to the queue.
Release(st, p) ==
  [st EXCEPT !.rb.slot[p] = NoUnit,
             !.uq.flag[st.rb.slot[p]] = 0,
             !.uq.pkt[st.rb.slot[p]] = Nothing,
             !.uq.count = @ - 1]

\* Mutant: what an earlier read took of the packet is forgotten.
RestOfWhole(st) == PktBytes

RestOf(st) == PktBytes - st.rb.notch

\* readBuffer and readBufferToFile, one turn of the loop: x has the buffer, the
\* units and the bytes read, rs more to read and left, the units a file takes
\* before it fails.
ReadUnit(x) ==
  LET p == x.rb.start
      pkt == x.uq.pkt[x.rb.slot[p]]
      n == Min({RestOf(x), x.rs})
      y == [x EXCEPT !.out = @ \o [k \in 1 .. n |-> <<pkt, x.rb.notch + k>>], !.rs = @ - n]
  IN IF p = x.rb.ack \/ x.rs = 0 \/ x.left = 0 THEN x
     ELSE IF x.rs >= RestOf(x)
     THEN [Release(y, p) EXCEPT !.rb.start = NextPos(p), !.rb.notch = 0, !.left = @ - 1]
     ELSE [y EXCEPT !.rb.notch = @ + n]

ReadBytes(rb, uq, len, left) ==
  LET after[k \in Nat] ==
        IF k = 0 THEN [rb |-> rb, uq |-> uq, out |-> <<>>, rs |-> len, left |-> left]
        ELSE ReadUnit(after[k - 1])
  IN after[getRcvDataSize(rb)]

IsFirst(st, p) == Messages[st.uq.pkt[st.rb.slot[p]]][2]
IsLast(st, p) == Messages[st.uq.pkt[st.rb.slot[p]]][3]
InOrder(st, p) == Messages[st.uq.pkt[st.rb.slot[p]]][4]
Usable(st, p) == st.rb.slot[p] # NoUnit /\ st.uq.flag[st.rb.slot[p]] = 1

\* scanMsg, first loop: "skip all bad msgs at the beginning".
GoodFrom(st) ==
  LET at(k) == (st.rb.start + k) % RcvSlots
      ks == 0 .. getRcvDataSize(st.rb) - 1
  IN /\ Usable(st, st.rb.start) /\ IsFirst(st, st.rb.start)
     /\ \A k \in ks : ~Usable(st, at(k)) => \E j \in 0 .. k - 1 : IsLast(st, at(j))

SkipOne(st) ==
  LET p == st.rb.start IN
  IF p = st.rb.ack THEN st
  ELSE IF st.rb.slot[p] = NoUnit THEN [st EXCEPT !.rb.start = NextPos(@)]
  ELSE IF GoodFrom(st) THEN st
  ELSE [Release(st, p) EXCEPT !.rb.start = NextPos(@)]

SkipBad(st) ==
  LET after[k \in Nat] == IF k = 0 THEN st ELSE SkipOne(after[k - 1])
  IN after[getRcvDataSize(st.rb)]

\* scanMsg, second loop, one position: q is where it looks, p the head of the
\* message or Nothing.
ScanOne(st, m) ==
  LET use == Usable(st, m.q)
      head == IF ~use THEN Nothing ELSE IF IsFirst(st, m.q) THEN m.q ELSE m.p
      found == use /\ IsLast(st, m.q) /\ head # Nothing
  IN IF m.found THEN m
     ELSE IF found /\ (~m.passack \/ ~InOrder(st, m.q))
     THEN [m EXCEPT !.found = TRUE, !.p = head]
     ELSE [m EXCEPT !.p = head, !.q = NextPos(@),
                    !.passack = @ \/ NextPos(m.q) = st.rb.ack]

\* All of what was received, and a message that fills the buffer.
Scan(st) ==
  LET after[k \in Nat] ==
        IF k = 0 THEN [found |-> FALSE, p |-> Nothing, q |-> st.rb.start,
                       passack |-> st.rb.start = st.rb.ack]
        ELSE ScanOne(st, after[k - 1])
      m == after[st.rb.max + getRcvDataSize(st.rb) + 1]
  IN [m EXCEPT !.found = @ \/ (m.p # Nothing /\ NextPos(m.q) = m.p)]

MarkRead(st, u) == [st EXCEPT !.uq.flag[u] = 2]

\* readMsg, with a buffer long enough: a message that lies before ack leaves
\* the buffer, one beyond it stays, marked as read.
TakeUnit(st, m) ==
  LET u == st.rb.slot[st.p]
      s2 == [st EXCEPT !.out = Append(@, st.uq.pkt[u]), !.p = NextPos(@)]
  IN IF st.p = NextPos(m.q) THEN st
     ELSE IF m.passack THEN MarkRead(s2, u) ELSE Release(s2, st.p)

TakeMsg(st, m) ==
  LET after[k \in Nat] ==
        IF k = 0 THEN [rb |-> st.rb, uq |-> st.uq, out |-> <<>>, p |-> m.p]
        ELSE TakeUnit(after[k - 1], m)
      all == after[RcvSlots]
  IN IF m.passack THEN all ELSE [all EXCEPT !.rb.start = NextPos(m.q)]

readMsg(rb, uq) ==
  LET st0 == [rb |-> rb, uq |-> uq, out |-> <<>>]
      st == SkipBad(st0)
  IN IF rb.start = rb.ack /\ rb.max <= 0 THEN st0
     ELSE IF Scan(st).found THEN TakeMsg(st, Scan(st))
     ELSE st

-----------------------------------------------------------------------------
(* The calls of CUDT *)

SbInit ==
  /\ sndBuf = NewSndBuf
  /\ sndQueue = <<>> /\ sndAdded = 0 /\ sndSent = 0 /\ sndShort = 0

\* send, sendmsg: got = n.  sendfile: the file may end early.
SbAdd(n, got) ==
  LET packets == [k \in 1 .. got |-> sndAdded + k] IN
  /\ sndAdded + n <= MaxPackets
  /\ IncreaseFor(sndBuf, n).size <= MaxBlocks
  /\ sndBuf' = Add(sndBuf, n, packets)
  /\ sndQueue' = sndQueue \o packets
  /\ sndAdded' = sndAdded + got
  /\ sndShort' = sndShort + n - got
  /\ UNCHANGED sndSent

\* packData of a new packet: readData(data, msgno).
SbRead ==
  /\ sndBuf.curr # sndBuf.last
  /\ sndBuf' = [sndBuf EXCEPT !.curr = sndBuf.next[@]]
  /\ sndSent' = sndSent + 1
  /\ UNCHANGED <<sndQueue, sndAdded, sndShort>>

\* processCtrl of an acknowledgement: ackData(offset).
SbAck(offset) ==
  /\ sndBuf' = [sndBuf EXCEPT !.first = Walk(sndBuf, @, offset), !.count = @ - offset]
  /\ sndQueue' = SubSeq(sndQueue, offset + 1, Len(sndQueue))
  /\ sndSent' = sndSent - offset
  /\ UNCHANGED <<sndAdded, sndShort>>

\* packData of a lost packet: readData(data, offset, msgno, msglen).
Resent(sb, offset) == sb.data[Walk(sb, sb.first, offset)]

SbStep ==
  \/ \E n \in 1 .. MaxAdd : \E got \in 0 .. n : SbAdd(n, got)
  \/ SbRead
  \/ \E offset \in 1 .. sndSent : SbAck(offset)

SbSpec == SbInit /\ [][SbStep]_sbVars

RbInit ==
  /\ rcvBuf = NewRcvBuf /\ units = NewUnits /\ races = 0
  /\ rcvBase = 1 /\ asStream \in BOOLEAN /\ taken = <<>>

\* An update of the unit count may be lost, MaxRaces times at most.
Race(lost) ==
  /\ lost => races < MaxRaces
  /\ races' = IF lost THEN races + 1 ELSE races

\* worker and processData: the packet offset ahead of the expected one is
\* received into a free unit, and dropped when there is none, when it is
\* beyond the buffer or when it is there already.
RbArrives(offset, lost) ==
  LET r == getNextAvailUnit(units)
      p == (rcvBuf.ack + offset) % RcvSlots
      taker == /\ r.unit # NoUnit
               /\ offset < getAvailBufSize(rcvBuf)
               /\ rcvBuf.slot[p] = NoUnit
  IN /\ rcvBase + offset <= Len(Messages)
     /\ Race(lost /\ taker)
     /\ IF taker
        THEN /\ rcvBuf' = [rcvBuf EXCEPT !.slot[p] = r.unit,
                                         !.max = IF offset > @ THEN offset ELSE @]
             /\ units' = [r.uq EXCEPT !.flag[r.unit] = 1,
                                      !.pkt[r.unit] = rcvBase + offset,
                                      !.count = CountTo(@, @ + 1, lost)]
        ELSE units' = r.uq /\ UNCHANGED rcvBuf
     /\ UNCHANGED <<rcvBase, asStream, taken>>

\* Packets in a row from ack on.
Ready(rb) ==
  Max({n \in 0 .. RcvSlots - 1 :
         \A k \in 0 .. n - 1 : rb.slot[(rb.ack + k) % RcvSlots] # NoUnit})

\* sendCtrl of an acknowledgement: ackData.
RbAck ==
  /\ rcvBuf' = Acked(rcvBuf, Ready(rcvBuf))
  /\ rcvBase' = rcvBase + Ready(rcvBuf)
  /\ UNCHANGED <<units, races, asStream, taken>>

\* recv (left: more than there are) and recvfile (a write may fail).
RbReadStream(len, left, lost) ==
  LET st == ReadBytes(rcvBuf, units, len, left)
      released == st.uq.count # units.count
  IN /\ asStream
     /\ getRcvDataSize(rcvBuf) > 0
     /\ Race(lost /\ released)
     /\ rcvBuf' = st.rb
     /\ units' = [st.uq EXCEPT !.count = CountTo(@ + 1, @, lost /\ released)]
     /\ taken' = taken \o st.out
     /\ UNCHANGED <<rcvBase, asStream>>

\* recvmsg
RbReadMsg(lost) ==
  LET st == readMsg(rcvBuf, units)
      released == st.uq.count # units.count
  IN /\ ~asStream
     /\ Race(lost /\ released)
     /\ rcvBuf' = st.rb
     /\ units' = [st.uq EXCEPT !.count = CountTo(@ + 1, @, lost /\ released)]
     /\ taken' = IF st.out = <<>> THEN taken ELSE Append(taken, st.out)
     /\ UNCHANGED <<rcvBase, asStream>>

RbStep ==
  \/ \E offset \in 0 .. RcvSlots - 1, lost \in BOOLEAN : RbArrives(offset, lost)
  \/ RbAck
  \/ \E len \in 1 .. MaxRead, left \in {1, RcvSlots}, lost \in BOOLEAN :
       RbReadStream(len, left, lost)
  \/ \E lost \in BOOLEAN : RbReadMsg(lost)

RbSpec == RbInit /\ [][RbStep]_rbVars

-----------------------------------------------------------------------------
(* What the buffers must be *)

\* The ring of blocks is the queue of the packets not acknowledged, through
\* every growth: first is its oldest, curr the oldest not sent, last its end
\* and a free block; a packet sent again is found by its distance from the
\* oldest.  The count is the length of the queue, and what short reads of a
\* file added to it for good.
SndBufferIsTheQueue ==
  LET at(k) == Walk(sndBuf, sndBuf.first, k) IN
  /\ \A k \in 1 .. Len(sndQueue) : Resent(sndBuf, k - 1) = sndQueue[k]
  /\ at(Len(sndQueue)) = sndBuf.last
  /\ at(sndSent) = sndBuf.curr
  /\ {at(k) : k \in 0 .. sndBuf.size - 1} = 1 .. sndBuf.size
  /\ sndBuf.count = Len(sndQueue) + sndShort

\* What a stream socket reads is the stream: every byte once, in order,
\* however reads cut the packets, wherever the buffer wraps and whichever
\* write of a file fails; what is acknowledged and not read is still there.
StreamIsRead ==
  asStream =>
    /\ taken = [i \in 1 .. Len(taken) |->
                  <<((i - 1) \div PktBytes) + 1, ((i - 1) % PktBytes) + 1>>]
    /\ Len(taken) = PktBytes * (rcvBase - 1 - getRcvDataSize(rcvBuf)) + rcvBuf.notch

MsgOf(i) == Messages[taken[i][1]][1]

\* A datagram socket reads whole messages, none twice, and those to be
\* delivered in order in their order; a message the reading position has
\* passed was read.
MessagesAreRead ==
  ~asStream =>
    /\ \A i \in DOMAIN taken :
         {taken[i][k] : k \in DOMAIN taken[i]}
           = {s \in DOMAIN Messages : Messages[s][1] = MsgOf(i)}
    /\ \A i, j \in DOMAIN taken :
         i < j => /\ MsgOf(i) # MsgOf(j)
                  /\ (Messages[taken[i][1]][4] /\ Messages[taken[j][1]][4])
                       => MsgOf(i) < MsgOf(j)
    /\ \A s \in 1 .. rcvBase - 1 - getRcvDataSize(rcvBuf) :
         \E i \in DOMAIN taken : MsgOf(i) = Messages[s][1]

\* Every unit in use is in exactly one slot of the buffer: none is given to a
\* second packet while the application may still read it, none leaks.
UnitsAreInSlots ==
  LET filled == {p \in 0 .. RcvSlots - 1 : rcvBuf.slot[p] # NoUnit} IN
  /\ {rcvBuf.slot[p] : p \in filled} = InUse(units)
  /\ Cardinality(filled) = Cardinality(InUse(units))

\* However wrong the races have left the count of units, and wherever the
\* search for a free one stands, the second packet to ask for a unit gets one
\* as long as there is memory or a unit the search may give: the receiver
\* never stops receiving.
UnitIsFound ==
  LET r1 == getNextAvailUnit(units)
      r2 == getNextAvailUnit(r1.uq) IN
  (r1.unit = NoUnit /\ r2.unit = NoUnit) =>
    /\ r2.uq.entries = MaxEntries
    /\ \A u \in AllUnits : u % UnitBlock # UnitBlock - 1 => units.flag[u] # 0

\* What is read is what came, as a stream or as messages.
ReadIsWhatCame == StreamIsRead /\ MessagesAreRead

\* A unit is never in use twice, and never missing when a packet needs one.
UnitsAreSound == UnitsAreInSlots /\ UnitIsFound
=============================================================================
