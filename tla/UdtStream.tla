----------------------------- MODULE UdtStream -----------------------------
(***************************************************************************)
(* The stream of a connected UDT socket, from the program that sends to    *)
(* the program that receives (core.cpp: send, recv, packData, processData, *)
(* processCtrl, sendCtrl, checkTimers, close), over a network that loses,  *)
(* repeats and reorders packets.                                           *)
(*                                                                         *)
(* A packet's data is its position in what was written.  Three threads     *)
(* share the sender: the program, the worker of the send queue, which      *)
(* packs, and the worker of the receive queue, which handles what comes    *)
(* and the timers.  Of the receiver's, the worker and the program.         *)
(* Timers go off at any time.  The congestion window starts at 16 and is   *)
(* not what limits the few packets of a bounded instance.                  *)
(***************************************************************************)
EXTENDS UdtSeqNo, FiniteSets, Sequences

CONSTANTS FirstSeqNos,  \* m_iISN
          Packets,      \* bound: packets written
          SndBufSize,   \* m_iSndBufSize
          RcvBufSize,   \* m_iRcvBufSize, the flow window the peer is told first
          Capacity,     \* bound: packets on the way in each direction
          InFlight      \* bound: and in both together

ASSUME StreamAssumption ==
  /\ FirstSeqNos \subseteq SeqNos
  /\ Packets \in Nat /\ SndBufSize \in Nat \ {0} /\ Capacity \in Nat \ {0}
  /\ InFlight \in Nat /\ InFlight > Capacity
  /\ RcvBufSize \in Nat /\ 2 <= RcvBufSize
  /\ Packets + RcvBufSize < SeqNoTH

VARIABLES
  written,         \* packets handed to send
  sndBuf,          \* m_pSndBuffer: the packets not yet acknowledged
  sndBlock,        \* how many of them were packed (m_pCurrBlock)
  sndCurrSeqNo, sndLastAck, sndLastDataAck, flowWindow,
  sndLoss,         \* m_pSndLossList
  listed,          \* is the socket on m_pSndUList?
  packing,         \* the lost packet the worker is about to send again
  updates,         \* the threads about to put the socket on m_pSndUList
  sndState,        \* of the sending socket
  rcvBuf,          \* m_pRcvBuffer from the last acknowledgement on
  ready,           \* what it holds before: acknowledged and not read
  rcvLastAck, rcvLastAckAck, rcvCurrSeqNo,
  rcvLoss,         \* m_pRcvLossList
  rcvState,        \* of the receiving socket
  got,             \* what the receiving program has read
  toRcv, toSnd     \* the packets on the way

sndAcks == <<sndLastAck, sndLastDataAck, flowWindow>>
sndData == <<written, sndBuf, sndBlock, sndCurrSeqNo>>
sndVars == <<sndAcks, sndData, sndLoss, listed, packing, updates, sndState>>
rcvVars == <<rcvBuf, ready, rcvLastAck, rcvLastAckAck, rcvCurrSeqNo, rcvLoss,
             rcvState, got>>
vars == <<sndVars, rcvVars, toRcv, toSnd>>

Nothing == -1
Hole == 0
Offsets == 0 .. RcvBufSize - 1

(* prev(n) before the first number is n - 1 in the code, even for n = 0.   *)
Init ==
  /\ written = 0 /\ sndBuf = <<>> /\ sndBlock = 0
  /\ sndLastAck \in FirstSeqNos /\ sndLastDataAck = sndLastAck
  /\ sndCurrSeqNo = sndLastAck - 1
  /\ flowWindow = RcvBufSize
  /\ sndLoss = {} /\ listed = FALSE /\ packing = Nothing /\ updates = {}
  /\ sndState = "open"
  /\ rcvBuf = [o \in Offsets |-> Hole] /\ ready = <<>>
  /\ rcvLastAck = sndLastAck /\ rcvLastAckAck = sndLastAck
  /\ rcvCurrSeqNo = sndLastAck - 1
  /\ rcvLoss = {} /\ rcvState = "open" /\ got = <<>>
  /\ toRcv = {} /\ toSnd = {}

-----------------------------------------------------------------------------
(* The packets, and the network: a packet sent into a full channel takes   *)
(* the place of another.                                                   *)
Data(s, d) == [kind |-> "data", seq |-> s, data |-> d]
Ack2(a) == [kind |-> "ack2", ack |-> a]
Shutdown == [kind |-> "shutdown"]
Ack(a, w) == [kind |-> "ack", ack |-> a, window |-> w]
LiteAck(a) == [kind |-> "lite", ack |-> a]
Nak(s, t) == [kind |-> "nak", from |-> s, to |-> t]

With(channel, other, p) ==
  LET grown == channel \cup {p} IN
  IF Cardinality(grown) <= Capacity /\ Cardinality(grown) + Cardinality(other) <= InFlight
  THEN {grown}
  ELSE {(channel \ {q}) \cup {p} : q \in channel}

Lose ==
  /\ \/ \E p \in toRcv : toRcv' = toRcv \ {p} /\ UNCHANGED toSnd
     \/ \E p \in toSnd : toSnd' = toSnd \ {p} /\ UNCHANGED toRcv
  /\ UNCHANGED <<sndVars, rcvVars>>

-----------------------------------------------------------------------------
(***************************************************************************)
(* The sender: the program.                                                *)
(***************************************************************************)
Alive(state) == state \in {"open", "lingering"}

send(n) ==
  LET room == SndBufSize - Len(sndBuf)
      size == IF n < room THEN n ELSE room
  IN
  /\ sndState = "open" /\ "program" \notin updates
  /\ room > 0 /\ written + n <= Packets
  /\ sndBuf' = sndBuf \o [i \in 1..size |-> written + i]
  /\ written' = written + size
  /\ updates' = updates \cup {"program"}
  /\ UNCHANGED <<sndBlock, sndCurrSeqNo, sndAcks, sndLoss, listed, packing, sndState,
                 rcvVars, toRcv, toSnd>>

\* close lets the socket linger while something is not acknowledged.
close ==
  /\ sndState = "open" /\ "program" \notin updates
  /\ sndState' = "lingering"
  /\ UNCHANGED <<sndAcks, sndData, sndLoss, listed, packing, updates,
                 rcvVars, toRcv, toSnd>>

\* The end of it: nothing is left, the connection is broken or, the fault,
\* the time is over.
lingered ==
  /\ sndState \in {"lingering", "broken"} /\ packing = Nothing
  /\ listed' = FALSE
  /\ sndState' = IF sndState = "lingering" /\ sndBuf = <<>> THEN "closed"
                 ELSE "dropped"
  /\ toRcv' \in With(toRcv, toSnd, Shutdown)
  /\ UNCHANGED <<sndAcks, sndData, sndLoss, packing, updates, rcvVars, toSnd>>

-----------------------------------------------------------------------------
(***************************************************************************)
(* The sender: the worker of the send queue.  It holds m_ListLock while it *)
(* packs, so no update of the list falls into that; what comes from the    *)
(* peer may.                                                               *)
(***************************************************************************)
update(t) ==
  /\ t \in updates /\ packing = Nothing
  /\ listed' = TRUE
  /\ updates' = updates \ {t}
  /\ UNCHANGED <<sndAcks, sndData, sndLoss, packing, sndState, rcvVars, toRcv, toSnd>>

First(S) == CHOOSE s \in S : \A t \in S : seqcmp(s, t) <= 0

\* Is the next packet within the flow window?
Within == flowWindow >= seqlen(sndLastAck, incseq(sndCurrSeqNo))

packNew ==
  IF Within /\ sndBlock < Len(sndBuf)
  THEN /\ sndCurrSeqNo' = incseq(sndCurrSeqNo)
       /\ sndBlock' = sndBlock + 1
       /\ toRcv' \in With(toRcv, toSnd, Data(incseq(sndCurrSeqNo), sndBuf[sndBlock + 1]))
       /\ listed' = TRUE
  ELSE /\ listed' = FALSE
       /\ UNCHANGED <<sndCurrSeqNo, sndBlock, toRcv>>

\* A lost packet goes first.  A socket that sends nothing leaves the list.
pop ==
  /\ listed /\ packing = Nothing
  /\ \/ /\ Alive(sndState) /\ sndLoss # {}
        /\ packing' = First(sndLoss)
        /\ sndLoss' = sndLoss \ {First(sndLoss)}
        /\ listed' = FALSE
        /\ UNCHANGED <<sndCurrSeqNo, sndBlock, toRcv>>
     \/ /\ Alive(sndState) /\ sndLoss = {}
        /\ packNew
        /\ UNCHANGED <<packing, sndLoss>>
     \/ /\ ~Alive(sndState)
        /\ listed' = FALSE
        /\ UNCHANGED <<sndCurrSeqNo, sndBlock, toRcv, packing, sndLoss>>
  /\ UNCHANGED <<sndAcks, written, sndBuf, updates, sndState, rcvVars, toSnd>>

\* readData of CSndBuffer with an offset, which it does not check.
BlockAt(o) == IF o < Len(sndBuf) THEN sndBuf[o + 1] ELSE Hole

(* Mutant: counted from the number a lite ACK moved.                      *)
packLostFromLastAck ==
  LET offset == seqoff(sndLastAck, packing) IN
  /\ packing # Nothing
  /\ packing' = Nothing
  /\ IF offset < 0
     THEN UNCHANGED <<toRcv, listed>>
     ELSE /\ toRcv' \in With(toRcv, toSnd, Data(packing, BlockAt(offset)))
          /\ listed' = TRUE
  /\ UNCHANGED <<sndAcks, sndData, sndLoss, updates, sndState, rcvVars, toSnd>>

\* The rest of packData for a lost packet, under m_AckLock.
packLost ==
  LET offset == seqoff(sndLastDataAck, packing) IN
  /\ packing # Nothing
  /\ packing' = Nothing
  /\ IF offset < 0
     THEN UNCHANGED <<toRcv, listed>>
     ELSE /\ toRcv' \in With(toRcv, toSnd, Data(packing, BlockAt(offset)))
          /\ listed' = TRUE
  /\ UNCHANGED <<sndAcks, sndData, sndLoss, updates, sndState, rcvVars, toSnd>>

-----------------------------------------------------------------------------
(***************************************************************************)
(* The receiver.                                                           *)
(***************************************************************************)
AvailBufSize == RcvBufSize - 1 - Len(ready)

\* Takes a packet off the way, or leaves it there to come again.
After(channel, p) == {channel, channel \ {p}}

(* Mutant: the packet itself is taken for lost, too.                       *)
GapWithIt(s) ==
  IF seqcmp(s, incseq(rcvCurrSeqNo)) > 0
  THEN SeqRange(incseq(rcvCurrSeqNo), s) ELSE {}

\* The numbers that are missing before s.
Gap(s) ==
  IF seqcmp(s, incseq(rcvCurrSeqNo)) > 0
  THEN SeqRange(incseq(rcvCurrSeqNo), decseq(s)) ELSE {}

LossReport(s) == Nak(incseq(rcvCurrSeqNo), decseq(s))

processData(p) ==
  LET offset == seqoff(rcvLastAck, p.seq) IN
  /\ p \in toRcv /\ p.kind = "data" /\ rcvState = "open"
  /\ toRcv' \in After(toRcv, p)
  /\ IF offset \notin 0 .. AvailBufSize - 1 \/ rcvBuf[offset] # Hole
     THEN UNCHANGED <<rcvBuf, rcvLoss, rcvCurrSeqNo, toSnd>>
     ELSE /\ rcvBuf' = [rcvBuf EXCEPT ![offset] = p.data]
          /\ IF Gap(p.seq) # {} THEN toSnd' \in With(toSnd, toRcv, LossReport(p.seq))
             ELSE UNCHANGED toSnd
          /\ IF seqcmp(p.seq, rcvCurrSeqNo) > 0
             THEN rcvCurrSeqNo' = p.seq /\ rcvLoss' = rcvLoss \cup Gap(p.seq)
             ELSE rcvLoss' = rcvLoss \ {p.seq} /\ UNCHANGED rcvCurrSeqNo
  /\ UNCHANGED <<sndVars, ready, rcvLastAck, rcvLastAckAck, rcvState, got>>

\* What there is to acknowledge: everything before it came.
AckNow == IF rcvLoss = {} THEN incseq(rcvCurrSeqNo) ELSE First(rcvLoss)

ackData(n) ==
  /\ ready' = ready \o [i \in 1..n |-> rcvBuf[i - 1]]
  /\ rcvBuf' = [o \in Offsets |->
                  IF o + n \in Offsets THEN rcvBuf[o + n] ELSE Hole]

(* Mutant: the window as it is.                                           *)
WindowAsIs(avail) == avail

\* A flow window of 2 at least, to break a potential deadlock.
Window(avail) == IF avail < 2 THEN 2 ELSE avail

\* A full ACK, the first for its number or, after a while, another.
sendAck ==
  LET size == seqoff(rcvLastAck, AckNow)
      room == AvailBufSize - size
  IN
  /\ rcvState = "open"
  /\ AckNow # rcvLastAckAck
  /\ seqcmp(AckNow, rcvLastAck) >= 0
  /\ IF size > 0 THEN ackData(size) ELSE UNCHANGED <<ready, rcvBuf>>
  /\ rcvLastAck' = AckNow
  /\ IF seqcmp(AckNow, rcvLastAckAck) > 0
     THEN toSnd' \in With(toSnd, toRcv, Ack(AckNow, Window(room)))
     ELSE UNCHANGED toSnd
  /\ UNCHANGED <<sndVars, rcvLastAckAck, rcvCurrSeqNo, rcvLoss, rcvState, got,
                 toRcv>>

\* A lite ACK is the number only, and nothing else is done about it.
sendLiteAck ==
  /\ rcvState = "open" /\ AckNow # rcvLastAckAck
  /\ toSnd' \in With(toSnd, toRcv, LiteAck(AckNow))
  /\ UNCHANGED <<sndVars, rcvVars, toRcv>>

hearAck2(p) ==
  /\ p \in toRcv /\ p.kind = "ack2" /\ rcvState = "open"
  /\ toRcv' \in After(toRcv, p)
  /\ rcvLastAckAck' = IF seqcmp(p.ack, rcvLastAckAck) > 0 THEN p.ack
                      ELSE rcvLastAckAck
  /\ UNCHANGED <<sndVars, rcvBuf, ready, rcvLastAck, rcvCurrSeqNo, rcvLoss,
                 rcvState, got, toSnd>>

hearShutdown ==
  /\ Shutdown \in toRcv /\ rcvState = "open"
  /\ toRcv' \in After(toRcv, Shutdown)
  /\ rcvState' = "shutdown"
  /\ UNCHANGED <<sndVars, rcvBuf, ready, rcvLastAck, rcvLastAckAck, rcvCurrSeqNo,
                 rcvLoss, got, toSnd>>

\* The program reads, of a broken connection too, up to n packets.
recv(n) ==
  LET size == IF n < Len(ready) THEN n ELSE Len(ready) IN
  /\ ready # <<>>
  /\ got' = got \o SubSeq(ready, 1, size)
  /\ ready' = SubSeq(ready, size + 1, Len(ready))
  /\ UNCHANGED <<sndVars, rcvBuf, rcvLastAck, rcvLastAckAck, rcvCurrSeqNo,
                 rcvLoss, rcvState, toRcv, toSnd>>

-----------------------------------------------------------------------------
(***************************************************************************)
(* The sender: the worker of the receive queue, when it is not waiting for *)
(* m_ListLock to put the socket on the list.                               *)
(***************************************************************************)
Handling == Alive(sndState) /\ "worker" \notin updates

Accuse == sndState' = "accused"

(* Mutant: the number after the newest is not expected.                    *)
SaneUpToLast(ack) == seqcmp(ack, sndCurrSeqNo) <= 0

Sane(ack) == seqcmp(ack, incseq(sndCurrSeqNo)) <= 0

\* An ACK of what was sent moves the window; what is new of it leaves the
\* buffer and the loss list, under m_AckLock.
hearAck(p) ==
  LET newest == seqcmp(p.ack, sndLastAck) >= 0
      offset == seqoff(sndLastDataAck, p.ack)
      sane == Sane(p.ack)
  IN
  /\ p \in toSnd /\ p.kind = "ack" /\ Handling
  /\ toSnd' \in After(toSnd, p)
  /\ toRcv' \in With(toRcv, toSnd, Ack2(p.ack))
  /\ IF sane THEN UNCHANGED sndState ELSE Accuse
  /\ IF sane /\ newest
     THEN flowWindow' = p.window /\ sndLastAck' = p.ack
     ELSE UNCHANGED <<flowWindow, sndLastAck>>
  /\ IF sane /\ offset > 0
     THEN /\ sndBuf' = SubSeq(sndBuf, offset + 1, Len(sndBuf))
          /\ sndBlock' = sndBlock - offset
          /\ sndLastDataAck' = p.ack
          /\ sndLoss' = {s \in sndLoss : seqcmp(s, p.ack) >= 0}
          /\ updates' = updates \cup {"worker"}
     ELSE UNCHANGED <<sndBuf, sndBlock, sndLastDataAck, sndLoss, updates>>
  /\ UNCHANGED <<written, sndCurrSeqNo, listed, packing, rcvVars>>

hearLiteAck(p) ==
  /\ p \in toSnd /\ p.kind = "lite" /\ Handling
  /\ toSnd' \in After(toSnd, p)
  /\ IF seqcmp(p.ack, sndLastAck) >= 0
     THEN /\ flowWindow' = flowWindow - seqoff(sndLastAck, p.ack)
          /\ sndLastAck' = p.ack
     ELSE UNCHANGED <<flowWindow, sndLastAck>>
  /\ UNCHANGED <<sndLastDataAck, sndData, sndLoss, listed, packing, updates,
                 sndState, rcvVars, toRcv>>

\* Only what is not acknowledged goes into the loss list.  A report of more
\* than one packet is checked first, one of a single packet only when it is
\* not acknowledged.
Insane(p) ==
  \/ seqcmp(p.from, p.to) > 0
  \/ /\ seqcmp(p.to, sndCurrSeqNo) > 0
     /\ p.from # p.to \/ seqcmp(p.to, sndLastAck) >= 0

Reported(p) ==
  IF seqcmp(p.to, sndLastAck) < 0 THEN {}
  ELSE SeqRange(IF seqcmp(p.from, sndLastAck) >= 0 THEN p.from ELSE sndLastAck, p.to)

hearNak(p) ==
  /\ p \in toSnd /\ p.kind = "nak" /\ Handling
  /\ toSnd' \in After(toSnd, p)
  /\ IF Insane(p) THEN Accuse /\ UNCHANGED <<sndLoss, updates>>
     ELSE /\ sndLoss' = sndLoss \cup Reported(p)
          /\ updates' = updates \cup {"worker"}
          /\ UNCHANGED sndState
  /\ UNCHANGED <<sndAcks, sndData, listed, packing, rcvVars, toRcv>>

\* The EXP timer: all that is not acknowledged is sent again, unless some of
\* it is about to be anyway.
expire ==
  /\ Handling /\ sndBuf # <<>>
  /\ sndLoss' = IF incseq(sndCurrSeqNo) # sndLastAck /\ sndLoss = {}
                THEN SeqRange(sndLastAck, sndCurrSeqNo) ELSE sndLoss
  /\ updates' = updates \cup {"worker"}
  /\ UNCHANGED <<sndAcks, sndData, listed, packing, sndState, rcvVars, toRcv, toSnd>>

\* After 16 expirations and long silence the connection is broken.
breakSnd ==
  /\ Handling
  /\ sndState' = "broken" /\ updates' = updates \cup {"worker"}
  /\ UNCHANGED <<sndAcks, sndData, sndLoss, listed, packing, rcvVars, toRcv, toSnd>>

breakRcv ==
  /\ rcvState = "open"
  /\ rcvState' = "broken"
  /\ UNCHANGED <<sndVars, rcvBuf, ready, rcvLastAck, rcvLastAckAck, rcvCurrSeqNo,
                 rcvLoss, got, toRcv, toSnd>>

-----------------------------------------------------------------------------
Snd == (\E n \in 1..2 : send(n)) \/ close \/ lingered
SndWorker == pop \/ packLost \/ (\E t \in {"program", "worker"} : update(t))
SndHears == \E p \in toSnd : hearAck(p) \/ hearLiteAck(p) \/ hearNak(p)
RcvHears == hearShutdown \/ (\E p \in toRcv : processData(p) \/ hearAck2(p))
Rcv == sendAck \/ sendLiteAck \/ (\E n \in 1..2 : recv(n))
Faults == Lose \/ breakSnd \/ breakRcv

Next == Snd \/ SndWorker \/ SndHears \/ expire \/ RcvHears \/ Rcv \/ Faults

Spec == Init /\ [][Next]_vars

(* Every thread runs, time passes, and what is sent again and again comes  *)
(* through: the link is lossy but fair.  Nobody has to write, to close or  *)
(* to give up.                                                             *)
Sent(i) == {addseq(f, i) : f \in FirstSeqNos}
IsData(i, p) == p.kind = "data" /\ p.seq \in Sent(i)

DataComes(i) ==
  []<>(rcvState = "open" /\ \E p \in toRcv : IsData(i, p))
  => []<><<\E p \in toRcv : IsData(i, p) /\ processData(p) /\ toRcv' = toRcv \ {p}>>_vars

AcksCome ==
  []<>(Alive(sndState) /\ \E p \in toSnd : p.kind = "ack")
  => []<><<\E p \in toSnd : hearAck(p) /\ toSnd' = toSnd \ {p}>>_vars

Fairness ==
  /\ WF_vars(pop) /\ WF_vars(packLost)
  /\ \A t \in {"program", "worker"} : WF_vars(update(t))
  /\ WF_vars(\E n \in 1..2 : recv(n)) /\ WF_vars(sendAck) /\ SF_vars(expire)
  /\ \A i \in 0 .. Packets - 1 : DataComes(i)
  /\ AcksCome

FairSpec == Spec /\ Fairness

-----------------------------------------------------------------------------
(***************************************************************************)
(* Properties.                                                             *)
(***************************************************************************)
\* What a reader of the connection can be sure of.  It is lost once an end
\* gave up; it ended in order if the shutdown of a sender that had nothing
\* left came.
End == IF rcvState = "broken" \/ sndState \notin {"open", "lingering", "closed"}
       THEN "lost"
       ELSE IF rcvState = "shutdown" THEN "ended" ELSE "open"

Pipe == INSTANCE UdtPipe WITH sent <- written, end <- End

\* Whatever the network does, the two sockets are a pipe: nothing is read
\* twice, skipped, exchanged or made up, and once a socket that lingered until
\* its buffer was empty has ended the stream, nothing is missing.
IsAPipe == Pipe!Spec

\* What the sender released from its buffer is safe at the receiver: read or
\* in the part of its buffer that is handed to the program, which has no
\* holes, and so beyond the reach of a shutdown.
ReleasedIsThere ==
  /\ Len(got) + Len(ready) >= written - Len(sndBuf)
  /\ Hole \notin {ready[i] : i \in 1 .. Len(ready)}

\* The receiver's loss list is exactly what is missing among the numbers up
\* to the largest that came: an ACK of its first entry acknowledges nothing
\* that did not come.
LossesAreHoles ==
  \A o \in Offsets :
    LET s == addseq(rcvLastAck, o) IN
    (s \in rcvLoss) <=> (rcvBuf[o] = Hole /\ seqcmp(s, rcvCurrSeqNo) <= 0)

\* Neither end takes the other for an attacker: "this should not happen"
\* does not, in whatever order ACKs and loss reports come, lite ones among
\* them.
NeverAccused == sndState # "accused"

\* A packet to be sent again is in the buffer.  Only the one the worker
\* already holds may have been acknowledged since.
ResendsWhatItHas ==
  /\ \A s \in sndLoss : seqoff(sndLastDataAck, s) \in 0 .. sndBlock - 1
  /\ packing # Nothing => seqoff(sndLastDataAck, packing) < sndBlock

\* What was written is read, unless an end gives up.
Delivers == Pipe!Delivery

\* The buffers and loss lists of the two ends agree: what one has released the
\* other has, what one lacks it asks for, what one sends again it has.
EndsAgree == ReleasedIsThere /\ LossesAreHoles /\ ResendsWhatItHas
=============================================================================
