---------------------------- MODULE UdtLossLists ----------------------------
(***************************************************************************)
(* The two loss lists of UDT, src/udt4/src/list.cpp: what the sender still *)
(* has to send again (CSndLossList) and what the receiver misses           *)
(* (CRcvLossList).                                                         *)
(*                                                                         *)
(* A list lives in arrays.  A node holds the range d1..d2 of lost numbers  *)
(* (one number when d2 is -1), and sits at the position that is as far     *)
(* from the head as its first number is from the head's.  Beside each list *)
(* runs the plain set of numbers it stands for; the lists are driven with  *)
(* the calls CUDT makes of them, and must agree with the sets.             *)
(***************************************************************************)
EXTENDS UdtSeqNo, FiniteSets, Sequences

CONSTANTS
  SndSize,     \* m_iSize of the sender's list, twice the flow window
  RcvSize,     \* m_iSize of the receiver's list, the flight flag size
  FirstSeqNo,  \* m_iISN, random in the code
  LossWindow   \* packets the sender has in flight, at most

ASSUME LossAssumption ==
  /\ FirstSeqNo \in SeqNos
  /\ LossWindow < SeqNoTH
  /\ SndSize >= 2 * LossWindow
  /\ RcvSize <= SeqNoTH

VARIABLES
  sndList,  \* CSndLossList
  sndAck,   \* m_iSndLastDataAck
  sndCur,   \* m_iSndCurrSeqNo
  sndLost,  \* the set sndList stands for
  rcvList,  \* CRcvLossList
  rcvAck,   \* m_iRcvLastAck
  rcvCur,   \* m_iRcvCurrSeqNo
  rcvLost   \* the set rcvList stands for

sndVars == <<sndList, sndAck, sndCur, sndLost>>
rcvVars == <<rcvList, rcvAck, rcvCur, rcvLost>>

Nil == -1

-----------------------------------------------------------------------------
(* CSndLossList *)

\* The constructor.  The links are not initialized; a link is written when
\* its node is, so that any value does.
EmptySndList ==
  [d1 |-> [i \in 0 .. SndSize - 1 |-> Nil],
   d2 |-> [i \in 0 .. SndSize - 1 |-> Nil],
   next |-> [i \in 0 .. SndSize - 1 |-> Nil],
   head |-> Nil, length |-> 0, last |-> Nil]

\* The upper end of a node.
UpTo(l, i) == IF l.d2[i] = Nil THEN l.d1[i] ELSE l.d2[i]

\* The last node from i on whose first number is before s.
RECURSIVE PriorNode(_, _, _)
PriorNode(l, i, s) ==
  IF l.next[i] # Nil /\ seqcmp(l.d1[l.next[i]], s) < 0
  THEN PriorNode(l, l.next[i], s)
  ELSE i

\* Mutant: nodes that overlap stay apart.
CoalesceNever(l, loc) == l

\* The loop at the end of insert: the node at loc swallows the ones it
\* reaches or touches.
RECURSIVE Coalesce(_, _)
Coalesce(l, loc) ==
  LET i == l.next[loc]
      end == l.d2[loc]
      last == UpTo(l, i)
      common == IF seqcmp(last, end) <= 0 THEN seqlen(l.d1[i], last)
                ELSE IF seqcmp(end, l.d1[i]) >= 0 THEN seqlen(l.d1[i], end)
                ELSE 0
  IN IF i = Nil \/ end = Nil THEN l
     ELSE IF seqcmp(l.d1[i], incseq(end)) > 0 THEN l
     ELSE Coalesce([l EXCEPT
            !.length = @ - common,
            !.d1[i] = Nil,
            !.d2 = [@ EXCEPT ![loc] = IF seqcmp(last, end) > 0 THEN last ELSE end,
                             ![i] = Nil],
            !.next[loc] = l.next[i]], loc)

\* A node that starts at position i is made to reach b, if it does not yet.
Stretch(l, i, b) ==
  IF seqcmp(b, UpTo(l, i)) <= 0 THEN [l EXCEPT !.last = i]
  ELSE Coalesce([l EXCEPT !.length = @ + seqlen(UpTo(l, i), b) - 1,
                          !.d2[i] = b, !.last = i], i)

\* insert(seqno1, seqno2)
SndInsert(l, a, b) ==
  LET offset == seqoff(l.d1[l.head], a)
      loc == (l.head + offset + SndSize) % SndSize
      Placed(nxt) == [l EXCEPT !.d1[loc] = a,
                               !.d2[loc] = IF a = b THEN @ ELSE b,
                               !.next[loc] = nxt, !.last = loc,
                               !.length = @ + seqlen(a, b)]
      from == IF l.last # Nil /\ seqcmp(l.d1[l.last], a) < 0
              THEN l.last ELSE l.head
      i == PriorNode(l, from, a)
  IN CASE l.length = 0 ->
            [l EXCEPT !.head = 0, !.d1[0] = a, !.last = 0,
                      !.d2[0] = IF a = b THEN @ ELSE b,
                      !.next[0] = Nil, !.length = seqlen(a, b)]
       [] l.length # 0 /\ offset < 0 ->
            Coalesce([Placed(l.head) EXCEPT !.head = loc], loc)
       [] l.length # 0 /\ offset >= 0 /\ l.d1[loc] = a -> Stretch(l, loc, b)
       [] l.length # 0 /\ offset > 0 /\ l.d1[loc] # a ->
            IF l.d2[i] = Nil \/ seqcmp(l.d2[i], a) < 0
            THEN Coalesce([Placed(l.next[i]) EXCEPT !.next[i] = loc], loc)
            ELSE Stretch(l, i, b)

\* What is left of the node at i when it loses its numbers up to s goes into
\* the position after s, which becomes the head.
CutTo(l, i, loc, s) ==
  [l EXCEPT !.d1[loc] = incseq(s),
            !.d2[loc] = IF seqcmp(l.d2[i], incseq(s)) > 0 THEN l.d2[i] ELSE @,
            !.next[loc] = l.next[i],
            !.head = loc]

\* "Remove all nodes prior to the new head"
RECURSIVE FreeUpTo(_, _)
FreeUpTo(l, h) ==
  IF h = l.head THEN l
  ELSE FreeUpTo([l EXCEPT
         !.length = @ - (IF l.d2[h] # Nil THEN seqlen(l.d1[h], l.d2[h]) ELSE 1),
         !.d1[h] = Nil, !.d2[h] = Nil,
         !.last = IF @ = h THEN Nil ELSE @], l.next[h])

\* remove(seqno): everything up to and including s goes.
SndRemove(l, s) ==
  LET offset == seqoff(l.d1[l.head], s)
      loc == (l.head + offset + SndSize) % SndSize
      after == (loc + 1) % SndSize
      i == PriorNode(l, l.head, s)
      Linked(k) ==
        [CutTo(l, k, after, s) EXCEPT
           !.d2[k] = IF k = loc THEN Nil ELSE s, !.next[k] = after]
  IN CASE l.length = 0 \/ offset < 0 -> l
       [] l.length # 0 /\ offset = 0 ->
            LET m == IF l.d2[l.head] = Nil
                     THEN [l EXCEPT !.head = l.next[l.head]]
                     ELSE [CutTo(l, l.head, after, s) EXCEPT !.d2[l.head] = Nil]
            IN [m EXCEPT !.d1[l.head] = Nil, !.length = @ - 1,
                         !.last = IF @ = l.head THEN Nil ELSE @]
       [] l.length # 0 /\ offset > 0 ->
            LET k == IF l.d1[loc] = s THEN loc ELSE i
            IN FreeUpTo(IF seqcmp(UpTo(l, k), s) > 0 THEN Linked(k)
                        ELSE [l EXCEPT !.head = l.next[k]], l.head)

\* getLostSeq(): the first lost number leaves the list.
SndGetLostSeq(l) ==
  LET h == l.head
      loc == (h + 1) % SndSize
      m == IF l.d2[h] = Nil THEN [l EXCEPT !.head = l.next[h]]
           ELSE [CutTo(l, h, loc, l.d1[h]) EXCEPT !.d2[h] = Nil]
  IN IF l.length = 0 THEN [seq |-> Nil, list |-> l]
     ELSE [seq |-> l.d1[h],
           list |-> [m EXCEPT !.d1[h] = Nil, !.length = @ - 1,
                              !.last = IF @ = h THEN Nil ELSE @]]

-----------------------------------------------------------------------------
(* CRcvLossList *)

EmptyRcvList ==
  [d1 |-> [i \in 0 .. RcvSize - 1 |-> Nil],
   d2 |-> [i \in 0 .. RcvSize - 1 |-> Nil],
   next |-> [i \in 0 .. RcvSize - 1 |-> Nil],
   prior |-> [i \in 0 .. RcvSize - 1 |-> Nil],
   head |-> Nil, tail |-> Nil, length |-> 0]

\* insert(seqno1, seqno2), of numbers after all those in the list.
RcvInsert(l, a, b) ==
  LET loc == (l.head + seqoff(l.d1[l.head], a)) % RcvSize
      Node(pos) == [l EXCEPT !.d1[pos] = a,
                             !.d2[pos] = IF a = b THEN @ ELSE b,
                             !.next[pos] = Nil, !.tail = pos,
                             !.length = @ + seqlen(a, b)]
  IN IF l.length = 0 THEN [Node(0) EXCEPT !.head = 0, !.prior[0] = Nil]
     ELSE IF l.d2[l.tail] # Nil /\ incseq(l.d2[l.tail]) = a
     THEN [l EXCEPT !.d2[l.tail] = b, !.length = @ + seqlen(a, b)]
     ELSE [Node(loc) EXCEPT !.next[l.tail] = loc, !.prior[loc] = l.tail]

\* The neighbours of position i point to the node j; -1 is no neighbour.
Relink(l, i, j) ==
  [l EXCEPT
     !.next = IF l.head = i THEN @ ELSE [@ EXCEPT ![l.prior[i]] = j],
     !.prior = IF l.tail = i THEN @ ELSE [@ EXCEPT ![l.next[i]] = j]]

\* remove(seqno) of the only number of the node at i.
RcvUnlink(l, i) ==
  [l EXCEPT
     !.d1[i] = Nil,
     !.head = IF @ = i THEN l.next[i] ELSE @,
     !.next = IF l.head = i THEN @ ELSE [@ EXCEPT ![l.prior[i]] = l.next[i]],
     !.prior = IF l.next[i] = Nil THEN @
               ELSE [@ EXCEPT ![l.next[i]] =
                      IF l.head = i THEN Nil ELSE l.prior[i]],
     !.tail = IF l.head # i /\ l.next[i] = Nil THEN l.prior[i] ELSE @]

\* remove(seqno) of the first number of a longer node: the node moves on.
RcvShift(l, loc) ==
  LET i == (loc + 1) % RcvSize
      m == Relink(l, loc, i)
  IN [m EXCEPT
        !.d1 = [@ EXCEPT ![i] = incseq(l.d1[loc]), ![loc] = Nil],
        !.d2 = [@ EXCEPT ![i] = IF seqcmp(l.d2[loc], incseq(l.d1[loc])) > 0
                                THEN l.d2[loc] ELSE @, ![loc] = Nil],
        !.next[i] = l.next[loc], !.prior[i] = l.prior[loc],
        !.head = IF @ = loc THEN i ELSE @,
        !.tail = IF @ = loc THEN i ELSE @]

\* remove(seqno) inside or at the end of the node at i; loc is where s is.
RcvSplit(l, i, loc, s) ==
  LET after == (loc + 1) % RcvSize
      short == [l EXCEPT !.d2[i] = IF s = incseq(l.d1[i]) THEN Nil ELSE decseq(s)]
  IN IF s = l.d2[i] THEN short
     ELSE [short EXCEPT
             !.d1[after] = incseq(s),
             !.d2[after] = IF seqcmp(l.d2[i], incseq(s)) > 0 THEN l.d2[i] ELSE @,
             !.next = [@ EXCEPT ![after] = l.next[i], ![i] = after],
             !.prior = IF l.tail = i THEN [@ EXCEPT ![after] = i]
                       ELSE [@ EXCEPT ![after] = i, ![l.next[i]] = after],
             !.tail = IF @ = i THEN after ELSE @]

\* The nearest position before i that holds a node.
RECURSIVE NodeBefore(_, _)
NodeBefore(l, i) ==
  LET j == (i - 1 + RcvSize) % RcvSize
  IN IF l.d1[j] = Nil THEN NodeBefore(l, j) ELSE j

\* remove(seqno); the list is returned as it is when s is not in it.
RcvRemove(l, s) ==
  LET offset == seqoff(l.d1[l.head], s)
      loc == (l.head + offset) % RcvSize
      i == NodeBefore(l, loc)
  IN IF l.length = 0 THEN l
     ELSE IF offset < 0 THEN l
     ELSE IF l.d1[loc] = s
     THEN [(IF l.d2[loc] = Nil THEN RcvUnlink(l, loc) ELSE RcvShift(l, loc))
             EXCEPT !.length = @ - 1]
     ELSE IF l.d2[i] = Nil \/ seqcmp(s, l.d2[i]) > 0 THEN l
     ELSE [RcvSplit(l, i, loc, s) EXCEPT !.length = @ - 1]

RcvFirstLost(l) == IF l.length = 0 THEN Nil ELSE l.d1[l.head]

-----------------------------------------------------------------------------
(* The calls of CUDT *)

\* The links of a free position are never read before they are written
\* again; the model forgets them.
Tidy(f, l) == [i \in DOMAIN f |-> IF l.d1[i] = Nil THEN Nil ELSE f[i]]
TidySnd(l) == [l EXCEPT !.next = Tidy(@, l)]
TidyRcv(l) == [l EXCEPT !.next = Tidy(@, l), !.prior = Tidy(@, l),
                        !.tail = IF l.length = 0 THEN Nil ELSE @]

SndInit ==
  /\ sndList = EmptySndList
  /\ sndAck = FirstSeqNo
  /\ sndCur = decseq(sndAck)
  /\ sndLost = {}

\* packData takes a new packet while the window lets it.
SndNew ==
  /\ seqoff(sndAck, incseq(sndCur)) < LossWindow
  /\ sndCur' = incseq(sndCur)
  /\ UNCHANGED <<sndList, sndAck, sndLost>>

\* processCtrl of a loss report, or checkTimers, which puts back everything.
SndLose(a, b) ==
  /\ seqoff(a, b) >= 0
  /\ sndList' = TidySnd(SndInsert(sndList, a, b))
  /\ sndLost' = sndLost \cup SeqRange(a, b)
  /\ UNCHANGED <<sndAck, sndCur>>

\* processCtrl of an acknowledgement of everything before ack.
SndAcked(ack) ==
  /\ sndAck' = ack
  /\ sndList' = TidySnd(SndRemove(sndList, decseq(ack)))
  /\ sndLost' = sndLost \ SeqRange(sndAck, decseq(ack))
  /\ UNCHANGED sndCur

\* packData sends the first lost packet again.
SndResend ==
  /\ sndList.length # 0
  /\ sndList' = TidySnd(SndGetLostSeq(sndList).list)
  /\ sndLost' = sndLost \ {SndGetLostSeq(sndList).seq}
  /\ UNCHANGED <<sndAck, sndCur>>

InFlight(ack, cur) == IF incseq(cur) = ack THEN {} ELSE SeqRange(ack, cur)

SndStep ==
  \/ SndNew
  \/ \E a, b \in InFlight(sndAck, sndCur) : SndLose(a, b)
  \/ \E s \in InFlight(sndAck, sndCur) : SndAcked(incseq(s))
  \/ SndResend

RcvInit ==
  /\ rcvList = EmptyRcvList
  /\ rcvAck = FirstSeqNo
  /\ rcvCur = decseq(rcvAck)
  /\ rcvLost = {}

\* processData, of a packet the buffer has room for (which has no more places
\* than the list): one that leaves a gap, the next one, or an old one.
RcvArrives(s) ==
  /\ IF seqcmp(s, incseq(rcvCur)) > 0
     THEN /\ rcvList' = TidyRcv(RcvInsert(rcvList, incseq(rcvCur), decseq(s)))
          /\ rcvLost' = rcvLost \cup SeqRange(incseq(rcvCur), decseq(s))
     ELSE IF seqcmp(s, rcvCur) > 0
     THEN UNCHANGED <<rcvList, rcvLost>>
     ELSE /\ rcvList' = TidyRcv(RcvRemove(rcvList, s))
          /\ rcvLost' = rcvLost \ {s}
  /\ rcvCur' = IF seqcmp(s, rcvCur) > 0 THEN s ELSE rcvCur
  /\ UNCHANGED rcvAck

\* sendCtrl of an acknowledgement.
RcvAcks ==
  /\ rcvAck' = IF rcvList.length = 0 THEN incseq(rcvCur) ELSE RcvFirstLost(rcvList)
  /\ UNCHANGED <<rcvList, rcvCur, rcvLost>>

RcvStep ==
  \/ \E i \in 0 .. RcvSize - 2 : RcvArrives(addseq(rcvAck, i))
  \/ RcvAcks

-----------------------------------------------------------------------------
(* What the lists must be *)

\* The positions of a list, in order.
RECURSIVE NodesFrom(_, _)
NodesFrom(l, i) == IF i = Nil THEN <<>> ELSE <<i>> \o NodesFrom(l, l.next[i])
Nodes(l) == IF l.length = 0 THEN <<>> ELSE NodesFrom(l, l.head)

Contents(l) ==
  UNION {SeqRange(l.d1[Nodes(l)[k]], UpTo(l, Nodes(l)[k])) : k \in DOMAIN Nodes(l)}

\* The first of a set of numbers in the window that starts at ack.
FirstOf(S, ack) == CHOOSE s \in S : \A t \in S : seqoff(ack, s) <= seqoff(ack, t)

\* The sender's list is the set of the numbers reported lost, neither
\* acknowledged nor sent again since: its nodes hold these numbers and no
\* other, its length counts each of them once however the reports overlap,
\* and the next packet to send again is the earliest of them.  The hint for
\* the next insertion points to a node or nowhere.
SndListIsTheSet ==
  /\ Contents(sndList) = sndLost
  /\ sndList.length = Cardinality(sndLost)
  /\ sndLost # {} => SndGetLostSeq(sndList).seq = FirstOf(sndLost, sndAck)
  /\ sndList.last # Nil => sndList.d1[sndList.last] # Nil

\* The receiver's list is the set of the numbers skipped and not received
\* since, counted once each.  The acknowledgement is taken from its head: it
\* is the earliest missing number, so that nothing missing is acknowledged.
\* The links backward are those forward.
RcvListIsTheSet ==
  LET ns == Nodes(rcvList) IN
  /\ Contents(rcvList) = rcvLost
  /\ rcvList.length = Cardinality(rcvLost)
  /\ rcvLost # {} => RcvFirstLost(rcvList) = FirstOf(rcvLost, rcvAck)
  /\ ns # <<>> => /\ rcvList.tail = ns[Len(ns)]
                  /\ rcvList.prior[ns[1]] = Nil
                  /\ \A k \in 2 .. Len(ns) : rcvList.prior[ns[k]] = ns[k - 1]

\* Both loss lists are the sets they stand for.
LossListsAreSets == SndListIsTheSet /\ RcvListIsTheSet
=============================================================================
