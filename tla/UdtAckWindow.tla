---------------------------- MODULE UdtAckWindow ----------------------------
(***************************************************************************)
(* The acknowledgements a UDT receiver has sent and not seen confirmed:    *)
(* CACKWindow of src/udt4/src/window.cpp, a circular array of AckSlots     *)
(* places that overwrites its oldest entry.  Times are left out: a         *)
(* confirmation that finds its entry gives a round-trip time, and the      *)
(* sequence number the entry carried.                                      *)
(***************************************************************************)
EXTENDS Integers, Sequences, SequencesExt

CONSTANTS
  AckSlots,  \* m_iSize, 1024 in the code
  MaxAcks    \* bound: acknowledgements sent

ASSUME AckAssumption ==
  /\ AckSlots \in Nat /\ AckSlots > 1
  /\ MaxAcks \in Nat

VARIABLES
  ackWindow,  \* CACKWindow
  ackList,    \* the acknowledgements it stands for, oldest first
  ackSent     \* m_iAckSeqNo

ackVars == <<ackWindow, ackList, ackSent>>

NotFound == -1

NewAckWindow ==
  [seq |-> [i \in 0 .. AckSlots - 1 |-> NotFound],
   ack |-> [i \in 0 .. AckSlots - 1 |-> NotFound], head |-> 0, tail |-> 0]

\* Mutant: the oldest entry is not given up when the array is full.
StoreOverOldest(w, seq, ack) ==
  [w EXCEPT !.seq[w.head] = seq, !.ack[w.head] = ack,
            !.head = (@ + 1) % AckSlots]

\* store(seq, ack)
Store(w, seq, ack) ==
  LET head == (w.head + 1) % AckSlots
  IN [w EXCEPT !.seq[w.head] = seq, !.ack[w.head] = ack, !.head = head,
               !.tail = IF head = @ THEN (@ + 1) % AckSlots ELSE @]

\* The places the search of acknowledge goes through, in order, whether or
\* not they go round the end of the array.
Places(w) ==
  LET n == IF w.head >= w.tail THEN w.head ELSE w.head + AckSlots
  IN [k \in 1 .. n - w.tail |-> (w.tail + k - 1) % AckSlots]

\* acknowledge(seq, ack): the entry found, with all before it, is forgotten.
Acknowledge(w, seq) ==
  LET found == {k \in DOMAIN Places(w) : w.seq[Places(w)[k]] = seq}
      i == Places(w)[CHOOSE k \in found : \A j \in found : k <= j]
      ended == IF w.head >= w.tail THEN i + 1 = w.head ELSE i = w.head
  IN IF found = {} THEN [ack |-> NotFound, window |-> w]
     ELSE [ack |-> w.ack[i],
           window |-> IF ended
                      THEN [w EXCEPT !.head = 0, !.tail = 0, !.seq[0] = NotFound]
                      ELSE [w EXCEPT !.tail = (i + 1) % AckSlots]]

\* What the acknowledgement with sub-sequence number n says is received.
DataOf(n) == 10 + n

AckInit ==
  /\ ackWindow = NewAckWindow
  /\ ackList = <<>>
  /\ ackSent = 0

\* sendCtrl of an acknowledgement stores it.
AckSend ==
  /\ ackSent < MaxAcks
  /\ ackSent' = ackSent + 1
  /\ ackWindow' = Store(ackWindow, ackSent', DataOf(ackSent'))
  /\ ackList' = LET l == Append(ackList, ackSent')
                IN IF Len(l) = AckSlots THEN Tail(l) ELSE l

\* What is in l behind n.
Behind(l, n) == SubSeq(l, 1 + CHOOSE k \in DOMAIN l : l[k] = n, Len(l))

\* processCtrl of a confirmation, whichever the network brings.
AckConfirmed(n) ==
  /\ ackWindow' = Acknowledge(ackWindow, n).window
  /\ ackList' = IF n \in ToSet(ackList) THEN Behind(ackList, n) ELSE ackList
  /\ UNCHANGED ackSent

AckStep == AckSend \/ \E n \in 1 .. MaxAcks : AckConfirmed(n)

AckSpec == AckInit /\ [][AckStep]_ackVars

\* The window knows the last AckSlots - 1 acknowledgements sent after the
\* latest confirmed one, each with the data it acknowledged, and no other:
\* a late or repeated confirmation finds nothing, and never the data of an
\* acknowledgement that took its place in the array.
WindowIsTheList ==
  /\ [k \in DOMAIN Places(ackWindow) |-> ackWindow.seq[Places(ackWindow)[k]]] = ackList
  /\ \A n \in 1 .. MaxAcks :
       Acknowledge(ackWindow, n).ack = IF n \in ToSet(ackList) THEN DataOf(n) ELSE NotFound
=============================================================================
