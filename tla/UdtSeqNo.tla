------------------------------ MODULE UdtSeqNo ------------------------------
(***************************************************************************)
(* Arithmetic on the sequence numbers of UDT: CSeqNo of                    *)
(* src/udt4/src/common.h.  The numbers run from 0 to MaxSeqNo and start    *)
(* over; two of them are compared by their distance, which must be below   *)
(* SeqNoTH for the comparison to mean anything.                            *)
(***************************************************************************)
EXTENDS Integers

CONSTANTS
  MaxSeqNo,  \* m_iMaxSeqNo, 0x7FFFFFFF in the code
  SeqNoTH    \* m_iSeqNoTH, 0x3FFFFFFF in the code

ASSUME SeqNoAssumption ==
  /\ MaxSeqNo \in Nat
  /\ SeqNoTH \in Nat \ {0}
  /\ 2 * SeqNoTH <= MaxSeqNo + 1

SeqNos == 0 .. MaxSeqNo

abs(n) == IF n < 0 THEN -n ELSE n

\* Negative, zero or positive as s is before, at or after t.
seqcmp(s, t) == IF abs(s - t) < SeqNoTH THEN s - t ELSE t - s

\* How many numbers there are from s to t, both included.
seqlen(s, t) == IF s <= t THEN t - s + 1 ELSE t - s + MaxSeqNo + 2

\* How far t is ahead of s.
seqoff(s, t) ==
  IF abs(s - t) < SeqNoTH THEN t - s
  ELSE IF s < t THEN t - s - MaxSeqNo - 1
  ELSE t - s + MaxSeqNo + 1

incseq(s) == IF s = MaxSeqNo THEN 0 ELSE s + 1

decseq(s) == IF s = 0 THEN MaxSeqNo ELSE s - 1

\* incseq with an increment.
addseq(s, inc) ==
  IF MaxSeqNo - s >= inc THEN s + inc ELSE s - MaxSeqNo + inc - 1

\* The numbers from s to t, when t is not before s.
SeqRange(s, t) == {addseq(s, i) : i \in 0 .. seqlen(s, t) - 1}
=============================================================================
