------------------------------ MODULE UdtPipe ------------------------------
(***************************************************************************)
(* What a connected stream socket of UDT promises in one direction: the    *)
(* reader gets what was written, each packet once and in order; all of it, *)
(* unless an end gives the connection up; and an end of the stream that    *)
(* the writer reached by an orderly close comes after everything written.  *)
(***************************************************************************)
EXTENDS Integers, Sequences

VARIABLES sent,  \* how many packets were written
          got,   \* the packets read, each a position in what was written
          end    \* "open"; "ended" in an orderly way; or "lost"

pipeVars == <<sent, got, end>>

Upto(n) == [i \in 1..n |-> i]

Init == sent = 0 /\ got = <<>> /\ end = "open"

Write ==
  /\ end # "ended"
  /\ sent' > sent
  /\ UNCHANGED <<got, end>>

Read ==
  /\ \E n \in Len(got) + 1 .. sent : got' = Upto(n)
  /\ UNCHANGED <<sent, end>>

End ==
  /\ end = "open"
  /\ end' \in {"ended", "lost"}
  /\ UNCHANGED <<sent, got>>

Next == Write \/ Read \/ End

Delivery == WF_pipeVars(Read /\ end # "lost")

Spec == Init /\ [][Next]_pipeVars
=============================================================================
