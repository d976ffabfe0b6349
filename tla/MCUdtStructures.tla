-------------------------- MODULE MCUdtStructures --------------------------
(***************************************************************************)
(* The data structures of UDT, each driven by the calls the rest of UDT    *)
(* makes of it.  A behaviour is about one of them, the subject; the others *)
(* stay as they are.                                                       *)
(***************************************************************************)
EXTENDS UdtLossLists, UdtAckWindow, UdtBuffers, UdtQueues, UdtEpoll

VARIABLE subject

vars == <<sndVars, rcvVars, ackVars, sbVars, rbVars, heapVars, listVars, workerVars, epVars, subject>>

\* Six packets: a message of two, two of one, one of two that may be
\* delivered out of order, as the one before it.
ThePackets ==
  <<<<1, TRUE, FALSE, TRUE>>, <<1, FALSE, TRUE, TRUE>>,
    <<2, TRUE, TRUE, FALSE>>, <<3, TRUE, TRUE, TRUE>>,
    <<4, TRUE, FALSE, FALSE>>, <<4, FALSE, TRUE, FALSE>>>>

Init ==
  /\ SndInit /\ RcvInit /\ AckInit /\ SbInit /\ RbInit
  /\ HeapInit /\ ListInit /\ WorkerInit /\ EpInit
  /\ subject \in {"resends", "losses", "acks", "sender", "receiver", "heap", "list", "worker", "epoll"}
  /\ subject # "receiver" => asStream
  /\ subject # "epoll" => kind = "in"

Resends ==
  /\ subject = "resends"
  /\ SndStep
  /\ UNCHANGED <<rcvVars, ackVars, sbVars, rbVars, heapVars, listVars, workerVars, epVars, subject>>

Losses ==
  /\ subject = "losses"
  /\ RcvStep
  /\ UNCHANGED <<sndVars, ackVars, sbVars, rbVars, heapVars, listVars, workerVars, epVars, subject>>

Acks ==
  /\ subject = "acks"
  /\ AckStep
  /\ UNCHANGED <<sndVars, rcvVars, sbVars, rbVars, heapVars, listVars, workerVars, epVars, subject>>

Sender ==
  /\ subject = "sender"
  /\ SbStep
  /\ UNCHANGED <<sndVars, rcvVars, ackVars, rbVars, heapVars, listVars, workerVars, epVars, subject>>

Receiver ==
  /\ subject = "receiver"
  /\ RbStep
  /\ UNCHANGED <<sndVars, rcvVars, ackVars, sbVars, heapVars, listVars, workerVars, epVars, subject>>

Heap ==
  /\ subject = "heap"
  /\ HeapStep
  /\ UNCHANGED <<sndVars, rcvVars, ackVars, sbVars, rbVars, listVars, workerVars, epVars, subject>>

List ==
  /\ subject = "list"
  /\ ListStep
  /\ UNCHANGED <<sndVars, rcvVars, ackVars, sbVars, rbVars, heapVars, workerVars, epVars, subject>>

Others == UNCHANGED <<sndVars, rcvVars, ackVars, sbVars, rbVars, heapVars, listVars, epVars, subject>>

Worker == subject = "worker" /\ WorkerStep /\ Others

Rest == UNCHANGED <<sndVars, rcvVars, ackVars, sbVars, rbVars, heapVars, listVars, workerVars, subject>>

Epoll == subject = "epoll" /\ EpStep /\ Rest

Next == Resends \/ Losses \/ Acks \/ Sender \/ Receiver \/ Heap \/ List \/ Worker \/ Epoll

\* The threads run, and time passes.
Spec ==
  /\ Init /\ [][Next]_vars
  /\ WF_vars(subject = "worker" /\ WorkerRun /\ Others)
  /\ WF_vars(subject = "worker" /\ WorkerTick /\ Others)
  /\ WF_vars(subject = "epoll" /\ EpCalls /\ Rest)
  /\ WF_vars(subject = "epoll" /\ takesBack /\ Rest)
  /\ WF_vars(subject = "epoll" /\ tells /\ Rest)
  /\ WF_vars(subject = "epoll" /\ EpCollector /\ Rest)

\* Whatever order the application's thread and the worker meet in, over the
\* heap, the event and the time of the sleep they write without a lock: a
\* socket with something to send is served or dropped, and the worker ends
\* when ~CSndQueue, which waits for it, asks it to.
WorkerServes ==
  /\ \A u \in Talkers : (due[u] # NotListed) ~> (due[u] = NotListed)
  /\ closing ~> (worker.at = "exit")
=============================================================================
