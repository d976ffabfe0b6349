---------------------------- MODULE P2PHandshake ----------------------------
(***************************************************************************)
(* Peer discovery: RunP2PHandshake of src/src/p2p_dll.cpp.  Each run of    *)
(* the program draws a fresh identifier, shouts HELLO on the local network *)
(* once per interval, answers the HELLO of the peer it settled on with an  *)
(* ACK, and succeeds when it has both seen its peer's HELLO and received   *)
(* its peer's ACK before the time is up.                                   *)
(*                                                                         *)
(* The UDP network is the set of the datagrams sent so far: a datagram of  *)
(* the set may be read never (lost), late, out of order or many times      *)
(* (every HELLO goes out by broadcast and by multicast), by any run it is  *)
(* addressed to, its own sender included.                                  *)
(***************************************************************************)
EXTENDS Naturals

CONSTANTS
  Ids,              \* identifiers gen_id() can draw, one per run
  Hosts,            \* IPv4 addresses of the machines
  HostOf,           \* the machine each run takes place on
  NoId,             \* peerId before a peer is chosen
  NoIp,             \* peerIp before a peer is chosen: the empty string
  HELLO_INTERVAL,   \* HELLO_INTERVAL_MS, in ticks of the model's clock
  TIMEOUT,          \* TIMEOUT_MS, in ticks
  MaxNow            \* bound: no clock of a run is followed beyond MaxNow

ASSUME IdsAssumption ==
  /\ NoId \notin Ids
  /\ NoIp \notin Hosts
  /\ HostOf \in [Ids -> Hosts]

ASSUME TimeAssumption ==
  /\ HELLO_INTERVAL \in Nat \ {0}
  /\ TIMEOUT \in Nat
  /\ MaxNow \in Nat

VARIABLES
  pc,          \* pc[i]: "off", "top" (of the for loop), "recv", "ok", "failed"
  havePeer,    \* havePeer[i]: i settled on a peer
  peerId,      \* peerId[i]
  peerIp,      \* peerIp[i]
  sawHello,    \* sawHello[i]: a HELLO of the peer was read
  sawAck,      \* sawAck[i]: an ACK of the peer to i was read
  now,         \* now[i]: ticks since the run began
  helloAt,     \* helloAt[i]: ticks of the next HELLO (lastHello + interval)
  net          \* datagrams sent so far

peerVars == <<havePeer, peerId, peerIp, sawHello, sawAck>>
vars == <<pc, peerVars, now, helloAt, net>>

-----------------------------------------------------------------------------
(* Datagrams.  "ip" is the source address recvfrom reports. *)

Hello(i) == [type |-> "HELLO", id |-> i, ip |-> HostOf[i]]
Ack(i, j, dest) ==
  [type |-> "ACK", fromId |-> i, toId |-> j, ip |-> HostOf[i], dest |-> dest]

HelloMsg == [type : {"HELLO"}, id : Ids, ip : Hosts]
AckMsg == [type : {"ACK"}, fromId : Ids, toId : Ids, ip : Hosts, dest : Hosts]

\* The datagrams that can reach a run: HELLOs go to everyone, an ACK is sent
\* to the address of the run it answers.
Reaches(m, i) == m.type = "ACK" => m.dest = HostOf[i]

Running(i) == pc[i] \in {"top", "recv"}
-----------------------------------------------------------------------------

TypeOK ==
  /\ pc \in [Ids -> {"off", "top", "recv", "ok", "failed"}]
  /\ havePeer \in [Ids -> BOOLEAN]
  /\ peerId \in [Ids -> Ids \cup {NoId}]
  /\ peerIp \in [Ids -> Hosts \cup {NoIp}]
  /\ sawHello \in [Ids -> BOOLEAN]
  /\ sawAck \in [Ids -> BOOLEAN]
  /\ now \in [Ids -> Nat]
  /\ helloAt \in [Ids -> Nat]
  /\ net \subseteq HelloMsg \cup AckMsg

Init ==
  /\ pc = [i \in Ids |-> "off"]
  /\ havePeer = [i \in Ids |-> FALSE]
  /\ peerId = [i \in Ids |-> NoId]
  /\ peerIp = [i \in Ids |-> NoIp]
  /\ sawHello = [i \in Ids |-> FALSE]
  /\ sawAck = [i \in Ids |-> FALSE]
  /\ now = [i \in Ids |-> 0]
  /\ helloAt = [i \in Ids |-> 0]
  /\ net = {}

\* The user starts the program: the socket is bound and the identifier drawn.
\* SO_REUSEADDR lets a machine have several runs at a time, or one by one.
Start(i) ==
  /\ pc[i] = "off"
  /\ pc' = [pc EXCEPT ![i] = "top"]
  /\ UNCHANGED <<peerVars, now, helloAt, net>>

\* Winsock, the socket, its address or the event are refused.
SetupFails(i) ==
  /\ pc[i] = "off"
  /\ pc' = [pc EXCEPT ![i] = "failed"]
  /\ UNCHANGED <<peerVars, now, helloAt, net>>

\* (mutant: a HELLO of the peer is not waited for)
SuccessOnAck(i) == sawAck[i] /\ havePeer[i] /\ peerIp[i] # NoIp
Success(i) == sawHello[i] /\ sawAck[i] /\ havePeer[i] /\ peerIp[i] # NoIp

\* Top of the for loop: HELLO when it is due, then the timeout, then success.
\* A run that leaves the loop returns Success, whatever made it leave.
SendHello(i) ==
  IF now[i] >= helloAt[i]
  THEN /\ net' = net \cup {Hello(i)}
       /\ helloAt' = [helloAt EXCEPT ![i] = now[i] + HELLO_INTERVAL]
  ELSE UNCHANGED <<net, helloAt>>

\* (mutant: the loop is left on success only)
LoopTopForever(i) ==
  /\ pc[i] = "top"
  /\ SendHello(i)
  /\ pc' = [pc EXCEPT ![i] = IF Success(i) THEN "ok" ELSE "recv"]
  /\ UNCHANGED <<peerVars, now>>

LoopTop(i) ==
  /\ pc[i] = "top"
  /\ SendHello(i)
  /\ pc' = [pc EXCEPT ![i] =
              IF Success(i) THEN "ok"
              ELSE IF now[i] > TIMEOUT THEN "failed" ELSE "recv"]
  /\ UNCHANGED <<peerVars, now>>

\* recvfrom reports WSAEWOULDBLOCK, or the wait ends with nothing to read.
NothingToRead(i) ==
  /\ pc[i] = "recv"
  /\ pc' = [pc EXCEPT ![i] = "top"]
  /\ UNCHANGED <<peerVars, now, helloAt, net>>

\* "if (!havePeer)": the first HELLO or ACK decides who the peer is.
Adopt(i, j, ip) ==
  IF havePeer[i]
  THEN UNCHANGED <<havePeer, peerId, peerIp>>
  ELSE /\ havePeer' = [havePeer EXCEPT ![i] = TRUE]
       /\ peerId' = [peerId EXCEPT ![i] = j]
       /\ peerIp' = [peerIp EXCEPT ![i] = ip]

\* (mutant: every HELLO is answered)
RecvHelloAckAll(i, m) ==
  /\ pc[i] = "recv"
  /\ m.type = "HELLO"
  /\ m.id # i
  /\ Adopt(i, m.id, m.ip)
  /\ IF peerId'[i] = m.id
     THEN sawHello' = [sawHello EXCEPT ![i] = TRUE]
     ELSE UNCHANGED sawHello
  /\ net' = net \cup {Ack(i, m.id, m.ip)}
  /\ UNCHANGED <<pc, sawAck, now, helloAt>>

\* (mutant: the run's own HELLO is read like any other)
RecvHelloOwn(i, m) ==
  /\ pc[i] = "recv"
  /\ m.type = "HELLO"
  /\ Adopt(i, m.id, m.ip)
  /\ IF peerId'[i] = m.id
     THEN /\ sawHello' = [sawHello EXCEPT ![i] = TRUE]
          /\ net' = net \cup {Ack(i, m.id, m.ip)}
     ELSE UNCHANGED <<sawHello, net>>
  /\ UNCHANGED <<pc, sawAck, now, helloAt>>

\* A HELLO is read.  The run's own is ignored; the peer's is answered, to the
\* address it came from, every time it is read.
RecvHello(i, m) ==
  /\ pc[i] = "recv"
  /\ m.type = "HELLO"
  /\ m.id # i
  /\ Adopt(i, m.id, m.ip)
  /\ IF peerId'[i] = m.id
     THEN /\ sawHello' = [sawHello EXCEPT ![i] = TRUE]
          /\ net' = net \cup {Ack(i, m.id, m.ip)}
     ELSE UNCHANGED <<sawHello, net>>
  /\ UNCHANGED <<pc, sawAck, now, helloAt>>

\* (mutant: an ACK counts when it decides who the peer is only)
RecvAckAdopting(i, m) ==
  /\ pc[i] = "recv"
  /\ m.type = "ACK"
  /\ m.toId = i
  /\ Adopt(i, m.fromId, m.ip)
  /\ IF ~havePeer[i]
     THEN sawAck' = [sawAck EXCEPT ![i] = TRUE]
     ELSE UNCHANGED sawAck
  /\ UNCHANGED <<pc, sawHello, now, helloAt, net>>

\* An ACK is read.  Only one that names this run counts, and only from the peer.
RecvAck(i, m) ==
  /\ pc[i] = "recv"
  /\ m.type = "ACK"
  /\ m.toId = i
  /\ Adopt(i, m.fromId, m.ip)
  /\ IF peerId'[i] = m.fromId
     THEN sawAck' = [sawAck EXCEPT ![i] = TRUE]
     ELSE UNCHANGED sawAck
  /\ UNCHANGED <<pc, sawHello, now, helloAt, net>>

Recv(i) ==
  \E m \in net : Reaches(m, i) /\ (RecvHello(i, m) \/ RecvAck(i, m))

\* Time passes for a run, at a pace of its own.
Tick(i) ==
  /\ Running(i)
  /\ now[i] < MaxNow
  /\ now' = [now EXCEPT ![i] = @ + 1]
  /\ UNCHANGED <<pc, peerVars, helloAt, net>>

Next ==
  \E i \in Ids : \/ Start(i) \/ SetupFails(i)
                \/ LoopTop(i) \/ NothingToRead(i) \/ Recv(i) \/ Tick(i)

Spec == Init /\ [][Next]_vars

-----------------------------------------------------------------------------
(* Fairness.  A run that is started keeps looping.                         *)
FairSpec ==
  /\ Spec
  /\ \A i \in Ids : WF_vars(LoopTop(i)) /\ WF_vars(NothingToRead(i))

(* The network may lose any datagram, but not all of those that are        *)
(* repeated: while j runs it shouts HELLO once per interval and answers    *)
(* every HELLO of its peer, and i, looping on, reads one of either kind    *)
(* sooner or later.  Nothing is said of what j sent before it left: its    *)
(* last ACK goes out once (p2p_dll.cpp:173, 216).                          *)
HearsWhileRunning(i, j) ==
  /\ SF_vars(Running(j) /\ \E m \in net : Reaches(m, i) /\ m.type = "HELLO"
                                          /\ m.id = j /\ RecvHello(i, m))
  /\ SF_vars(Running(j) /\ \E m \in net : Reaches(m, i) /\ m.type = "ACK"
                                          /\ m.fromId = j /\ RecvAck(i, m))

-----------------------------------------------------------------------------
(* Properties *)

\* A run succeeds only with a peer that settled on it in turn: the ACK a run
\* needs is sent by nobody but its chosen peer, to nobody but the run that
\* peer chose (p2p_dll.cpp:170-174, 183-194).  So two runs never succeed with
\* the same peer, however many machines shout at once.
PeerAgreement ==
  \A i \in Ids : pc[i] = "ok" => /\ peerId[i] \in Ids
                                 /\ peerId[peerId[i]] = i

\* When a run has succeeded and is gone, all its peer can still be missing is
\* one datagram: the peer has seen a HELLO, and the ACK it waits for was sent.
OnlyAckMissing ==
  \A i \in Ids : pc[i] = "ok" =>
    /\ sawHello[peerId[i]]
    /\ Ack(i, peerId[i], HostOf[peerId[i]]) \in net

\* The address handed to main, written to p2pip.txt and uploaded to from then
\* on, is the address of the machine the chosen peer runs on, whichever of
\* the two branches (p2p_dll.cpp:164-169, 185-190) chose it.
PeerIpIsPeers ==
  \A i \in Ids : havePeer[i] => peerIp[i] = HostOf[peerId[i]]

\* A run never changes its peer, even when that peer has gone silent and
\* another machine, or the same machine under a new identifier, is shouting.
PeerNeverChanges ==
  [][\A i \in Ids : havePeer[i] => /\ havePeer'[i]
                                  /\ peerId'[i] = peerId[i]
                                  /\ peerIp'[i] = peerIp[i]]_vars

\* The handshake implements the abstract pairing of runs.
Abstract == INSTANCE Pairing WITH
  Runs <- Ids, NoRun <- NoId,
  choice <- [i \in Ids |-> peerId[i]],
  paired <- {i \in Ids : pc[i] = "ok"}

ImplementsPairing == Abstract!PairingSpec

\* RunP2PHandshake returns: no run loops on when its minute is over, whatever
\* the network does (p2p_dll.cpp:132, "1 minute per run" at :21).
EveryRunEnds ==
  \A i \in Ids :
    (Running(i) /\ now[i] > TIMEOUT) ~> pc[i] \in {"ok", "failed"}

\* Two runs that are started, alone and with time left, do not wait for each
\* other in vain, whichever HELLO or ACK arrives first and decides who the peer
\* is: one of them succeeds.  That both do is more than the code can promise:
\* the first to succeed leaves at once, and the ACK that its peer still waits
\* for (OnlyAckMissing) is not repeated.
OneOfTwoSucceeds(i, j) ==
  /\ HearsWhileRunning(i, j) /\ HearsWhileRunning(j, i)
  /\ <>Running(i) /\ <>Running(j)
  /\ [](\A k \in Ids : IF k \in {i, j} THEN now[k] <= TIMEOUT
                                       ELSE pc[k] = "off")
  => <>(pc[i] = "ok" \/ pc[j] = "ok")
=============================================================================
