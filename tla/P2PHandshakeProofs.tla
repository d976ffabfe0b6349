------------------------- MODULE P2PHandshakeProofs -------------------------
(***************************************************************************)
(* Machine-checked proofs about P2PHandshake, for any number of machines,  *)
(* runs and datagrams and for any timeout.  The argument: an ACK in the    *)
(* network is evidence that its sender settled on its addressee, and a run *)
(* that settled never changes its mind, so the evidence stays true.        *)
(***************************************************************************)
EXTENDS P2PHandshake, TLAPS

\* What a datagram of the network says about its sender.
NetInv ==
  \A m \in net :
    /\ m.type = "HELLO" => m.ip = HostOf[m.id]
    /\ m.type = "ACK" => /\ m.ip = HostOf[m.fromId]
                         /\ m.dest = HostOf[m.toId]
                         /\ m.fromId # m.toId
                         /\ havePeer[m.fromId]
                         /\ peerId[m.fromId] = m.toId
                         /\ sawHello[m.fromId]

\* What the flags of a run say about its peer and about the network.
PeerInv ==
  \A i \in Ids :
    /\ havePeer[i] => /\ peerId[i] \in Ids \ {i}
                      /\ peerIp[i] = HostOf[peerId[i]]
    /\ ~havePeer[i] => peerId[i] = NoId
    /\ sawHello[i] => /\ havePeer[i]
                      /\ Ack(i, peerId[i], HostOf[peerId[i]]) \in net
    /\ sawAck[i] => /\ havePeer[i]
                    /\ Ack(peerId[i], i, HostOf[i]) \in net
    /\ pc[i] = "ok" => Success(i)

IInv == TypeOK /\ NetInv /\ PeerInv

USE DEF HelloMsg, AckMsg

\* The initial state has the declared types.
LEMMA TypeInit == Init => TypeOK
  BY DEF Init, TypeOK

\* No step leaves them: what is sent are HELLOs and ACKs, what is adopted is a
\* run and its address.
LEMMA TypeStep == TypeOK /\ [Next]_vars => TypeOK'
<1> SUFFICES ASSUME TypeOK, [Next]_vars PROVE TypeOK'
  OBVIOUS
<1> USE IdsAssumption, TimeAssumption DEF TypeOK
<1>1. ASSUME NEW i \in Ids, Start(i) \/ SetupFails(i) PROVE TypeOK'
  BY <1>1 DEF Start, SetupFails, peerVars
<1>2. ASSUME NEW i \in Ids, LoopTop(i) PROVE TypeOK'
  <2>1. Hello(i) \in HelloMsg
    BY DEF Hello
  <2>2. net' \subseteq HelloMsg \cup AckMsg /\ helloAt' \in [Ids -> Nat]
    BY <1>2, <2>1 DEF LoopTop, SendHello
  <2> QED BY <1>2, <2>2 DEF LoopTop, peerVars
<1>3. ASSUME NEW i \in Ids, NothingToRead(i) PROVE TypeOK'
  BY <1>3 DEF NothingToRead, peerVars
<1>4. ASSUME NEW i \in Ids, NEW m \in net, RecvHello(i, m) PROVE TypeOK'
  <2>1. m \in HelloMsg
    BY <1>4 DEF RecvHello
  <2>2. Ack(i, m.id, m.ip) \in AckMsg
    BY <2>1 DEF Ack
  <2>3. /\ havePeer' \in [Ids -> BOOLEAN]
        /\ peerId' \in [Ids -> Ids \cup {NoId}]
        /\ peerIp' \in [Ids -> Hosts \cup {NoIp}]
    BY <1>4, <2>1 DEF RecvHello, Adopt
  <2>4. sawHello' \in [Ids -> BOOLEAN] /\ net' \subseteq HelloMsg \cup AckMsg
    <3>1. CASE peerId'[i] = m.id
      BY <1>4, <2>2, <3>1 DEF RecvHello
    <3>2. CASE peerId'[i] # m.id
      BY <1>4, <3>2 DEF RecvHello
    <3> QED BY <3>1, <3>2
  <2> QED BY <1>4, <2>3, <2>4 DEF RecvHello
<1>5. ASSUME NEW i \in Ids, NEW m \in net, RecvAck(i, m) PROVE TypeOK'
  <2>1. m \in AckMsg
    BY <1>5 DEF RecvAck
  <2> QED BY <1>5, <2>1 DEF RecvAck, Adopt
<1>6. ASSUME NEW i \in Ids, Tick(i) PROVE TypeOK'
  BY <1>6 DEF Tick, peerVars
<1>7. CASE UNCHANGED vars
  BY <1>7 DEF vars, peerVars
<1> QED BY <1>1, <1>2, <1>3, <1>4, <1>5, <1>6, <1>7 DEF Next, Recv

\* Every state of the handshake has the declared types, the network included:
\* nothing but HELLOs and ACKs is ever sent.
THEOREM TypeCorrect == Spec => []TypeOK
  BY TypeInit, TypeStep, PTL DEF Spec

\* No datagram and no choice to begin with.
LEMMA InvInit == Init => IInv
  BY TypeInit, IdsAssumption DEF Init, IInv, NetInv, PeerInv

\* What adopting a peer does: choices already made stay, nobody but i makes
\* one, and i ends with a peer other than itself, at that peer's address.
Adopted(i) ==
  /\ \A k \in Ids : havePeer[k] => /\ havePeer'[k]
                                   /\ peerId'[k] = peerId[k]
                                   /\ peerIp'[k] = peerIp[k]
  /\ \A k \in Ids \ {i} : /\ havePeer'[k] = havePeer[k]
                          /\ peerId'[k] = peerId[k]
                          /\ peerIp'[k] = peerIp[k]
  /\ havePeer'[i]
  /\ peerId'[i] \in Ids \ {i}
  /\ peerIp'[i] = HostOf[peerId'[i]]

LEMMA AdoptFacts ==
  ASSUME TypeOK, PeerInv, NEW i \in Ids, NEW j \in Ids \ {i},
         Adopt(i, j, HostOf[j])
  PROVE  Adopted(i)
<1>1. CASE havePeer[i]
  BY <1>1 DEF Adopted, TypeOK, PeerInv, Adopt
<1>2. CASE ~havePeer[i]
  BY <1>2 DEF Adopted, TypeOK, PeerInv, Adopt
<1> QED BY <1>1, <1>2

\* Every step keeps the evidence: a choice is never changed, and an ACK is sent
\* by nobody but a run that chose the one it is for.
LEMMA InvStep == IInv /\ [Next]_vars => IInv'
<1> SUFFICES ASSUME IInv, [Next]_vars PROVE NetInv' /\ PeerInv'
  BY TypeStep DEF IInv
<1> USE IdsAssumption
<1>0. TypeOK /\ NetInv /\ PeerInv
  BY DEF IInv
<1>1. ASSUME NEW i \in Ids, Start(i) \/ SetupFails(i) PROVE NetInv' /\ PeerInv'
  BY <1>0, <1>1 DEF Start, SetupFails, peerVars, TypeOK, NetInv, PeerInv, Success
<1>2. ASSUME NEW i \in Ids, LoopTop(i) PROVE NetInv' /\ PeerInv'
  <2>1. net' \subseteq net \cup {Hello(i)} /\ net \subseteq net'
    BY <1>2 DEF LoopTop, SendHello
  <2>2. NetInv'
    BY <1>0, <1>2, <2>1 DEF LoopTop, peerVars, NetInv, Hello
  <2>3. PeerInv'
    BY <1>0, <1>2, <2>1 DEF LoopTop, peerVars, TypeOK, PeerInv, Success
  <2> QED BY <2>2, <2>3
<1>3. ASSUME NEW i \in Ids, NothingToRead(i) PROVE NetInv' /\ PeerInv'
  BY <1>0, <1>3 DEF NothingToRead, peerVars, TypeOK, NetInv, PeerInv, Success
<1>4. ASSUME NEW i \in Ids, NEW m \in net, RecvHello(i, m)
      PROVE  NetInv' /\ PeerInv'
  <2>1. m \in HelloMsg /\ m.id \in Ids \ {i} /\ m.ip = HostOf[m.id]
    BY <1>0, <1>4 DEF RecvHello, TypeOK, NetInv
  <2>2. Adopt(i, m.id, HostOf[m.id])
    BY <1>4, <2>1 DEF RecvHello
  <2>a. Adopted(i)
    BY <1>0, <2>1, <2>2, AdoptFacts
  <2>3. CASE peerId'[i] = m.id
    <3>1. /\ net' = net \cup {Ack(i, m.id, HostOf[m.id])}
          /\ sawHello' = [sawHello EXCEPT ![i] = TRUE]
          /\ UNCHANGED <<pc, sawAck>>
      BY <1>4, <2>1, <2>3 DEF RecvHello
    <3>2. NetInv'
      BY <1>0, <2>1, <2>a, <2>3, <3>1 DEF Adopted, NetInv, Ack, TypeOK
    <3>3. PeerInv'
      BY <1>0, <2>1, <2>a, <2>3, <3>1 DEF Adopted, PeerInv, Success, TypeOK
    <3> QED BY <3>2, <3>3
  <2>4. CASE peerId'[i] # m.id
    <3>1. UNCHANGED <<pc, sawAck, sawHello, net>>
      BY <1>4, <2>4 DEF RecvHello
    <3>2. NetInv'
      BY <1>0, <2>1, <2>a, <3>1 DEF Adopted, NetInv, TypeOK
    <3>3. PeerInv'
      BY <1>0, <2>1, <2>a, <3>1 DEF Adopted, PeerInv, Success, TypeOK
    <3> QED BY <3>2, <3>3
  <2> QED BY <2>3, <2>4
<1>5. ASSUME NEW i \in Ids, NEW m \in net, RecvAck(i, m)
      PROVE  NetInv' /\ PeerInv'
  <2>1. /\ m \in AckMsg /\ m.toId = i
        /\ m.fromId \in Ids \ {i} /\ m.ip = HostOf[m.fromId]
        /\ m = Ack(m.fromId, i, HostOf[i])
    BY <1>0, <1>5 DEF RecvAck, TypeOK, NetInv, Ack
  <2>2. Adopt(i, m.fromId, HostOf[m.fromId])
    BY <1>5, <2>1 DEF RecvAck
  <2>a. Adopted(i)
    BY <1>0, <2>1, <2>2, AdoptFacts
  <2>3. /\ UNCHANGED <<pc, sawHello, net>>
        /\ \/ sawAck' = [sawAck EXCEPT ![i] = TRUE] /\ peerId'[i] = m.fromId
           \/ UNCHANGED sawAck
    BY <1>5 DEF RecvAck
  <2>4. NetInv'
    BY <1>0, <2>1, <2>a, <2>3 DEF Adopted, NetInv, TypeOK
  <2>5. PeerInv'
    BY <1>0, <2>1, <2>a, <2>3 DEF Adopted, PeerInv, Success, TypeOK
  <2> QED BY <2>4, <2>5
<1>6. ASSUME NEW i \in Ids, Tick(i) PROVE NetInv' /\ PeerInv'
  BY <1>0, <1>6 DEF Tick, peerVars, NetInv, PeerInv, Success
<1>7. CASE UNCHANGED vars
  BY <1>0, <1>7 DEF vars, peerVars, NetInv, PeerInv, Success
<1> QED BY <1>1, <1>2, <1>3, <1>4, <1>5, <1>6, <1>7 DEF Next, Recv

\* The inductive invariant holds throughout every execution of the handshake.
THEOREM Invariance == Spec => []IInv
  BY InvInit, InvStep, PTL DEF Spec

\* A successful run's peer settled on that run: the ACK that made it succeed
\* is evidence (p2p_dll.cpp:170-174), and the evidence never goes stale.
THEOREM Agreement == Spec => []PeerAgreement
<1>1. ASSUME IInv, NEW i \in Ids, pc[i] = "ok"
      PROVE  peerId[i] \in Ids /\ peerId[peerId[i]] = i
  <2>1. havePeer[i] /\ Ack(peerId[i], i, HostOf[i]) \in net
    BY <1>1 DEF IInv, PeerInv, Success
  <2> QED BY <1>1, <2>1 DEF IInv, NetInv, PeerInv, Ack
<1>2. IInv => PeerAgreement
  BY <1>1 DEF PeerAgreement
<1> QED BY <1>2, Invariance, PTL

\* The peer of a run that succeeded and closed its socket lacks one datagram
\* at most, and that datagram was sent (p2p_dll.cpp:133, 172-173).
THEOREM PeerOwedOnlyAck == Spec => []OnlyAckMissing
<1>1. ASSUME IInv, NEW i \in Ids, pc[i] = "ok"
      PROVE  /\ sawHello[peerId[i]]
             /\ Ack(i, peerId[i], HostOf[peerId[i]]) \in net
  <2>1. /\ Ack(peerId[i], i, HostOf[i]) \in net
        /\ Ack(i, peerId[i], HostOf[peerId[i]]) \in net
    BY <1>1 DEF IInv, PeerInv, Success
  <2> QED BY <1>1, <2>1 DEF IInv, NetInv, Ack
<1>2. IInv => OnlyAckMissing
  BY <1>1 DEF OnlyAckMissing
<1> QED BY <1>2, Invariance, PTL

\* The address a run reports belongs to the peer it chose (p2p_dll.cpp:164-169,
\* 185-190).
THEOREM AddressCorrect == Spec => []PeerIpIsPeers
<1>1. IInv => PeerIpIsPeers
  BY DEF IInv, PeerInv, PeerIpIsPeers
<1> QED BY <1>1, Invariance, PTL

\* No step of the program touches a peer that was already chosen.
LEMMA ChoiceKept ==
  ASSUME IInv, [Next]_vars, NEW k \in Ids, havePeer[k]
  PROVE  havePeer'[k] /\ peerId'[k] = peerId[k] /\ peerIp'[k] = peerIp[k]
<1>1. ASSUME NEW i \in Ids, NEW j, NEW ip, Adopt(i, j, ip)
      PROVE  havePeer'[k] /\ peerId'[k] = peerId[k] /\ peerIp'[k] = peerIp[k]
  BY <1>1 DEF Adopt, IInv, TypeOK
<1>2. \/ UNCHANGED <<havePeer, peerId, peerIp>>
      \/ \E i \in Ids : \E j, ip : Adopt(i, j, ip)
  BY DEF Next, Start, SetupFails, LoopTop, NothingToRead, Recv, RecvHello,
         RecvAck, Tick, vars, peerVars
<1> QED BY <1>1, <1>2

\* A run never changes its peer (p2p_dll.cpp:164, 185).
THEOREM PeerIsStable == Spec => PeerNeverChanges
<1>1. IInv /\ [Next]_vars =>
        [\A i \in Ids : havePeer[i] => /\ havePeer'[i]
                                      /\ peerId'[i] = peerId[i]
                                      /\ peerIp'[i] = peerIp[i]]_vars
  BY ChoiceKept
<1> QED BY <1>1, Invariance, PTL DEF Spec, PeerNeverChanges

-----------------------------------------------------------------------------
(* Refinement: a step of the handshake is a step of Pairing or changes      *)
(* neither the choices nor the successful runs.                             *)


\* Reading the datagram that decides who the peer is chooses, leaving the loop
\* with success pairs, everything else stutters.
LEMMA AbstractStep ==
  IInv /\ [Next]_vars => [Abstract!PairingNext]_(Abstract!pairingVars)
<1> SUFFICES ASSUME IInv, [Next]_vars
             PROVE  [Abstract!PairingNext]_(Abstract!pairingVars)
  OBVIOUS
<1> USE DEF Abstract!pairingVars
<1>0. TypeOK /\ NetInv /\ PeerInv
  BY DEF IInv
<1>1. ASSUME NEW i \in Ids, Start(i) \/ SetupFails(i) PROVE UNCHANGED Abstract!pairingVars
  BY <1>0, <1>1 DEF Start, SetupFails, peerVars, TypeOK
<1>2. ASSUME NEW i \in Ids, LoopTop(i)
      PROVE  Abstract!Pair(i) \/ UNCHANGED Abstract!pairingVars
  <2>1. UNCHANGED peerId
    BY <1>2 DEF LoopTop, peerVars
  <2>2. CASE Success(i)
    <3>1. peerId[i] \in Ids /\ peerId[peerId[i]] = i
      BY <1>0, <2>2 DEF Success, PeerInv, NetInv, Ack
    <3>2. {k \in Ids : pc'[k] = "ok"} = {k \in Ids : pc[k] = "ok"} \cup {i}
      BY <1>0, <1>2, <2>2 DEF LoopTop, TypeOK
    <3> QED BY <2>1, <3>1, <3>2 DEF Abstract!Pair
  <2>3. CASE ~Success(i)
    <3>1. {k \in Ids : pc'[k] = "ok"} = {k \in Ids : pc[k] = "ok"}
      BY <1>0, <1>2, <2>3 DEF LoopTop, TypeOK
    <3> QED BY <2>1, <3>1
  <2> QED BY <2>2, <2>3
<1>3. ASSUME NEW i \in Ids, NothingToRead(i)
      PROVE  UNCHANGED Abstract!pairingVars
  BY <1>0, <1>3 DEF NothingToRead, peerVars, TypeOK
<1>4. ASSUME NEW i \in Ids, NEW j \in Ids \ {i}, NEW ip, Adopt(i, j, ip),
             UNCHANGED pc
      PROVE  Abstract!Choose(i, j) \/ UNCHANGED Abstract!pairingVars
  <2>1. CASE havePeer[i]
    BY <1>4, <2>1 DEF Adopt
  <2>2. CASE ~havePeer[i]
    <3>1. peerId[i] = NoId /\ peerId' = [peerId EXCEPT ![i] = j]
      BY <1>0, <1>4, <2>2 DEF Adopt, PeerInv
    <3>2. [k \in Ids |-> peerId'[k]]
            = [[k \in Ids |-> peerId[k]] EXCEPT ![i] = j]
      BY <1>0, <3>1 DEF TypeOK
    <3> QED BY <1>4, <3>1, <3>2 DEF Abstract!Choose
  <2> QED BY <2>1, <2>2
<1>5. ASSUME NEW i \in Ids, NEW m \in net, RecvHello(i, m) \/ RecvAck(i, m)
      PROVE  \/ \E j \in Ids : Abstract!Choose(i, j)
             \/ UNCHANGED Abstract!pairingVars
  <2>1. \E j \in Ids \ {i} : \E ip : Adopt(i, j, ip) /\ UNCHANGED pc
    BY <1>0, <1>5 DEF RecvHello, RecvAck, TypeOK, NetInv, HelloMsg, AckMsg
  <2> QED BY <1>4, <2>1
<1>6. ASSUME NEW i \in Ids, Tick(i) PROVE UNCHANGED Abstract!pairingVars
  BY <1>0, <1>6 DEF Tick, peerVars, TypeOK
<1>7. CASE UNCHANGED vars
  BY <1>7 DEF vars, peerVars
<1> QED
  BY <1>1, <1>2, <1>3, <1>5, <1>6, <1>7 DEF Next, Recv, Abstract!PairingNext

\* The handshake implements Pairing: it never pairs a run with a partner that
\* has not settled on it.
THEOREM Refinement == Spec => ImplementsPairing
<1>1. Init => Abstract!PairingInit
  BY DEF Init, Abstract!PairingInit
<1> QED
  BY <1>1, AbstractStep, Invariance, PTL
  DEF Spec, ImplementsPairing, Abstract!PairingSpec
=============================================================================
