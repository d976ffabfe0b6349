------------------------- MODULE SyncTransferProofs -------------------------
(***************************************************************************)
(* Machine-checked proofs about SyncTransfer, for any files, any sizes,    *)
(* any header length and any number of edits.  The argument: the stream    *)
(* only grows and whole headers are appended to it, so that what comes     *)
(* after a FILE header is a name, or nothing ever; hence what the receiver *)
(* takes for a name is the name the header was sent for.                   *)
(***************************************************************************)
EXTENDS SyncTransfer, SequenceTheorems, TLAPS

\* The sender has a file in its hands while it sends one.
SenderInv ==
  /\ spc \in {"header", "name", "open", "read"} => cur \in Files
  /\ spc = "connect" => link = "none"

\* A FILE header is in the stream as a whole.  It is followed by a name, unless
\* the sender is about to send it or never will.
HeaderAt(k) ==
  /\ k + HdrLen <= Len(stream) + 1
  /\ k + HdrLen <= Len(stream) => stream[k + HdrLen] \in NameUnit
  /\ k + HdrLen = Len(stream) + 1 => spc = "name" \/ link = "broken"

StreamInv ==
  \A k \in 1..Len(stream), n \in Nat :
    stream[k] = Head1("FILE", n) => HeaderAt(k)

\* Where the receiver is in the stream.
ReceiverInv ==
  /\ rpc = "name" => /\ rpos >= HdrLen
                     /\ stream[rpos - HdrLen + 1] = Head1("FILE", rsize)
  /\ rpc \in {"data", "open", "write"} => /\ rfile \in Files
                                         /\ offset <= rsize
                                         /\ offset <= rpos
  /\ rpc \in {"open", "write"} => offset = rsize

IInv ==
  /\ TypeOK
  /\ arrives <= Len(stream)
  /\ SenderInv
  /\ StreamInv
  /\ ReceiverInv

-----------------------------------------------------------------------------
(* Headers, and the stream they are appended to *)

\* A header is HdrLen units, of which the first alone says what it is.
LEMMA HeaderUnits ==
  ASSUME NEW op \in Ops, NEW n \in Nat
  PROVE  /\ Header(op, n) \in Seq(Unit)
         /\ Len(Header(op, n)) = HdrLen
         /\ Header(op, n)[1] = Head1(op, n)
         /\ \A j \in 2..HdrLen : Header(op, n)[j] \in RestUnit
<1> USE SizesAssumption
<1>1. Head1(op, n) \in Unit /\ [kind |-> "rest"] \in RestUnit
  BY DEF Head1, Unit, HeadUnit, RestUnit
<1>2. [kind |-> "rest"] \in Unit
  BY <1>1 DEF Unit
<1>3. Header(op, n) \in [1..HdrLen -> Unit]
  BY <1>1, <1>2 DEF Header
<1>4. Header(op, n) \in Seq(Unit)
  BY <1>3, SeqDef
<1>5. Len(Header(op, n)) = HdrLen
  BY <1>4 DEF Header
<1> QED BY <1>1, <1>4, <1>5 DEF Header

\* What a step does to the stream: nothing, and then a sender that owes a name
\* still owes it or has lost the connection; or a header, a name or a unit of
\* data is appended over a connection that is up.
Stays == UNCHANGED stream /\ (spc = "name" => spc' = "name" \/ link = "broken")

AppendsHeader ==
  /\ link = "up" /\ spc # "name"
  /\ \E op \in Ops, n \in Nat : /\ stream' = stream \o Header(op, n)
                                /\ op = "FILE" => spc' = "name"

AppendsName == link = "up" /\ cur \in Files /\ stream' = stream \o <<Name(cur)>>

AppendsData ==
  /\ link = "up" /\ spc # "name"
  /\ \E u \in DataUnit : stream' = stream \o <<u>>

LEMMA StreamStep ==
  ASSUME TypeOK, SenderInv, [Next]_vars
  PROVE  Stays \/ AppendsHeader \/ AppendsName \/ AppendsData
<1> USE DEF TypeOK
<1>1. CASE Measure
  <2>1. CASE SendAll(Header("HELLO", 0))
    BY <1>1, <2>1 DEF Measure, SendAll, AppendsHeader, Ops
  <2>2. CASE UNCHANGED stream
    BY <1>1, <2>2 DEF Measure, Stays
  <2> QED BY <1>1, <2>1, <2>2 DEF Measure, Die, SendFails
<1>2. CASE SendHeader
  <2>1. CASE UNCHANGED stream
    BY <1>2, <2>1 DEF SendHeader, Stays
  <2>2. CASE SendAll(Header("FILE", desk[cur].len)) /\ spc' = "name"
    <3>1. cur \in Files
      BY <1>2 DEF SendHeader, SenderInv
    <3>2. desk[cur].len \in Nat
      BY <3>1
    <3>3. spc # "name"
      BY <1>2 DEF SendHeader
    <3> QED BY <2>2, <3>2, <3>3 DEF SendAll, AppendsHeader, Ops
  <2> QED BY <1>2, <2>1, <2>2 DEF SendHeader, Die, SendFails
<1>3. CASE SendName
  BY <1>3 DEF SendName, SenderInv, SendAll, SendFails, AppendsName, Stays
<1>4. CASE ReadBlock
  <2>1. CASE UNCHANGED stream
    BY <1>4, <2>1 DEF ReadBlock, Stays
  <2>2. CASE SendAll(<<Data(cur, desk[cur].ver, pos + 1)>>)
    <3>1. cur \in Files
      BY <1>4 DEF ReadBlock, SenderInv
    <3>2. desk[cur].ver \in Nat /\ pos + 1 \in Nat
      BY <3>1
    <3>3. Data(cur, desk[cur].ver, pos + 1) \in DataUnit
      BY <3>1, <3>2 DEF Data, DataUnit
    <3>4. spc # "name"
      BY <1>4 DEF ReadBlock
    <3> QED BY <2>2, <3>3, <3>4 DEF SendAll, AppendsData
  <2> QED BY <1>4, <2>1, <2>2 DEF ReadBlock, SendFails
<1>5. CASE SendEnd
  <2>1. CASE SendAll(Header("END", 0))
    BY <1>5, <2>1 DEF SendEnd, SendAll, AppendsHeader, Ops
  <2>2. CASE UNCHANGED stream
    BY <1>5, <2>2 DEF SendEnd, Stays
  <2> QED BY <1>5, <2>1, <2>2 DEF SendEnd, SendFails
<1>6. CASE Connect \/ Collect \/ Pick \/ OpenFile \/ Close
  BY <1>6 DEF Connect, Collect, Pick, OpenFile, Close, Stays
<1>7. CASE \/ Receiver \/ ShutdownArrives \/ Environment \/ UNCHANGED vars
  BY <1>7 DEF Receiver, Accept, RecvHeader, RecvName, RecvData, OpenTarget,
       WriteTarget, CloseClient, ShutdownArrives, Environment, LinkBreaks,
       EditFile, DeleteFile, vars, senderVars, Stays
<1> QED BY <1>1, <1>2, <1>3, <1>4, <1>5, <1>6, <1>7 DEF Next, Sender

\* What is appended comes after what is there.
LEMMA Appended ==
  ASSUME TypeOK, NEW p \in Seq(Unit), stream' = stream \o p
  PROVE  /\ stream' \in Seq(Unit)
         /\ Len(stream') = Len(stream) + Len(p)
         /\ \A k \in 1..Len(stream) : stream'[k] = stream[k]
         /\ \A k \in 1..Len(p) : stream'[Len(stream) + k] = p[k]
<1>1. stream \in Seq(Unit) /\ Len(stream) \in Nat /\ Len(p) \in Nat
  BY LenProperties DEF TypeOK
<1>2. /\ stream' \in Seq(Unit)
      /\ Len(stream') = Len(stream) + Len(p)
      /\ \A k \in 1..Len(stream) + Len(p) :
           stream'[k] = IF k <= Len(stream) THEN stream[k] ELSE p[k - Len(stream)]
  BY <1>1, ConcatProperties
<1>3. ASSUME NEW k \in 1..Len(stream) PROVE stream'[k] = stream[k]
  BY <1>1, <1>2
<1>4. ASSUME NEW k \in 1..Len(p) PROVE stream'[Len(stream) + k] = p[k]
  <2>1. /\ Len(stream) + k \in 1..Len(stream) + Len(p)
        /\ ~(Len(stream) + k <= Len(stream))
        /\ Len(stream) + k - Len(stream) = k
    BY <1>1
  <2> QED BY <1>2, <2>1
<1> QED BY <1>2, <1>3, <1>4

LEMMA UnitIsSeq == ASSUME NEW u \in Unit PROVE <<u>> \in Seq(Unit) /\ Len(<<u>>) = 1
  OBVIOUS

\* What was sent stays sent.
Extends(s, t) ==
  /\ t \in Seq(Unit)
  /\ Len(s) <= Len(t)
  /\ \A k \in 1..Len(s) : t[k] = s[k]

LEMMA StreamGrows ==
  ASSUME TypeOK, SenderInv, [Next]_vars
  PROVE  Extends(stream, stream')
<1>1. Len(stream) \in Nat
  BY LenProperties DEF TypeOK
<1>2. ASSUME NEW p \in Seq(Unit), stream' = stream \o p
      PROVE  Extends(stream, stream')
  <2>1. Len(p) \in Nat
    BY LenProperties
  <2> QED BY <1>1, <1>2, <2>1, Appended DEF Extends
<1>3. CASE Stays
  BY <1>1, <1>3 DEF Stays, Extends, TypeOK
<1>4. CASE AppendsHeader
  BY <1>2, <1>4, HeaderUnits DEF AppendsHeader
<1>5. CASE AppendsName
  <2>1. Name(cur) \in Unit
    BY <1>5 DEF AppendsName, Name, NameUnit, Unit
  <2> QED BY <1>2, <1>5, <2>1, UnitIsSeq DEF AppendsName
<1>6. CASE AppendsData
  BY <1>2, <1>6, UnitIsSeq DEF AppendsData, Unit
<1> QED BY <1>3, <1>4, <1>5, <1>6, StreamStep

-----------------------------------------------------------------------------
(* Types *)

LEMMA TypeInit == Init => TypeOK /\ arrives <= Len(stream)
<1> SUFFICES ASSUME Init PROVE TypeOK /\ arrives <= Len(stream)
  OBVIOUS
<1>1. <<>> \in Seq(Unit) /\ Len(<<>>) = 0
  BY EmptySeq
<1>2. desk \in [Files -> [ver : Nat, len : Nat]]
  <2>1. desk \in [Files -> [ver : {1}, len : Sizes]]
    BY DEF Init
  <2>2. [ver : {1}, len : Sizes] \subseteq [ver : Nat, len : Nat]
    <3> SUFFICES ASSUME NEW v \in {1}, NEW n \in Sizes
                 PROVE  [ver |-> v, len |-> n] \in [ver : Nat, len : Nat]
      OBVIOUS
    <3> QED BY SizesAssumption
  <2> QED BY <2>1, <2>2
<1>3. peer \in [Files -> [state : {"none", "half", "full"}, units : Seq(Unit)]]
  BY <1>1 DEF Init, NotReceived
<1>4. rpos \in 0..Len(stream) /\ arrives <= Len(stream) /\ stream \in Seq(Unit)
  BY <1>1 DEF Init
<1> QED BY <1>2, <1>3, <1>4 DEF Init, TypeOK

\* The units written are the ones received last, all of them in the stream.
LEMMA WrittenUnits ==
  ASSUME TypeOK, ReceiverInv, rpc = "write"
  PROVE  LET s == SubSeq(stream, rpos - rsize + 1, rpos)
         IN  s \in Seq(Unit) /\ Len(s) = rsize
<1> DEFINE m == rpos - rsize + 1
<1>1. rsize \in Nat /\ rpos \in Nat /\ rsize <= rpos /\ rpos <= Len(stream)
  BY LenProperties DEF TypeOK, ReceiverInv
<1>2. m \in 1..Len(stream) + 1 /\ m \in Int /\ rpos \in Int
  BY <1>1
<1>3. \A i \in m..rpos : stream[i] \in Unit
  <2> SUFFICES ASSUME NEW i \in m..rpos PROVE stream[i] \in Unit
    OBVIOUS
  <2>1. i \in 1..Len(stream)
    BY <1>1, <1>2
  <2> QED BY <2>1, ElementOfSeq DEF TypeOK
<1>4. /\ SubSeq(stream, m, rpos) \in Seq(Unit)
      /\ Len(SubSeq(stream, m, rpos)) = IF m <= rpos THEN rpos - m + 1 ELSE 0
  <2> HIDE DEF m
  <2> QED BY <1>2, <1>3, SubSeqProperties
<1> QED BY <1>1, <1>4

\* A part of them is a part of the stream too.
LEMMA PartUnits ==
  ASSUME TypeOK, ReceiverInv, rpc = "write", NEW n \in 0..(rsize - 1)
  PROVE  SubSeq(stream, rpos - rsize + 1, rpos - rsize + n) \in Seq(Unit)
<1> DEFINE m == rpos - rsize + 1
           e == rpos - rsize + n
<1>1. rsize \in Nat /\ rpos \in Nat /\ rsize <= rpos /\ rpos <= Len(stream)
  BY LenProperties DEF TypeOK, ReceiverInv
<1>2. m \in Int /\ e \in Int /\ m >= 1 /\ e <= Len(stream) /\ Len(stream) \in Nat
  BY <1>1, LenProperties DEF TypeOK
<1>3. \A i \in m..e : stream[i] \in Unit
  <2> SUFFICES ASSUME NEW i \in m..e PROVE stream[i] \in Unit
    OBVIOUS
  <2>1. i \in 1..Len(stream)
    BY <1>2
  <2> QED BY <2>1, ElementOfSeq DEF TypeOK
<1>4. SubSeq(stream, m, e) \in Seq(Unit)
  <2> HIDE DEF m, e
  <2> QED BY <1>2, <1>3, SubSeqProperties
<1> QED BY <1>4

\* What HandleIncoming leaves of the file it writes.
Whole(t) == peer' = [peer EXCEPT ![rfile] = Written(t)] /\ UNCHANGED refused
Cutting == /\ \E c \in [state : {"half"}, units : Seq(Unit)] : peer' = [peer EXCEPT ![rfile] = c]
           /\ refused' = refused \cup {rfile}

LEMMA WriteDoes ==
  ASSUME TypeOK, ReceiverInv, WriteTarget
  PROVE  Whole(SubSeq(stream, rpos - rsize + 1, rpos)) \/ Cutting
<1>1. CASE Whole(SubSeq(stream, rpos - rsize + 1, rpos))
  BY <1>1
<1>2. ASSUME NEW n \in 0..(rsize - 1), refused' = refused \cup {rfile},
             peer' = [peer EXCEPT ![rfile] =
                        CutShort(SubSeq(stream, rpos - rsize + 1, rpos - rsize + n))]
      PROVE  Cutting
  <2>1. rpc = "write"
    BY DEF WriteTarget
  <2>2. CutShort(SubSeq(stream, rpos - rsize + 1, rpos - rsize + n))
          \in [state : {"half"}, units : Seq(Unit)]
    BY <2>1, PartUnits DEF CutShort
  <2> QED BY <1>2, <2>2 DEF Cutting
<1> QED BY <1>1, <1>2 DEF WriteTarget, Whole

LEMMA TypeStep ==
  ASSUME TypeOK, arrives <= Len(stream), SenderInv, ReceiverInv, [Next]_vars
  PROVE  TypeOK' /\ arrives' <= Len(stream')
<1> USE DEF TypeOK
<1>1. Extends(stream, stream')
  BY StreamGrows
<1>2. /\ stream' \in Seq(Unit)
      /\ Len(stream) \in Nat /\ Len(stream') \in Nat
      /\ Len(stream) <= Len(stream')
  BY <1>1, LenProperties DEF Extends
<1>3. Available \in Int /\ rpos + Available <= Len(stream)
  BY <1>2 DEF Available
<1>4. ASSUME NEW x \in rpos..Len(stream) PROVE x \in Nat /\ x <= Len(stream')
  BY <1>2
<1>5. CASE Connect
  BY <1>2, <1>5 DEF Connect, linkVars, receiverVars
<1>6. CASE Collect
  BY <1>2, <1>6 DEF Collect, linkVars, receiverVars
<1>7. CASE Pick
  BY <1>2, <1>7 DEF Pick, linkVars, receiverVars
<1>8. CASE OpenFile
  <2>1. spc' \in {"read", "end"} /\ pos' \in Nat
    BY <1>8 DEF OpenFile
  <2>2. disturbed' \in BOOLEAN
    <3>1. disturbed' = TRUE \/ disturbed' = disturbed
      BY <1>8, Zenon DEF OpenFile
    <3> QED BY <3>1
  <2> QED BY <1>2, <1>8, <2>1, <2>2 DEF OpenFile, linkVars, receiverVars
<1>9. CASE Close
  BY <1>2, <1>9 DEF Close, linkVars, receiverVars
<1>10. CASE SendName
  BY <1>2, <1>10 DEF SendName, linkVars, receiverVars
<1>11. CASE SendEnd
  BY <1>2, <1>11 DEF SendEnd, linkVars, receiverVars
<1>12. CASE ReadBlock
  <2>1. spc' \in {"read", "end", "pick"}
    BY <1>12 DEF ReadBlock
  <2>2. pos' \in Nat
    <3>1. pos' = pos + 1 \/ pos' = pos
      BY <1>12, Zenon DEF ReadBlock
    <3> QED BY <3>1
  <2>3. UNCHANGED <<desk, edits, collected, todo, cur, linkVars, receiverVars,
                    disturbed>>
    BY <1>12 DEF ReadBlock
  <2> QED BY <1>2, <2>1, <2>2, <2>3 DEF linkVars, receiverVars
<1>13. CASE Measure \/ SendHeader
  <2>1. /\ link' \in {"none", "up", "broken"} /\ eof' \in BOOLEAN
        /\ arrives' \in Nat /\ arrives' <= Len(stream')
        /\ spc' \in {"dead", "pick", "name", "end"}
    BY <1>2, <1>4, <1>13 DEF Measure, SendHeader, Die, Break, linkVars
  <2>2. UNCHANGED <<desk, edits, collected, todo, cur, pos, receiverVars, disturbed>>
    BY <1>13 DEF Measure, SendHeader
  <2> QED BY <1>2, <2>1, <2>2 DEF receiverVars
<1>14. CASE Accept \/ OpenTarget \/ CloseClient
  <2>1. CutShort(<<>>) \in [state : {"none", "half", "full"}, units : Seq(Unit)]
    BY EmptySeq DEF CutShort
  <2>2. CASE OpenTarget
    <3>1. rfile \in Files
      BY <2>2 DEF OpenTarget, ReceiverInv
    <3>2. /\ peer' \in [Files -> [state : {"none", "half", "full"},
                                  units : Seq(Unit)]]
          /\ refused' \subseteq Files
          /\ rpc' \in {"write", "header"}
      BY <2>1, <2>2, <3>1 DEF OpenTarget
    <3> QED BY <1>2, <2>2, <3>2 DEF OpenTarget, senderVars, linkVars
  <2> QED BY <1>2, <1>14, <2>2 DEF Accept, CloseClient, senderVars, linkVars
<1>15. CASE RecvHeader
  <2>1. rpos' \in 0..Len(stream)
    BY <1>2, <1>3, <1>15, SizesAssumption DEF RecvHeader
  <2>2. rsize' \in Nat
    <3>1. CASE rsize' = rsize
      BY <3>1
    <3>2. CASE Available >= HdrLen /\ stream[rpos + 1].kind = "head"
               /\ rsize' = stream[rpos + 1].size
      <4>1. rpos + 1 \in 1..Len(stream)
        BY <1>2, <1>3, <3>2, SizesAssumption
      <4>2. stream[rpos + 1] \in Unit
        BY <4>1, ElementOfSeq
      <4>3. stream[rpos + 1] \in HeadUnit
        BY <3>2, <4>2 DEF Unit, HeadUnit, RestUnit, NameUnit, DataUnit
      <4> QED BY <3>2, <4>3 DEF HeadUnit
    <3> QED BY <1>15, <3>1, <3>2 DEF RecvHeader, Return
  <2> QED BY <1>2, <1>15, <2>1, <2>2 DEF RecvHeader, Return, senderVars, linkVars
<1>16. CASE RecvName
  BY <1>2, <1>3, <1>16 DEF RecvName, Return, senderVars, linkVars
<1>17. CASE RecvData
  BY <1>2, <1>3, <1>17 DEF RecvData, Return, senderVars, linkVars
<1>18. CASE WriteTarget
  <2> DEFINE t == SubSeq(stream, rpos - rsize + 1, rpos)
  <2>1. Written(t) \in [state : {"none", "half", "full"}, units : Seq(Unit)]
    BY <1>18, WrittenUnits DEF WriteTarget, Written
  <2>3. rfile \in Files
    BY <1>18 DEF WriteTarget, ReceiverInv
  <2>2. /\ peer' \in [Files -> [state : {"none", "half", "full"}, units : Seq(Unit)]]
        /\ refused' \subseteq Files
    <3>1. CASE Whole(t)
      <4> HIDE DEF t
      <4> QED BY <2>1, <3>1 DEF Whole
    <3>2. CASE Cutting
      BY <2>3, <3>2 DEF Cutting
    <3> QED BY <1>18, <3>1, <3>2, WriteDoes
  <2> QED BY <1>2, <1>18, <2>2 DEF WriteTarget, senderVars, linkVars
<1>19. CASE ShutdownArrives \/ LinkBreaks
  BY <1>2, <1>4, <1>19 DEF ShutdownArrives, LinkBreaks, Break, senderVars,
       receiverVars
<1>20. ASSUME NEW f \in Files, NEW n \in Sizes, EditFile(f, n)
       PROVE  TypeOK' /\ arrives' <= Len(stream')
  <2>1. desk' \in [Files -> [ver : Nat, len : Nat]]
    BY <1>20, SizesAssumption DEF EditFile
  <2> QED BY <1>2, <1>20, <2>1 DEF EditFile, senderVars, linkVars, receiverVars
<1>21. ASSUME NEW f \in Files, DeleteFile(f)
       PROVE  TypeOK' /\ arrives' <= Len(stream')
  BY <1>2, <1>21 DEF DeleteFile, senderVars, linkVars, receiverVars
<1>22. CASE UNCHANGED vars
  BY <1>2, <1>22 DEF vars, senderVars, linkVars, receiverVars
<1> QED BY <1>5, <1>6, <1>7, <1>8, <1>9, <1>10, <1>11, <1>12,
          <1>13, <1>14, <1>15, <1>16, <1>17, <1>18, <1>19, <1>20, <1>21, <1>22
          DEF Next, Sender, Receiver, Environment

-----------------------------------------------------------------------------
(* Every FILE header is followed by a name *)

\* The uploading thread has a file in its hands, and connects once.
LEMMA SenderStep ==
  ASSUME TypeOK, SenderInv, [Next]_vars
  PROVE  SenderInv'
<1> USE DEF TypeOK, SenderInv
<1>1. CASE Sender
  BY <1>1 DEF Sender, Connect, Collect, Measure, Pick, SendHeader, SendName,
       OpenFile, ReadBlock, SendEnd, Close, Die, linkVars
<1>2. CASE Receiver
  BY <1>2 DEF Receiver, Accept, RecvHeader, RecvName, RecvData, OpenTarget,
       WriteTarget, CloseClient, senderVars, linkVars
<1>3. CASE ShutdownArrives \/ Environment \/ UNCHANGED vars
  BY <1>3 DEF ShutdownArrives, Environment, LinkBreaks, EditFile, DeleteFile,
       vars, senderVars, linkVars
<1> QED BY <1>1, <1>2, <1>3 DEF Next

\* A broken connection is not mended.
LEMMA BrokenStays ==
  ASSUME SenderInv, [Next]_vars, link = "broken"
  PROVE  link' = "broken"
<1> USE DEF SenderInv
<1>1. CASE Sender
  BY <1>1 DEF Sender, Connect, Collect, Measure, Pick, SendHeader, SendName,
       OpenFile, ReadBlock, SendEnd, Close, Die, Break, linkVars
<1>2. CASE Receiver
  BY <1>2 DEF Receiver, Accept, RecvHeader, RecvName, RecvData, OpenTarget,
       WriteTarget, CloseClient, linkVars
<1>3. CASE ShutdownArrives \/ Environment \/ UNCHANGED vars
  BY <1>3 DEF ShutdownArrives, Environment, LinkBreaks, Break, EditFile,
       DeleteFile, vars, linkVars
<1> QED BY <1>1, <1>2, <1>3 DEF Next

\* A header that was complete, and its name there, stays so.
LEMMA OldHead ==
  ASSUME TypeOK, SenderInv, StreamInv, [Next]_vars,
         NEW k \in 1..Len(stream), NEW n \in Nat, stream[k] = Head1("FILE", n),
         k + HdrLen <= Len(stream)
  PROVE  HeaderAt(k)'
<1>1. HeaderAt(k)
  BY DEF StreamInv
<1>2. Extends(stream, stream') /\ Len(stream) \in Nat /\ Len(stream') \in Nat
  BY StreamGrows, LenProperties DEF TypeOK, Extends
<1>3. k + HdrLen \in 1..Len(stream)
  BY <1>2, SizesAssumption
<1>4. stream'[k + HdrLen] = stream[k + HdrLen]
  BY <1>2, <1>3 DEF Extends
<1> QED BY <1>1, <1>2, <1>3, <1>4 DEF HeaderAt, Extends

\* No step puts anything but a name behind a FILE header.
LEMMA HeadersStep ==
  ASSUME TypeOK, SenderInv, StreamInv, [Next]_vars
  PROVE  StreamInv'
<1> SUFFICES ASSUME NEW k \in 1..Len(stream'), NEW n \in Nat,
                    stream'[k] = Head1("FILE", n)
             PROVE  HeaderAt(k)'
  BY DEF StreamInv
<1>1. /\ Len(stream) \in Nat /\ HdrLen \in Nat \ {0}
      /\ \A j \in 1..Len(stream) : stream'[j] = stream[j]
  BY StreamGrows, LenProperties, SizesAssumption DEF TypeOK, Extends
<1>2. CASE k \in 1..Len(stream) /\ k + HdrLen <= Len(stream)
  BY <1>1, <1>2, OldHead
<1>3. CASE k \in 1..Len(stream) /\ k + HdrLen > Len(stream)
  <2>1. HeaderAt(k)
    BY <1>1, <1>3 DEF StreamInv
  <2>2. k + HdrLen = Len(stream) + 1 /\ (spc = "name" \/ link = "broken")
    BY <1>1, <1>3, <2>1 DEF HeaderAt
  <2>3. CASE Stays
    BY <1>3, <2>1, <2>2, <2>3, BrokenStays DEF Stays, HeaderAt
  <2>4. CASE AppendsName
    <3>1. Name(cur) \in NameUnit /\ Name(cur) \in Unit
      BY <2>4 DEF AppendsName, Name, NameUnit, Unit
    <3>2. <<Name(cur)>> \in Seq(Unit) /\ Len(<<Name(cur)>>) = 1
      BY <3>1, UnitIsSeq
    <3>3. /\ Len(stream') = Len(stream) + 1
          /\ stream'[Len(stream) + 1] = Name(cur)
      BY <2>4, <3>2, Appended DEF AppendsName
    <3> QED BY <1>1, <2>2, <3>1, <3>3 DEF HeaderAt
  <2>5. ~AppendsHeader /\ ~AppendsData
    BY <2>2 DEF AppendsHeader, AppendsData
  <2> QED BY <2>3, <2>4, <2>5, StreamStep
<1>4. CASE k \notin 1..Len(stream)
  <2>1. CASE Stays
    BY <1>4, <2>1 DEF Stays
  <2>2. CASE AppendsHeader
    <3>1. PICK op \in Ops, m \in Nat : /\ stream' = stream \o Header(op, m)
                                       /\ op = "FILE" => spc' = "name"
      BY <2>2 DEF AppendsHeader
    <3>2. /\ Header(op, m) \in Seq(Unit)
          /\ Len(Header(op, m)) = HdrLen
          /\ Header(op, m)[1] = Head1(op, m)
          /\ \A j \in 2..HdrLen : Header(op, m)[j] \in RestUnit
      BY HeaderUnits
    <3>3. /\ Len(stream') = Len(stream) + HdrLen
          /\ \A j \in 1..HdrLen : stream'[Len(stream) + j] = Header(op, m)[j]
      BY <3>1, <3>2, Appended
    <3>4. k - Len(stream) \in 1..HdrLen
      BY <1>1, <1>4, <3>3
    <3>5. stream'[k] = Header(op, m)[k - Len(stream)]
      <4>1. Len(stream) + (k - Len(stream)) = k
        BY <1>1
      <4> QED BY <3>3, <3>4, <4>1
    <3>6. k = Len(stream) + 1
      <4>1. Head1("FILE", n) \notin RestUnit
        BY DEF Head1, RestUnit
      <4>2. k - Len(stream) = 1
        BY <1>1, <3>2, <3>4, <3>5, <4>1
      <4> QED BY <1>1, <4>2
    <3>7. op = "FILE"
      <4>1. stream'[k] = Head1(op, m)
        BY <1>1, <3>2, <3>5, <3>6
      <4> QED BY <4>1 DEF Head1
    <3> QED BY <1>1, <3>1, <3>3, <3>6, <3>7 DEF HeaderAt
  <2>3. ASSUME NEW u \in NameUnit \cup DataUnit, stream' = stream \o <<u>>
        PROVE  FALSE
    <3>1. <<u>> \in Seq(Unit) /\ Len(<<u>>) = 1 /\ <<u>>[1] = u
      BY UnitIsSeq DEF Unit
    <3>2. Len(stream') = Len(stream) + 1 /\ stream'[Len(stream) + 1] = u
      BY <2>3, <3>1, Appended
    <3>3. k = Len(stream) + 1
      BY <1>1, <1>4, <3>2
    <3> QED BY <3>2, <3>3 DEF Head1, NameUnit, DataUnit
  <2>4. ~AppendsName /\ ~AppendsData
    BY <2>3 DEF AppendsName, AppendsData, Name, NameUnit
  <2> QED BY <2>1, <2>2, <2>4, StreamStep
<1> QED BY <1>1, <1>2, <1>3, <1>4

-----------------------------------------------------------------------------
(* The receiver *)

NotReceiving == UNCHANGED receiverVars

\* Only the receiving thread moves the receiver.
LEMMA OthersDoNotReceive ==
  ASSUME [Next]_vars, ~Receiver
  PROVE  NotReceiving
<1>1. CASE Sender
  BY <1>1 DEF Sender, Connect, Collect, Measure, Pick, SendHeader, SendName,
       OpenFile, ReadBlock, SendEnd, Close, NotReceiving
<1>2. CASE ShutdownArrives \/ Environment \/ UNCHANGED vars
  BY <1>2 DEF ShutdownArrives, Environment, LinkBreaks, EditFile, DeleteFile,
       vars, NotReceiving
<1> QED BY <1>1, <1>2 DEF Next

\* What can be read is in the stream.
LEMMA AvailableInStream ==
  ASSUME TypeOK, arrives <= Len(stream)
  PROVE  /\ Available \in Int
         /\ rpos + Available <= Len(stream)
         /\ rpos \in Nat /\ Len(stream) \in Nat /\ rpos <= Len(stream)
  BY LenProperties DEF TypeOK, Available

LEMMA ReceiverStep ==
  ASSUME TypeOK, arrives <= Len(stream), SenderInv, ReceiverInv, [Next]_vars
  PROVE  ReceiverInv'
<1>1. /\ Available \in Int /\ rpos + Available <= Len(stream)
      /\ rpos \in Nat /\ Len(stream) \in Nat /\ rpos <= Len(stream)
  BY AvailableInStream
<1>2. \A k \in 1..Len(stream) : stream'[k] = stream[k]
  BY StreamGrows DEF Extends
<1>3. rsize \in Nat /\ offset \in Nat /\ HdrLen \in Nat \ {0}
  BY SizesAssumption DEF TypeOK
<1>4. CASE NotReceiving
  <2>1. rpc = "name" => rpos - HdrLen + 1 \in 1..Len(stream)
    BY <1>1, <1>3 DEF ReceiverInv
  <2> QED BY <1>2, <1>4, <2>1 DEF NotReceiving, receiverVars, ReceiverInv
<1>5. CASE RecvHeader
  <2>1. CASE rpc' = "name"
    <3>1. /\ Available >= HdrLen /\ rpos' = rpos + HdrLen
          /\ stream[rpos + 1].kind = "head" /\ stream[rpos + 1].op = "FILE"
          /\ rsize' = stream[rpos + 1].size
      BY <1>5, <2>1 DEF RecvHeader, Return
    <3>2. rpos + 1 \in 1..Len(stream)
      BY <1>1, <1>3, <3>1
    <3>3. stream[rpos + 1] \in Unit
      BY <3>2, ElementOfSeq DEF TypeOK
    <3>4. stream[rpos + 1] \in HeadUnit
      BY <3>1, <3>3 DEF Unit, HeadUnit, RestUnit, NameUnit, DataUnit
    <3>5. stream[rpos + 1] = Head1("FILE", rsize')
      BY <3>1, <3>4 DEF HeadUnit, Head1
    <3>6. rpos' - HdrLen + 1 = rpos + 1 /\ rpos' >= HdrLen
      BY <1>1, <1>3, <3>1
    <3> QED BY <1>2, <2>1, <3>2, <3>5, <3>6 DEF ReceiverInv
  <2>2. CASE rpc' \in {"header", "close"}
    BY <2>2 DEF ReceiverInv
  <2> QED BY <1>5, <2>1, <2>2 DEF RecvHeader, Return
<1>6. CASE RecvName
  <2>1. CASE rpc' = "data"
    BY <1>1, <1>3, <1>6, <2>1 DEF RecvName, Return, ReceiverInv
  <2>2. CASE rpc' = "close"
    BY <2>2 DEF ReceiverInv
  <2> QED BY <1>6, <2>1, <2>2 DEF RecvName, Return
<1>7. CASE RecvData
  BY <1>1, <1>3, <1>7 DEF RecvData, Return, ReceiverInv
<1>8. CASE Accept \/ OpenTarget \/ WriteTarget \/ CloseClient
  BY <1>8 DEF Accept, OpenTarget, WriteTarget, CloseClient, ReceiverInv
<1> QED BY <1>4, <1>5, <1>6, <1>7, <1>8, OthersDoNotReceive DEF Receiver

-----------------------------------------------------------------------------
(* The invariant *)

LEMMA Initially == Init => IInv
<1> SUFFICES ASSUME Init PROVE IInv
  OBVIOUS
<1>1. TypeOK /\ arrives <= Len(stream)
  BY TypeInit
<1>2. SenderInv /\ ReceiverInv
  BY DEF Init, SenderInv, ReceiverInv
<1>3. StreamInv
  BY EmptySeq DEF Init, StreamInv
<1> QED BY <1>1, <1>2, <1>3 DEF IInv

LEMMA Inductive == IInv /\ [Next]_vars => IInv'
<1> SUFFICES ASSUME IInv, [Next]_vars PROVE IInv'
  OBVIOUS
<1> USE DEF IInv
<1>1. TypeOK' /\ (arrives <= Len(stream))'
  BY TypeStep
<1>2. SenderInv' /\ StreamInv' /\ ReceiverInv'
  BY SenderStep, HeadersStep, ReceiverStep
<1> QED BY <1>1, <1>2

\* The invariant holds in every reachable state.
THEOREM Invariance == Spec => []IInv
  BY Initially, Inductive, PTL DEF Spec

\* Every variable stays in its declared range.
THEOREM TypeCorrect == Spec => []TypeOK
<1>1. IInv => TypeOK
  BY DEF IInv
<1> QED BY <1>1, Invariance, PTL

\* A connection lost in the middle of a file leaves the file alone: nothing is
\* truncated before all of its bytes are there, and what was truncated is written
\* by the next step of HandleIncoming, as far as the disk takes it
\* (sync_dll.cpp:180-198).
THEOREM FilesCutOnlyByDisk == Spec => []CutOnlyByDisk
<1>1. Init => CutOnlyByDisk
  BY DEF Init, CutOnlyByDisk, NotReceived
<1>2. IInv /\ CutOnlyByDisk /\ [Next]_vars => CutOnlyByDisk'
  <2> SUFFICES ASSUME IInv, CutOnlyByDisk, [Next]_vars,
                      NEW f \in Files, peer'[f].state = "half"
               PROVE  \/ rpc' = "write" /\ rfile' = f /\ offset' = rsize'
                      \/ f \in refused'
    BY DEF CutOnlyByDisk
  <2> USE DEF CutOnlyByDisk
  <2>0. peer \in [Files -> {peer[g] : g \in Files}]
    BY DEF IInv, TypeOK
  <2>1. CASE NotReceiving
    BY <2>1 DEF NotReceiving, receiverVars
  <2>2. CASE Accept \/ RecvHeader \/ RecvName \/ RecvData \/ CloseClient
    BY <2>2 DEF Accept, RecvHeader, RecvName, RecvData, CloseClient
  <2>3. CASE OpenTarget
    <3>1. offset = rsize /\ rfile \in Files
      BY <2>3 DEF OpenTarget, IInv, ReceiverInv
    <3>2. CASE peer'[f] = peer[f]
      BY <2>3, <3>2 DEF OpenTarget
    <3>3. CASE peer'[f] # peer[f]
      BY <2>0, <2>3, <3>1, <3>3 DEF OpenTarget
    <3> QED BY <3>2, <3>3
  <2>4. CASE WriteTarget
    <3> DEFINE t == SubSeq(stream, rpos - rsize + 1, rpos)
    <3>1. Whole(t) \/ Cutting
      BY <2>4, WriteDoes DEF IInv
    <3> HIDE DEF t
    <3>2. CASE f = rfile
      <4>1. Whole(t) => peer'[f].state = "full"
        BY <2>0, <3>2 DEF Whole, Written
      <4> QED BY <3>1, <3>2, <4>1 DEF Cutting
    <3>3. CASE f # rfile
      <4>1. peer'[f] = peer[f] /\ refused \subseteq refused'
        BY <2>0, <3>1, <3>3 DEF Whole, Cutting
      <4> QED BY <2>4, <3>3, <4>1 DEF WriteTarget
    <3> QED BY <3>2, <3>3
  <2> QED BY <2>1, <2>2, <2>3, <2>4, OthersDoNotReceive DEF Receiver
<1> QED BY <1>1, <1>2, Invariance, PTL DEF Spec

-----------------------------------------------------------------------------
(* Files that were received were announced *)

\* Announced, of a stream that is named.
AnnouncedIn(s, k, f, n) ==
  /\ k \in 1..Len(s)
  /\ s[k] = Head1("FILE", n)
  /\ k + HdrLen \in 1..Len(s)
  /\ s[k + HdrLen] = Name(f)

\* An announcement is not taken back.
LEMMA AnnouncedStays ==
  ASSUME IInv, [Next]_vars, NEW k \in 1..rpos, NEW f \in Files, NEW n \in Nat,
         Announced(k, f, n)
  PROVE  k \in 1..rpos' /\ AnnouncedIn(stream', k, f, n)
<1> USE DEF IInv
<1>1. /\ Available \in Int /\ rpos + Available <= Len(stream)
      /\ rpos \in Nat /\ Len(stream) \in Nat /\ rpos <= Len(stream)
  BY AvailableInStream
<1>2. /\ \A j \in 1..Len(stream) : stream'[j] = stream[j]
      /\ Len(stream') \in Nat /\ Len(stream) <= Len(stream')
  BY StreamGrows, LenProperties DEF Extends
<1>3. rpos <= rpos' /\ rpos' \in Nat
  <2>1. CASE NotReceiving
    BY <1>1, <2>1 DEF NotReceiving, receiverVars
  <2>2. CASE Receiver
    BY <1>1, <2>2, SizesAssumption DEF Receiver, Accept, RecvHeader, RecvName,
         RecvData, OpenTarget, WriteTarget, CloseClient
  <2> QED BY <2>1, <2>2, OthersDoNotReceive
<1>4. k \in 1..rpos'
  BY <1>1, <1>3
<1> QED BY <1>2, <1>4 DEF Announced, AnnouncedIn

\* What the receiver takes for the name of a file is the name that was sent
\* behind the header it just read.
LEMMA NameIsAnnounced ==
  ASSUME IInv, RecvName, rpc' = "data"
  PROVE  \E k \in 1..rpos' : AnnouncedIn(stream', k, rfile', rsize')
<1> USE DEF IInv
<1> DEFINE k == rpos - HdrLen + 1
<1>1. /\ Available \in Int /\ rpos + Available <= Len(stream)
      /\ rpos \in Nat /\ Len(stream) \in Nat /\ rpos <= Len(stream)
  BY AvailableInStream
<1>2. rpos >= HdrLen /\ stream[k] = Head1("FILE", rsize) /\ rsize \in Nat
  BY DEF RecvName, ReceiverInv, TypeOK
<1>3. k \in 1..rpos /\ k \in 1..Len(stream) /\ k + HdrLen = rpos + 1
  BY <1>1, <1>2, SizesAssumption
<1>4. Available >= 1 /\ rfile' \in Files /\ ReadsAs(stream[rpos + 1], rfile')
  BY DEF RecvName, Return
<1>5. rpos + 1 <= Len(stream)
  BY <1>1, <1>4
<1>6. stream[rpos + 1] \in NameUnit
  BY <1>2, <1>3, <1>5 DEF StreamInv, HeaderAt
<1>7. stream[rpos + 1] = Name(rfile')
  BY <1>4, <1>6 DEF ReadsAs, NameUnit, Name
<1>8. k + HdrLen \in 1..Len(stream)
  BY <1>1, <1>3, <1>5
<1>9. AnnouncedIn(stream, k, rfile', rsize)
  <2> HIDE DEF k
  <2> QED BY <1>2, <1>3, <1>7, <1>8 DEF AnnouncedIn
<1>10. stream' = stream /\ rsize' = rsize /\ k \in 1..rpos'
  BY <1>1, <1>3 DEF RecvName, Return
<1> QED BY <1>9, <1>10

\* The file being served was announced.
ServedAnnounced ==
  rpc \in {"data", "open", "write"} =>
    \E k \in 1..rpos : Announced(k, rfile, rsize)

LEMMA ServedStep == IInv /\ ServedAnnounced /\ [Next]_vars => ServedAnnounced'
<1> SUFFICES ASSUME IInv, ServedAnnounced, [Next]_vars,
                    rpc' \in {"data", "open", "write"}
             PROVE  \E k \in 1..rpos' : AnnouncedIn(stream', k, rfile', rsize')
  BY DEF ServedAnnounced, Announced, AnnouncedIn
<1>1. rsize \in Nat
  BY DEF IInv, TypeOK
<1>2. CASE rpc \in {"data", "open", "write"} /\ rfile' = rfile /\ rsize' = rsize
  <2>1. PICK k \in 1..rpos : Announced(k, rfile, rsize)
    BY <1>2 DEF ServedAnnounced
  <2>2. rfile \in Files
    BY <1>2 DEF IInv, ReceiverInv
  <2>3. k \in 1..rpos' /\ AnnouncedIn(stream', k, rfile, rsize)
    BY <1>1, <2>1, <2>2, AnnouncedStays
  <2> QED BY <1>2, <2>3
<1>3. CASE RecvName
  <2>1. rpc' = "data"
    BY <1>3 DEF RecvName, Return
  <2> QED BY <1>3, <2>1, NameIsAnnounced
<1>4. CASE NotReceiving
  BY <1>2, <1>4 DEF NotReceiving, receiverVars
<1>5. CASE Accept \/ RecvHeader \/ RecvData \/ OpenTarget \/ WriteTarget
           \/ CloseClient
  BY <1>2, <1>5 DEF Accept, RecvHeader, RecvData, OpenTarget, WriteTarget,
       CloseClient, Return
<1> QED BY <1>3, <1>4, <1>5, OthersDoNotReceive DEF Receiver

\* A file written was announced with its name and its length.
WrittenAnnounced ==
  \A f \in Files :
    Complete(f) => \E k \in 1..rpos : Announced(k, f, Len(peer[f].units))

LEMMA WrittenStep ==
  IInv /\ ServedAnnounced /\ WrittenAnnounced /\ [Next]_vars => WrittenAnnounced'
<1> SUFFICES ASSUME IInv, ServedAnnounced, WrittenAnnounced, [Next]_vars,
                    NEW f \in Files, peer'[f].state = "full"
             PROVE  \E k \in 1..rpos' :
                      AnnouncedIn(stream', k, f, Len(peer'[f].units))
  BY DEF WrittenAnnounced, Complete, Announced, AnnouncedIn
<1>1. /\ peer \in [Files -> [state : {"none", "half", "full"}, units : Seq(Unit)]]
      /\ rsize \in Nat
  BY DEF IInv, TypeOK
<1>2. CASE peer'[f] = peer[f]
  <2>1. PICK k \in 1..rpos : Announced(k, f, Len(peer[f].units))
    BY <1>2 DEF WrittenAnnounced, Complete
  <2>2. Len(peer[f].units) \in Nat
    BY <1>1, LenProperties
  <2>3. k \in 1..rpos' /\ AnnouncedIn(stream', k, f, Len(peer[f].units))
    BY <2>1, <2>2, AnnouncedStays
  <2> QED BY <1>2, <2>3
<1>3. CASE NotReceiving
  BY <1>2, <1>3 DEF NotReceiving, receiverVars
<1>4. CASE Accept \/ RecvHeader \/ RecvName \/ RecvData \/ CloseClient
  BY <1>2, <1>4 DEF Accept, RecvHeader, RecvName, RecvData, CloseClient
<1>5. CASE OpenTarget
  <2>1. peer'[f] = peer[f] \/ peer'[f] = CutShort(<<>>)
    BY <1>1, <1>5 DEF OpenTarget
  <2> QED BY <1>2, <2>1 DEF CutShort
<1>6. CASE WriteTarget
  <2> DEFINE t == SubSeq(stream, rpos - rsize + 1, rpos)
  <2>0. /\ Whole(t) \/ Cutting
        /\ f = rfile => peer'[f] = Written(t)
        /\ f # rfile => peer'[f] = peer[f]
    <3>1. Whole(t) \/ Cutting
      BY <1>6, WriteDoes DEF IInv
    <3> HIDE DEF t
    <3> QED BY <1>1, <3>1 DEF Whole, Cutting
  <2>1. CASE f # rfile
    BY <1>2, <2>0, <2>1
  <2>2. CASE f = rfile
    <3>1. peer'[f].units = SubSeq(stream, rpos - rsize + 1, rpos)
      BY <2>0, <2>2 DEF Written
    <3>2. Len(peer'[f].units) = rsize
      BY <1>6, <3>1, WrittenUnits DEF IInv, WriteTarget
    <3>3. PICK k \in 1..rpos : Announced(k, f, rsize)
      BY <1>6, <2>2 DEF WriteTarget, ServedAnnounced
    <3>4. k \in 1..rpos' /\ AnnouncedIn(stream', k, f, rsize)
      BY <1>1, <3>3, AnnouncedStays
    <3> QED BY <3>2, <3>4
  <2> QED BY <2>1, <2>2
<1> QED BY <1>3, <1>4, <1>5, <1>6, OthersDoNotReceive DEF Receiver

\* However far the two ends get out of step, because files change under the
\* hands of the sender: a file the receiver has written, or is serving, has the
\* name and the length of one header of the stream (sync_dll.cpp:163-193).
THEOREM NoFileMadeUp == Spec => []NothingMadeUp
<1>1. NothingMadeUp <=> WrittenAnnounced /\ ServedAnnounced
  BY DEF NothingMadeUp, WrittenAnnounced, ServedAnnounced
<1>2. Init => ServedAnnounced /\ WrittenAnnounced
  BY DEF Init, ServedAnnounced, WrittenAnnounced, Complete, NotReceived
<1>3. /\ IInv /\ ServedAnnounced /\ WrittenAnnounced /\ [Next]_vars
      => ServedAnnounced' /\ WrittenAnnounced'
  BY ServedStep, WrittenStep
<1> QED BY <1>1, <1>2, <1>3, Invariance, PTL DEF Spec

-----------------------------------------------------------------------------
(***************************************************************************)
(* What SyncTransfer promises as long as the files being sent are left     *)
(* alone: what arrives is what was on the sender's desktop, and END means  *)
(* that everything has arrived.                                            *)
(*                                                                         *)
(* The argument: a FILE packet is completed before anything else is sent,  *)
(* or never; so the units it announces are those of one version of one     *)
(* file, none of them is taken for a header, and the receiver serves every *)
(* packet it passes.  END is sent when no file is left to send.            *)
(***************************************************************************)
-----------------------------------------------------------------------------
(* What holds whatever happens to the files *)

\* A header is in the stream as a whole, and begins only once.
HeadAt(s, k) ==
  /\ k + HdrLen <= Len(s) + 1
  /\ \A j \in k + 1 .. k + HdrLen - 1 : s[j] \in RestUnit

HeadsInv == \A k \in 1..Len(stream) : stream[k] \in HeadUnit => HeadAt(stream, k)

\* Every change to the desktop makes one new version.
VersionInv ==
  /\ edits <= MaxEdits
  /\ \A f \in Files : desk[f].ver <= edits + 1

\* n units of a file are announced at k.
FileAt(s, k, n) == k \in 1..Len(s) /\ n \in Nat /\ s[k] = Head1("FILE", n)

\* The name follows the header that was just sent.
OwedInv ==
  spc = "name" /\ link = "up" => \E n \in Nat : FileAt(stream, Len(stream) - HdrLen + 1, n)

\* The packet being served began where the receiver thinks it did.
HandInv ==
  rpc \in {"data", "open", "write"} => Announced(rpos - offset - HdrLen, rfile, rsize)

StructInv == HeadsInv /\ VersionInv /\ OwedInv /\ HandInv

-----------------------------------------------------------------------------
(* What holds as long as the files being sent are left alone *)

\* As far as it was sent, the packet at k is that of version v of f.
PacketOf(s, k, n, f, v) ==
  k + HdrLen <= Len(s) =>
    /\ s[k + HdrLen] = Name(f)
    /\ \A i \in 1..n : k + HdrLen + i <= Len(s) => s[k + HdrLen + i] = Data(f, v, i)

OneVersion(s, k, n) == \E f \in Files, v \in 1..MaxEdits + 1 : PacketOf(s, k, n, f, v)

\* The packet at k is the one the sender is at work on.
Sending(k) ==
  /\ stream[k] = Head1("FILE", desk[cur].len)
  /\ \/ spc = "name" /\ Len(stream) = k + HdrLen - 1
     \/ spc = "open" /\ Len(stream) = k + HdrLen /\ stream[k + HdrLen] = Name(cur)
     \/ /\ spc = "read" /\ Len(stream) = k + HdrLen + pos /\ pos <= desk[cur].len
        /\ stream[k + HdrLen] = Name(cur)
        /\ desk[cur].ver \in 1..MaxEdits + 1
        /\ \A i \in 1..pos : stream[k + HdrLen + i] = Data(cur, desk[cur].ver, i)

PacketInv ==
  \A k \in 1..Len(stream), n \in Nat : FileAt(stream, k, n) =>
    /\ OneVersion(stream, k, n)
    /\ k + HdrLen + n <= Len(stream) \/ link = "broken" \/ Sending(k)

\* Every file that was collected is to be sent, in the sender's hands, or in
\* the stream; END comes last, when all are in the stream.
InStream(f) == \E k \in 1..Len(stream), n \in Nat : Announced(k, f, n)

EndAt(s, k) == k \in 1..Len(s) /\ s[k] \in HeadUnit /\ s[k].op = "END"

EndInv ==
  /\ \A k \in 1..Len(stream) : EndAt(stream, k) =>
       /\ spc \in {"close", "done"}
       /\ k + HdrLen = Len(stream) + 1
       /\ \A f \in collected : InStream(f)
  /\ spc = "end" /\ link = "up" => todo = {}
  /\ spc \in {"measure", "pick", "header", "name", "open", "read", "end"} /\ link = "up" =>
       \A f \in collected : \/ f \in todo
                            \/ f = cur /\ spc \in {"header", "name"}
                            \/ InStream(f)

\* A file whose packet the receiver has taken is written, refused by the disk,
\* or about to be written.
Taken(f) == Complete(f) \/ f \in refused \/ (rfile = f /\ rpc = "write")

Served(k) ==
  /\ k + HdrLen <= rpos
  /\ \E f \in Files : stream[k + HdrLen] = Name(f) /\ Taken(f)

InHand(k) ==
  \/ rpc = "name" /\ k = rpos - HdrLen + 1
  \/ rpc \in {"data", "open", "write"} /\ k = rpos - offset - HdrLen

ServedInv ==
  rpc \notin {"close", "done"} =>
    \A k \in 1..rpos, n \in Nat : FileAt(stream, k, n) => Served(k) \/ InHand(k)

\* What was written is one version of the file.
UnitsOf(s, f, v) == \A i \in 1..Len(s) : s[i] = Data(f, v, i)

WrittenInv ==
  \A f \in Files : Complete(f) => \E v \in 1..MaxEdits + 1 : UnitsOf(peer[f].units, f, v)

ResultInv ==
  result = "true" => /\ rpc \in {"close", "done"}
                     /\ spc \in {"close", "done"}
                     /\ \A f \in collected : Complete(f) \/ f \in refused

LeftAlone == PacketInv /\ EndInv /\ ServedInv /\ WrittenInv /\ ResultInv

IntactInv == StructInv /\ (~disturbed => LeftAlone)

-----------------------------------------------------------------------------
(* What a step sends *)

SenderKeeps == UNCHANGED <<desk, edits, collected, todo, cur, linkVars, receiverVars, disturbed>>

SendsHeader(op, m) ==
  /\ link = "up" /\ SenderKeeps
  /\ stream' = stream \o Header(op, m)
  /\ \/ op = "HELLO" /\ spc = "measure" /\ spc' = "pick"
     \/ op = "FILE" /\ spc = "header" /\ spc' = "name" /\ cur \in Files /\ m = desk[cur].len
     \/ op = "END" /\ spc = "end" /\ spc' = "close"

SendsName ==
  /\ link = "up" /\ SenderKeeps
  /\ spc = "name" /\ spc' = "open" /\ cur \in Files
  /\ stream' = stream \o <<Name(cur)>>

SendsData ==
  /\ link = "up" /\ SenderKeeps
  /\ spc = "read" /\ spc' = "read" /\ cur \in Files
  /\ pos < desk[cur].len /\ pos' = pos + 1
  /\ stream' = stream \o <<Data(cur, desk[cur].ver, pos + 1)>>

\* A step that sends nothing.
Silent == UNCHANGED stream

LEMMA SendingStep ==
  ASSUME IInv, [Next]_vars
  PROVE  \/ Silent
         \/ \E op \in Ops, m \in Nat : SendsHeader(op, m)
         \/ SendsName
         \/ SendsData
<1> USE DEF IInv, TypeOK
<1>1. CASE Measure
  BY <1>1, Zenon DEF Measure, SendAll, SendFails, Die, SendsHeader, SenderKeeps, Ops, Silent
<1>2. CASE SendHeader
  <2>1. CASE UNCHANGED stream
    BY <2>1 DEF Silent
  <2>2. CASE SendAll(Header("FILE", desk[cur].len)) /\ spc' = "name" /\ UNCHANGED linkVars
    <3>1. cur \in Files
      BY <1>2 DEF SendHeader, SenderInv
    <3>2. desk[cur].len \in Nat
      BY <3>1
    <3>3. SendsHeader("FILE", desk[cur].len)
      BY <1>2, <2>2, <3>1 DEF SendHeader, SendAll, SendsHeader, SenderKeeps
    <3> QED BY <3>2, <3>3 DEF Ops
  <2> QED BY <1>2, <2>1, <2>2 DEF SendHeader, Die, SendFails
<1>3. CASE SendName
  BY <1>3 DEF SendName, SenderInv, SendAll, SendFails, SendsName, SenderKeeps, Silent
<1>4. CASE ReadBlock
  BY <1>4 DEF ReadBlock, SenderInv, SendAll, SendFails, SendsData, SenderKeeps, Silent
<1>5. CASE SendEnd
  <2>1. CASE SendAll(Header("END", 0))
    <3>1. SendsHeader("END", 0)
      BY <1>5, <2>1 DEF SendEnd, SendAll, SendsHeader, SenderKeeps
    <3> QED BY <3>1 DEF Ops
  <2>2. CASE UNCHANGED stream
    BY <2>2 DEF Silent
  <2> QED BY <1>5, <2>1, <2>2 DEF SendEnd, SendFails
<1>6. CASE Connect \/ Collect \/ Pick \/ OpenFile \/ Close
  BY <1>6 DEF Connect, Collect, Pick, OpenFile, Close, Silent
<1>7. CASE \/ Receiver \/ ShutdownArrives \/ Environment \/ UNCHANGED vars
  BY <1>7 DEF Receiver, Accept, RecvHeader, RecvName, RecvData, OpenTarget,
       WriteTarget, CloseClient, ShutdownArrives, Environment, LinkBreaks,
       EditFile, DeleteFile, vars, Silent
<1> QED BY <1>1, <1>2, <1>3, <1>4, <1>5, <1>6, <1>7 DEF Next, Sender

\* The stream and what was appended to it.
LEMMA HeaderSent ==
  ASSUME IInv, NEW op \in Ops, NEW m \in Nat, SendsHeader(op, m)
  PROVE  /\ Len(stream) \in Nat /\ Len(stream') = Len(stream) + HdrLen
         /\ stream'[Len(stream) + 1] = Head1(op, m)
         /\ \A j \in 2..HdrLen : stream'[Len(stream) + j] \in RestUnit
<1>1. /\ Header(op, m) \in Seq(Unit)
      /\ Len(Header(op, m)) = HdrLen
      /\ Header(op, m)[1] = Head1(op, m)
      /\ \A j \in 2..HdrLen : Header(op, m)[j] \in RestUnit
  BY HeaderUnits
<1>2. stream' = stream \o Header(op, m) /\ TypeOK
  BY DEF SendsHeader, IInv
<1>3. /\ Len(stream') = Len(stream) + HdrLen
      /\ \A j \in 1..HdrLen : stream'[Len(stream) + j] = Header(op, m)[j]
  BY <1>1, <1>2, Appended
<1>4. Len(stream) \in Nat
  BY <1>2, LenProperties DEF TypeOK
<1>5. 1 \in 1..HdrLen /\ 2..HdrLen \subseteq 1..HdrLen
  BY SizesAssumption
<1> QED BY <1>1, <1>3, <1>4, <1>5

LEMMA UnitSent ==
  ASSUME IInv, NEW u \in Unit, stream' = stream \o <<u>>
  PROVE  /\ Len(stream) \in Nat /\ Len(stream') = Len(stream) + 1
         /\ stream'[Len(stream) + 1] = u
<1>1. <<u>> \in Seq(Unit) /\ Len(<<u>>) = 1 /\ <<u>>[1] = u /\ TypeOK
  BY UnitIsSeq DEF IInv
<1>2. Len(stream) \in Nat
  BY <1>1, LenProperties DEF TypeOK
<1> QED BY <1>1, <1>2, Appended

\* The units that are sent one by one.
LEMMA UnitsSent ==
  /\ \A f \in Files : Name(f) \in Unit /\ Name(f) \notin HeadUnit
  /\ \A f \in Files, v \in Nat, i \in Nat : Data(f, v, i) \in Unit /\ Data(f, v, i) \notin HeadUnit
  /\ \A op \in Ops, m \in Nat : Head1(op, m) \in HeadUnit
  /\ \A u \in RestUnit : u \notin HeadUnit
<1>1. \A f \in Files : Name(f) \in Unit /\ Name(f) \notin HeadUnit
  BY DEF Name, NameUnit, HeadUnit, Unit
<1>2. \A f \in Files, v \in Nat, i \in Nat : Data(f, v, i) \in Unit /\ Data(f, v, i) \notin HeadUnit
  BY DEF Data, DataUnit, HeadUnit, Unit
<1>3. \A op \in Ops, m \in Nat : Head1(op, m) \in HeadUnit
  BY DEF Head1, HeadUnit
<1>4. \A u \in RestUnit : u \notin HeadUnit
  BY DEF RestUnit, HeadUnit
<1> QED BY <1>1, <1>2, <1>3, <1>4

\* The stream grows at its end.
LEMMA Grows ==
  ASSUME IInv, [Next]_vars
  PROVE  /\ Len(stream) \in Nat /\ Len(stream') \in Nat /\ Len(stream) <= Len(stream')
         /\ \A k \in 1..Len(stream) : stream'[k] = stream[k]
  BY StreamGrows, LenProperties DEF IInv, TypeOK, Extends

\* A header that is new is the one this step sends.
LEMMA NewHead ==
  ASSUME IInv, [Next]_vars, NEW k \in 1..Len(stream'), k \notin 1..Len(stream),
         stream'[k] \in HeadUnit
  PROVE  /\ k = Len(stream) + 1
         /\ Len(stream') = Len(stream) + HdrLen
         /\ HeadAt(stream', k)
         /\ \E op \in Ops, m \in Nat : stream'[k] = Head1(op, m) /\ SendsHeader(op, m)
<1>1. Len(stream) \in Nat /\ HdrLen \in Nat \ {0} /\ k \in Nat /\ k > Len(stream)
  BY Grows, SizesAssumption
<1>2. ASSUME NEW u \in Unit, u \notin HeadUnit, stream' = stream \o <<u>>
      PROVE  FALSE
  <2>1. Len(stream') = Len(stream) + 1 /\ stream'[Len(stream) + 1] = u
    BY <1>2, UnitSent
  <2>2. k = Len(stream) + 1
    BY <1>1, <2>1
  <2> QED BY <1>2, <2>1, <2>2
<1>3. ~Silent
  BY <1>1 DEF Silent
<1>4. ~SendsName
  BY <1>2, UnitsSent DEF SendsName
<1>5. ~SendsData
  <2>1. SendsData => desk[cur].ver \in Nat /\ pos + 1 \in Nat /\ cur \in Files
    BY DEF SendsData, IInv, TypeOK
  <2> QED BY <1>2, <2>1, UnitsSent DEF SendsData
<1>6. PICK op \in Ops, m \in Nat : SendsHeader(op, m)
  BY <1>3, <1>4, <1>5, SendingStep
<1>7. /\ Len(stream') = Len(stream) + HdrLen
      /\ stream'[Len(stream) + 1] = Head1(op, m)
      /\ \A j \in 2..HdrLen : stream'[Len(stream) + j] \in RestUnit
  BY <1>6, HeaderSent
<1>8. k = Len(stream) + 1
  <2>1. k - Len(stream) \in 1..HdrLen /\ Len(stream) + (k - Len(stream)) = k
    BY <1>1, <1>7
  <2>2. k - Len(stream) \notin 2..HdrLen
    BY <1>7, <2>1, UnitsSent
  <2> QED BY <1>1, <2>1, <2>2
<1>9. HeadAt(stream', k)
  <2> SUFFICES ASSUME NEW j \in k + 1 .. k + HdrLen - 1 PROVE stream'[j] \in RestUnit
    BY <1>1, <1>7, <1>8 DEF HeadAt
  <2>1. j - Len(stream) \in 2..HdrLen /\ Len(stream) + (j - Len(stream)) = j
    BY <1>1, <1>8
  <2> QED BY <1>7, <2>1
<1> QED BY <1>6, <1>7, <1>8, <1>9

-----------------------------------------------------------------------------
(* The structure of the stream *)

\* A header is appended as a whole.
LEMMA HeadsStep ==
  ASSUME IInv, HeadsInv, [Next]_vars
  PROVE  HeadsInv'
<1> SUFFICES ASSUME NEW k \in 1..Len(stream'), stream'[k] \in HeadUnit
             PROVE  HeadAt(stream', k)
  BY DEF HeadsInv
<1>1. CASE k \in 1..Len(stream)
  <2>1. /\ Len(stream) \in Nat /\ Len(stream') \in Nat /\ Len(stream) <= Len(stream')
        /\ \A j \in 1..Len(stream) : stream'[j] = stream[j]
    BY Grows
  <2>2. HeadAt(stream, k)
    BY <1>1, <2>1 DEF HeadsInv
  <2>3. HdrLen \in Nat
    BY SizesAssumption
  <2> QED BY <1>1, <2>1, <2>2, <2>3 DEF HeadAt
<1>2. CASE k \notin 1..Len(stream)
  BY <1>2, NewHead
<1> QED BY <1>1, <1>2

\* Versions are numbered by the changes.
LEMMA VersionStep ==
  ASSUME IInv, VersionInv, [Next]_vars
  PROVE  VersionInv'
<1> USE DEF VersionInv, IInv, TypeOK
<1>1. CASE UNCHANGED <<desk, edits>>
  BY <1>1
<1>2. ASSUME NEW g \in Files, NEW n \in Sizes, EditFile(g, n)
      PROVE  VersionInv'
  <2>1. edits' = edits + 1 /\ edits' <= MaxEdits
    BY <1>2, SizesAssumption DEF EditFile
  <2>2. ASSUME NEW f \in Files PROVE desk'[f].ver <= edits' + 1
    <3>1. CASE f = g
      BY <1>2, <2>1, <3>1 DEF EditFile
    <3>2. CASE f # g
      BY <1>2, <2>1, <3>2 DEF EditFile
    <3> QED BY <3>1, <3>2
  <2> QED BY <2>1, <2>2
<1>3. ASSUME NEW g \in Files, DeleteFile(g)
      PROVE  VersionInv'
  <2>1. edits' = edits + 1 /\ edits' <= MaxEdits
    BY <1>3, SizesAssumption DEF DeleteFile
  <2>2. ASSUME NEW f \in Files PROVE desk'[f].ver <= edits' + 1
    <3>1. CASE f = g
      BY <1>3, <2>1, <3>1 DEF DeleteFile
    <3>2. CASE f # g
      BY <1>3, <2>1, <3>2 DEF DeleteFile
    <3> QED BY <3>1, <3>2
  <2> QED BY <2>1, <2>2
<1>4. CASE Sender \/ Receiver \/ ShutdownArrives \/ LinkBreaks \/ UNCHANGED vars
  BY <1>1, <1>4 DEF Sender, Connect, Collect, Measure, Pick, SendHeader, SendName,
       OpenFile, ReadBlock, SendEnd, Close, Receiver, Accept, RecvHeader, RecvName,
       RecvData, OpenTarget, WriteTarget, CloseClient, ShutdownArrives, LinkBreaks, vars
<1> QED BY <1>2, <1>3, <1>4 DEF Next, Environment

\* The step that makes the sender owe a name has sent the header.
LEMMA OwedStep ==
  ASSUME IInv, OwedInv, [Next]_vars
  PROVE  OwedInv'
<1> SUFFICES ASSUME spc' = "name", link' = "up"
             PROVE  \E n \in Nat : FileAt(stream', Len(stream') - HdrLen + 1, n)
  BY DEF OwedInv
<1>1. CASE spc = "name"
  <2>1. link = "up" /\ stream' = stream
    BY <1>1 DEF Next, Sender, Connect, Collect, Measure, Pick, SendHeader, SendName,
         OpenFile, ReadBlock, SendEnd, Close, Die, Receiver, Accept, RecvHeader, RecvName,
         RecvData, OpenTarget, WriteTarget, CloseClient, ShutdownArrives, Environment,
         LinkBreaks, EditFile, DeleteFile, Break, vars, senderVars, linkVars
  <2> QED BY <1>1, <2>1 DEF OwedInv
<1>2. CASE spc # "name"
  <2>1. SendHeader /\ link' = link
    BY <1>2 DEF Next, Sender, Connect, Collect, Measure, Pick, SendHeader, SendName,
         OpenFile, ReadBlock, SendEnd, Close, Die, Receiver, Accept, RecvHeader, RecvName,
         RecvData, OpenTarget, WriteTarget, CloseClient, ShutdownArrives, Environment,
         LinkBreaks, EditFile, DeleteFile, vars, senderVars, linkVars
  <2>2. SendsHeader("FILE", desk[cur].len) /\ desk[cur].len \in Nat
    <3>1. cur \in Files
      BY <2>1 DEF SendHeader, IInv, SenderInv
    <3>2. desk[cur].len \in Nat
      BY <3>1 DEF IInv, TypeOK
    <3>3. SendAll(Header("FILE", desk[cur].len)) /\ UNCHANGED linkVars
      BY <2>1, SizesAssumption DEF SendHeader, Die, SendFails
    <3> QED BY <2>1, <3>1, <3>2, <3>3 DEF SendHeader, SendAll, SendsHeader, SenderKeeps
  <2>3. /\ Len(stream) \in Nat /\ Len(stream') = Len(stream) + HdrLen
        /\ stream'[Len(stream) + 1] = Head1("FILE", desk[cur].len)
    BY <2>2, HeaderSent DEF Ops
  <2>4. Len(stream') - HdrLen + 1 = Len(stream) + 1 /\ Len(stream) + 1 \in 1..Len(stream')
    BY <2>3, SizesAssumption
  <2> QED BY <2>2, <2>3, <2>4 DEF FileAt
<1> QED BY <1>1, <1>2

\* What was announced stays announced.
LEMMA StaysAnnounced ==
  ASSUME IInv, [Next]_vars, NEW k, NEW f, NEW n, Announced(k, f, n)
  PROVE  AnnouncedIn(stream', k, f, n)
<1>1. /\ Len(stream) \in Nat /\ Len(stream') \in Nat /\ Len(stream) <= Len(stream')
      /\ \A j \in 1..Len(stream) : stream'[j] = stream[j]
  BY Grows
<1> QED BY <1>1 DEF Announced, AnnouncedIn

\* The receiver does not lose sight of the packet it serves.
LEMMA HandStep ==
  ASSUME IInv, HandInv, [Next]_vars
  PROVE  HandInv'
<1> SUFFICES ASSUME rpc' \in {"data", "open", "write"}
             PROVE  AnnouncedIn(stream', rpos' - offset' - HdrLen, rfile', rsize')
  BY DEF HandInv, Announced, AnnouncedIn
<1>1. /\ Available \in Int /\ rpos + Available <= Len(stream)
      /\ rpos \in Nat /\ Len(stream) \in Nat /\ rpos <= Len(stream)
      /\ offset \in Nat /\ HdrLen \in Nat
  BY AvailableInStream, SizesAssumption DEF IInv, TypeOK
<1>2. ASSUME rpc \in {"data", "open", "write"}, UNCHANGED <<rfile, rsize>>,
             rpos' - offset' = rpos - offset
      PROVE  AnnouncedIn(stream', rpos' - offset' - HdrLen, rfile', rsize')
  <2>1. Announced(rpos - offset - HdrLen, rfile, rsize)
    BY <1>2 DEF HandInv
  <2> QED BY <1>2, <2>1, StaysAnnounced
<1>3. CASE RecvName
  <2> DEFINE k == rpos - HdrLen + 1
  <2>1. /\ rpc = "name" /\ rpc' = "data" /\ Available >= 1 /\ rpos' = rpos + 1
        /\ offset' = 0 /\ rsize' = rsize /\ stream' = stream
        /\ rfile' \in Files /\ ReadsAs(stream[rpos + 1], rfile')
    BY <1>3 DEF RecvName, Return
  <2>2. rpos >= HdrLen /\ stream[k] = Head1("FILE", rsize) /\ rsize \in Nat
    BY <2>1 DEF IInv, ReceiverInv, TypeOK
  <2>3. /\ k \in 1..Len(stream) /\ k + HdrLen = rpos + 1 /\ k + HdrLen \in 1..Len(stream)
        /\ rpos' - offset' - HdrLen = k
    BY <1>1, <2>1, <2>2, SizesAssumption
  <2>4. stream[rpos + 1] \in NameUnit
    BY <1>1, <2>2, <2>3 DEF IInv, StreamInv, HeaderAt
  <2>5. stream[rpos + 1] = Name(rfile')
    BY <2>1, <2>4 DEF ReadsAs, NameUnit, Name
  <2> HIDE DEF k
  <2> QED BY <2>1, <2>2, <2>3, <2>5 DEF AnnouncedIn
<1>4. CASE RecvData
  BY <1>1, <1>2, <1>4 DEF RecvData, Return
<1>5. CASE NotReceiving
  BY <1>2, <1>5 DEF NotReceiving, receiverVars
<1>6. CASE Accept \/ RecvHeader \/ OpenTarget \/ WriteTarget \/ CloseClient
  BY <1>2, <1>6 DEF Accept, RecvHeader, OpenTarget, WriteTarget, CloseClient, Return
<1> QED BY <1>3, <1>4, <1>5, <1>6, OthersDoNotReceive DEF Receiver

LEMMA StructStep ==
  ASSUME IInv, StructInv, [Next]_vars
  PROVE  StructInv'
  BY HeadsStep, VersionStep, OwedStep, HandStep DEF StructInv

-----------------------------------------------------------------------------
(* Packets *)

\* Once a file being sent was changed there is no way back.
LEMMA DisturbedStays ==
  ASSUME TypeOK, [Next]_vars, ~disturbed'
  PROVE  ~disturbed
<1>1. CASE Sender
  BY <1>1 DEF TypeOK, Sender, Connect, Collect, Measure, Pick, SendHeader, SendName,
       OpenFile, ReadBlock, SendEnd, Close
<1>2. CASE Receiver \/ ShutdownArrives \/ LinkBreaks \/ UNCHANGED vars
  BY <1>2 DEF Receiver, Accept, RecvHeader, RecvName, RecvData, OpenTarget, WriteTarget,
       CloseClient, ShutdownArrives, LinkBreaks, vars
<1>3. CASE \E f \in Files : DeleteFile(f) \/ \E n \in Sizes : EditFile(f, n)
  BY <1>3 DEF DeleteFile, EditFile
<1> QED BY <1>1, <1>2, <1>3 DEF Next, Environment

\* A packet is still of one version when nothing was added to it.
LEMMA VersionKept ==
  ASSUME NEW s, NEW t, NEW k \in Nat, NEW n \in Nat, OneVersion(s, k, n),
         Len(s) \in Nat, Len(t) \in Nat, Len(s) <= Len(t),
         \A j \in 1..Len(s) : t[j] = s[j],
         t = s \/ k + HdrLen + n <= Len(s)
  PROVE  OneVersion(t, k, n)
<1>1. CASE t = s
  BY <1>1
<1>2. CASE k + HdrLen + n <= Len(s)
  <2>1. PICK f \in Files, v \in 1..MaxEdits + 1 : PacketOf(s, k, n, f, v)
    BY DEF OneVersion
  <2>2. k + HdrLen \in 1..Len(s) /\ \A i \in 1..n : k + HdrLen + i \in 1..Len(s)
    BY <1>2, SizesAssumption
  <2>3. k + HdrLen <= Len(s)
    BY <2>2
  <2>4. /\ s[k + HdrLen] = Name(f)
        /\ \A i \in 1..n : s[k + HdrLen + i] = Data(f, v, i)
    <3>1. \A i \in 1..n : k + HdrLen + i <= Len(s)
      BY <2>2
    <3> QED BY <2>1, <2>3, <3>1 DEF PacketOf
  <2>5. /\ t[k + HdrLen] = Name(f)
        /\ \A i \in 1..n : t[k + HdrLen + i] = Data(f, v, i)
    BY <2>2, <2>4
  <2>6. PacketOf(t, k, n, f, v)
    BY <2>5 DEF PacketOf
  <2> QED BY <2>6 DEF OneVersion
<1> QED BY <1>1, <1>2

\* Nothing is sent over a broken connection.
LEMMA BrokenIsSilent ==
  ASSUME IInv, [Next]_vars, link = "broken"
  PROVE  stream' = stream /\ link' = "broken"
  BY SendingStep, BrokenStays DEF IInv, SendsHeader, SendsName, SendsData, Silent

AtWork == spc \in {"name", "open", "read"}

\* Everyone but the sender leaves the packet at work alone, or is seen to.
LEMMA OthersLeaveAlone ==
  ASSUME IInv, [Next]_vars, ~Sender, ~disturbed'
  PROVE  /\ UNCHANGED <<stream, spc, cur, pos, collected, todo>>
         /\ AtWork => desk'[cur] = desk[cur]
<1>1. CASE Receiver \/ ShutdownArrives \/ LinkBreaks \/ UNCHANGED vars
  BY <1>1 DEF Receiver, Accept, RecvHeader, RecvName, RecvData, OpenTarget, WriteTarget,
       CloseClient, ShutdownArrives, LinkBreaks, vars, senderVars
<1>2. ASSUME NEW f \in Files, DeleteFile(f) \/ \E n \in Sizes : EditFile(f, n)
      PROVE  /\ UNCHANGED <<stream, spc, cur, pos, collected, todo>>
             /\ AtWork => desk'[cur] = desk[cur]
  <2>1. UNCHANGED <<stream, spc, cur, pos, collected, todo>> /\ ~Disturbs(f)
    BY <1>2 DEF DeleteFile, EditFile, senderVars
  <2>2. AtWork => f # cur
    BY <2>1 DEF Disturbs, AtWork
  <2>3. AtWork => cur \in Files
    BY DEF AtWork, IInv, SenderInv
  <2> QED BY <1>2, <2>1, <2>2, <2>3 DEF DeleteFile, EditFile, IInv, TypeOK
<1>3. CASE \E f \in Files : DeleteFile(f) \/ \E n \in Sizes : EditFile(f, n)
  BY <1>2, <1>3, SizesAssumption
<1> QED BY <1>1, <1>3 DEF Next, Environment

\* The packet the sender is at work on.
LEMMA SendingGoesOn ==
  ASSUME IInv, VersionInv, [Next]_vars, ~disturbed', link # "broken",
         NEW k \in Nat, NEW n \in Nat, stream[k] = Head1("FILE", n), k \in 1..Len(stream),
         OneVersion(stream, k, n), Sending(k)
  PROVE  /\ OneVersion(stream', k, n)
         /\ k + HdrLen + n <= Len(stream') \/ Sending(k)'
<1>1. /\ Len(stream) \in Nat /\ Len(stream') \in Nat /\ HdrLen \in Nat \ {0}
      /\ \A j \in 1..Len(stream) : stream'[j] = stream[j]
  BY Grows, SizesAssumption
<1>2. n = desk[cur].len
  BY DEF Sending, Head1
<1>3. AtWork /\ cur \in Files
  BY DEF AtWork, Sending, IInv, SenderInv
<1>4. stream'[k] = stream[k]
  BY <1>1
<1>5. CASE SendName
  <2>1. spc = "name" /\ Len(stream) = k + HdrLen - 1
    BY <1>5 DEF SendName, Sending
  <2>2. /\ spc' = "open" /\ UNCHANGED <<desk, cur>>
        /\ stream' = stream \o <<Name(cur)>>
    BY <1>5 DEF SendName, SendAll, SendFails
  <2>3. Len(stream') = k + HdrLen /\ stream'[k + HdrLen] = Name(cur)
    <3>1. Len(stream') = Len(stream) + 1 /\ stream'[Len(stream) + 1] = Name(cur)
      BY <1>3, <2>2, UnitSent, UnitsSent
    <3>2. Len(stream) + 1 = k + HdrLen
      BY <1>1, <2>1
    <3> QED BY <3>1, <3>2
  <2>4. Sending(k)'
    BY <1>2, <1>4, <2>2, <2>3 DEF Sending
  <2>5. PacketOf(stream', k, n, cur, 1)
    BY <1>1, <2>3 DEF PacketOf
  <2>6. 1 \in 1..MaxEdits + 1
    BY SizesAssumption
  <2> QED BY <1>3, <2>4, <2>5, <2>6 DEF OneVersion
<1>6. CASE OpenFile
  <2>1. /\ spc = "open" /\ spc' = "read" /\ pos' = 0 /\ Exists(cur)
        /\ UNCHANGED <<desk, cur, stream>>
    BY <1>6 DEF OpenFile
  <2>2. Len(stream) = k + HdrLen /\ stream[k + HdrLen] = Name(cur)
    BY <2>1 DEF Sending
  <2>3. desk[cur].ver \in 1..MaxEdits + 1 /\ 0 <= desk[cur].len
    <3>1. desk[cur].ver \in Nat /\ desk[cur].len \in Nat /\ edits \in Nat
      BY <1>3 DEF IInv, TypeOK
    <3>2. desk[cur].ver <= MaxEdits + 1
      BY <1>3, <3>1, SizesAssumption DEF VersionInv
    <3> QED BY <2>1, <3>1, <3>2, SizesAssumption DEF Exists
  <2>4. Len(stream) = k + HdrLen + pos'
    BY <1>1, <2>1, <2>2
  <2>5. Sending(k)'
    BY <1>2, <2>1, <2>2, <2>3, <2>4 DEF Sending
  <2> QED BY <2>1, <2>5
<1>7. CASE ReadBlock
  <2>1. /\ spc = "read" /\ Len(stream) = k + HdrLen + pos /\ pos <= desk[cur].len
        /\ stream[k + HdrLen] = Name(cur)
        /\ desk[cur].ver \in 1..MaxEdits + 1
        /\ \A i \in 1..pos : stream[k + HdrLen + i] = Data(cur, desk[cur].ver, i)
    BY <1>7 DEF ReadBlock, Sending
  <2>2. pos \in Nat /\ desk[cur].len \in Nat /\ desk[cur].ver \in Nat
    BY <1>3 DEF IInv, TypeOK
  <2>3. CASE spc' = "pick" /\ pos >= desk[cur].len /\ stream' = stream
    BY <1>1, <1>2, <2>1, <2>2, <2>3
  <2>4. CASE /\ spc' = spc /\ pos' = pos + 1 /\ pos < desk[cur].len
             /\ stream' = stream \o <<Data(cur, desk[cur].ver, pos + 1)>>
    <3>1. UNCHANGED <<desk, cur>>
      BY <1>7 DEF ReadBlock
    <3>2. /\ Len(stream') = Len(stream) + 1
          /\ stream'[Len(stream) + 1] = Data(cur, desk[cur].ver, pos + 1)
      <4>1. Data(cur, desk[cur].ver, pos + 1) \in Unit
        BY <1>3, <2>2, UnitsSent
      <4> QED BY <2>4, <4>1, UnitSent
    <3>3. Len(stream') = k + HdrLen + pos' /\ pos' <= desk[cur].len
      <4>1. Len(stream') = Len(stream) + 1
        BY <3>2
      <4>2. Len(stream) = k + HdrLen + pos /\ pos' = pos + 1
        BY <2>1, <2>4
      <4>3. pos < desk[cur].len
        BY <2>4
      <4>4. Len(stream') = k + HdrLen + pos'
        BY <1>1, <2>2, <4>1, <4>2
      <4> QED BY <2>2, <4>2, <4>3, <4>4
    <3>4. stream'[k + HdrLen] = Name(cur)
      <4>1. k + HdrLen \in 1..Len(stream)
        BY <1>1, <2>1, <2>2
      <4> QED BY <1>1, <2>1, <4>1
    <3>5. ASSUME NEW i \in 1..pos' PROVE stream'[k + HdrLen + i] = Data(cur, desk[cur].ver, i)
      <4>1. CASE i \in 1..pos
        <5>1. k + HdrLen + i \in 1..Len(stream)
          BY <1>1, <2>1, <2>2, <4>1
        <5> QED BY <1>1, <2>1, <4>1, <5>1
      <4>2. CASE i \notin 1..pos
        <5>1. i = pos + 1 /\ k + HdrLen + i = Len(stream) + 1
          BY <1>1, <2>1, <2>2, <2>4, <4>2
        <5> QED BY <3>2, <5>1
      <4> QED BY <4>1, <4>2
    <3>6. Sending(k)'
      BY <1>2, <1>4, <2>1, <2>4, <3>1, <3>3, <3>4, <3>5 DEF Sending
    <3>7. PacketOf(stream', k, n, cur, desk[cur].ver)
      <4> SUFFICES ASSUME NEW i \in 1..n, k + HdrLen + i <= Len(stream')
                   PROVE  stream'[k + HdrLen + i] = Data(cur, desk[cur].ver, i)
        BY <3>4 DEF PacketOf
      <4>1. i \in 1..pos'
        BY <1>1, <2>2, <2>4, <3>3
      <4> QED BY <3>5, <4>1
    <3> QED BY <1>3, <2>1, <3>6, <3>7 DEF OneVersion
  <2> QED BY <1>7, <2>3, <2>4 DEF ReadBlock, SendAll, SendFails
<1>8. CASE ~Sender
  <2>1. UNCHANGED <<stream, spc, cur, pos>> /\ desk'[cur] = desk[cur]
    BY <1>3, <1>8, OthersLeaveAlone
  <2> QED BY <2>1 DEF Sending
<1>9. CASE Connect \/ Collect \/ Measure \/ Pick \/ SendHeader \/ SendEnd \/ Close
  BY <1>3, <1>9 DEF AtWork, Connect, Collect, Measure, Pick, SendHeader, SendEnd, Close
<1> QED BY <1>5, <1>6, <1>7, <1>8, <1>9 DEF Sender

\* A FILE header whose announced units are not all there is the last packet.
LEMMA PacketStep ==
  ASSUME IInv, VersionInv, PacketInv, [Next]_vars, ~disturbed'
  PROVE  PacketInv'
<1> SUFFICES ASSUME NEW k \in 1..Len(stream'), NEW n \in Nat, stream'[k] = Head1("FILE", n)
             PROVE  /\ OneVersion(stream', k, n)
                    /\ k + HdrLen + n <= Len(stream') \/ link' = "broken" \/ Sending(k)'
  BY DEF PacketInv, FileAt
<1>1. /\ Len(stream) \in Nat /\ Len(stream') \in Nat /\ Len(stream) <= Len(stream')
      /\ \A j \in 1..Len(stream) : stream'[j] = stream[j]
      /\ HdrLen \in Nat /\ k \in Nat
  BY Grows, SizesAssumption
<1>2. CASE k \in 1..Len(stream)
  <2>1. stream[k] = Head1("FILE", n) /\ FileAt(stream, k, n)
    BY <1>1, <1>2 DEF FileAt
  <2>2. /\ OneVersion(stream, k, n)
        /\ k + HdrLen + n <= Len(stream) \/ link = "broken" \/ Sending(k)
    BY <1>2, <2>1 DEF PacketInv
  <2>3. CASE k + HdrLen + n <= Len(stream)
    <3>1. OneVersion(stream', k, n)
      BY <1>1, <2>2, <2>3, VersionKept
    <3> QED BY <1>1, <2>3, <3>1
  <2>4. CASE link = "broken"
    BY <2>2, <2>4, BrokenIsSilent
  <2>5. CASE Sending(k) /\ link # "broken"
    BY <1>1, <1>2, <2>1, <2>2, <2>5, SendingGoesOn
  <2> QED BY <2>2, <2>3, <2>4, <2>5
<1>3. CASE k \notin 1..Len(stream)
  <2>1. stream'[k] \in HeadUnit
    BY UnitsSent DEF Ops
  <2>2. PICK op \in Ops, m \in Nat : stream'[k] = Head1(op, m) /\ SendsHeader(op, m)
    BY <1>3, <2>1, NewHead
  <2>3. k = Len(stream) + 1 /\ Len(stream') = Len(stream) + HdrLen
    BY <1>3, <2>1, NewHead
  <2>4. op = "FILE" /\ m = n
    BY <2>2 DEF Head1
  <2>5. /\ spc' = "name" /\ cur \in Files /\ n = desk[cur].len /\ UNCHANGED <<desk, cur>>
    BY <2>2, <2>4 DEF SendsHeader, SenderKeeps
  <2>6. Len(stream') = k + HdrLen - 1 /\ ~(k + HdrLen <= Len(stream'))
    BY <1>1, <2>3
  <2>7. Sending(k)'
    BY <2>5, <2>6 DEF Sending
  <2>8. PacketOf(stream', k, n, cur, 1) /\ 1 \in 1..MaxEdits + 1
    BY <2>6, SizesAssumption DEF PacketOf
  <2> QED BY <2>5, <2>7, <2>8 DEF OneVersion
<1> QED BY <1>2, <1>3

-----------------------------------------------------------------------------
(* END *)

LEMMA InStreamStays ==
  ASSUME IInv, [Next]_vars, NEW f, InStream(f)
  PROVE  InStream(f)'
<1>1. PICK k \in 1..Len(stream), n \in Nat : Announced(k, f, n)
  BY DEF InStream
<1>2. AnnouncedIn(stream', k, f, n)
  BY <1>1, StaysAnnounced
<1> QED BY <1>2 DEF InStream, Announced, AnnouncedIn

\* The name that is sent completes the announcement of the file.
LEMMA NameAnnounces ==
  ASSUME IInv, OwedInv, SendsName
  PROVE  InStream(cur)'
<1> DEFINE k == Len(stream) - HdrLen + 1
<1>1. PICK n \in Nat : FileAt(stream, k, n)
  BY DEF OwedInv, SendsName
<1>2. Name(cur) \in Unit /\ stream' = stream \o <<Name(cur)>> /\ cur' = cur
  BY UnitsSent DEF SendsName, SenderKeeps
<1>3. /\ Len(stream) \in Nat /\ Len(stream') = Len(stream) + 1
      /\ stream'[Len(stream) + 1] = Name(cur)
  BY <1>2, UnitSent
<1>4. k \in 1..Len(stream) /\ stream[k] = Head1("FILE", n)
  BY <1>1 DEF FileAt
<1>5. k + HdrLen = Len(stream) + 1 /\ k \in 1..Len(stream')
      /\ k + HdrLen \in 1..Len(stream')
  BY <1>3, <1>4, SizesAssumption
<1>6. stream'[k] = stream[k]
  <2>1. <<Name(cur)>> \in Seq(Unit) /\ TypeOK
    BY <1>2, UnitIsSeq DEF IInv
  <2> HIDE DEF k
  <2> QED BY <1>2, <1>4, <2>1, Appended
<1> HIDE DEF k
<1> QED BY <1>2, <1>3, <1>4, <1>5, <1>6 DEF InStream, Announced

\* Where a file that is collected can be.
Whereabouts(f) ==
  \/ f \in todo
  \/ f = cur /\ spc \in {"header", "name"}
  \/ InStream(f)

Underway == spc \in {"measure", "pick", "header", "name", "open", "read", "end"} /\ link = "up"

\* A connection that is up was up before, or is new.
LEMMA LinkWasUp ==
  ASSUME IInv, [Next]_vars, link' = "up"
  PROVE  link = "up" \/ Connect
<1>1. CASE Sender
  BY <1>1 DEF Sender, Connect, Collect, Measure, Pick, SendHeader, SendName,
       OpenFile, ReadBlock, SendEnd, Close, Die, Break, linkVars
<1>2. CASE Receiver
  BY <1>2 DEF Receiver, Accept, RecvHeader, RecvName, RecvData, OpenTarget,
       WriteTarget, CloseClient, linkVars
<1>3. CASE ShutdownArrives \/ Environment \/ UNCHANGED vars
  BY <1>3 DEF ShutdownArrives, Environment, LinkBreaks, Break, EditFile,
       DeleteFile, vars, linkVars
<1> QED BY <1>1, <1>2, <1>3 DEF Next

LEMMA WhereaboutsStep ==
  ASSUME IInv, OwedInv, EndInv, [Next]_vars, ~disturbed', Underway',
         NEW f \in collected'
  PROVE  Whereabouts(f)'
<1>1. link' = "up" /\ (link = "up" \/ Connect)
  BY LinkWasUp DEF Underway
<1>2. ~Connect /\ link = "up"
  BY <1>1 DEF Connect, Underway
<1>3. CASE Collect
  BY <1>3 DEF Collect, Whereabouts
<1>4. CASE ~Collect
  <2>1. collected' = collected /\ Underway
    <3>1. CASE Sender
      BY <1>2, <1>4, <3>1 DEF Sender, Measure, Pick, SendHeader, SendName,
           OpenFile, ReadBlock, SendEnd, Close, Underway
    <3>2. CASE ~Sender
      BY <1>2, <3>2, OthersLeaveAlone DEF Underway
    <3> QED BY <3>1, <3>2
  <2>2. f \in todo \/ (f = cur /\ spc \in {"header", "name"}) \/ InStream(f)
    BY <2>1 DEF EndInv, Underway
  <2>3. CASE InStream(f)
    BY <2>3, InStreamStays DEF Whereabouts
  <2>4. CASE Pick
    BY <2>2, <2>3, <2>4 DEF Pick, Whereabouts
  <2>5. CASE SendName
    <3>1. SendsName
      BY <1>2, <2>5 DEF SendName, SendAll, SendFails, SendsName, SenderKeeps,
           IInv, SenderInv
    <3>2. InStream(cur)' /\ cur' = cur
      BY <3>1, NameAnnounces DEF SendsName, SenderKeeps
    <3>3. f = cur => InStream(f)'
      BY <3>2 DEF InStream, Announced
    <3>4. todo' = todo
      BY <2>5 DEF SendName
    <3> QED BY <2>2, <2>3, <3>3, <3>4 DEF Whereabouts
  <2>6. CASE SendHeader
    <3>1. spc' = "name" /\ UNCHANGED <<todo, cur>>
      BY <1>2, <2>6 DEF SendHeader, SendFails, Die, Underway
    <3> QED BY <2>2, <2>3, <3>1 DEF Whereabouts
  <2>7. CASE Measure \/ OpenFile \/ ReadBlock
    <3>1. UNCHANGED todo /\ spc \notin {"header", "name"}
      BY <2>7 DEF Measure, OpenFile, ReadBlock
    <3> QED BY <2>2, <2>3, <3>1 DEF Whereabouts
  <2>8. ~SendEnd /\ ~Close
    BY DEF SendEnd, Close, Underway
  <2>9. CASE ~Sender
    <3>1. UNCHANGED <<todo, cur, spc>>
      BY <2>9, OthersLeaveAlone
    <3> QED BY <2>2, <2>3, <3>1 DEF Whereabouts
  <2> QED BY <1>2, <1>4, <2>4, <2>5, <2>6, <2>7, <2>8, <2>9 DEF Sender
<1> QED BY <1>3, <1>4

\* END is sent when nothing is left to send.
LEMMA NothingLeft ==
  ASSUME IInv, EndInv, [Next]_vars, ~disturbed', spc' = "end", link' = "up"
  PROVE  todo' = {}
<1>1. link = "up"
  BY LinkWasUp DEF Connect
<1>2. CASE Sender
  BY <1>1, <1>2 DEF Sender, Connect, Collect, Measure, Pick, SendHeader, SendName,
       OpenFile, ReadBlock, SendEnd, Close, Die, SendFails
<1>3. CASE ~Sender
  BY <1>1, <1>3, OthersLeaveAlone DEF EndInv
<1> QED BY <1>2, <1>3

\* END is sent once, and is the last that is sent.
LEMMA EndIsLast ==
  ASSUME IInv, EndInv, [Next]_vars, ~disturbed', NEW k \in 1..Len(stream'),
         EndAt(stream', k)
  PROVE  /\ spc' \in {"close", "done"}
         /\ k + HdrLen = Len(stream') + 1
         /\ \A f \in collected' : InStream(f)'
<1>1. CASE k \in 1..Len(stream)
  <2>1. stream'[k] = stream[k]
    BY <1>1, Grows
  <2>2. EndAt(stream, k)
    BY <1>1, <2>1 DEF EndAt
  <2>3. /\ spc \in {"close", "done"} /\ k + HdrLen = Len(stream) + 1
        /\ \A f \in collected : InStream(f)
    BY <1>1, <2>2 DEF EndInv
  <2>4. stream' = stream
    BY <2>3, SendingStep DEF SendsHeader, SendsName, SendsData, Silent
  <2>5. spc' \in {"close", "done"} /\ collected' = collected
    <3>1. CASE Sender
      BY <2>3, <3>1 DEF Sender, Connect, Collect, Measure, Pick, SendHeader, SendName,
           OpenFile, ReadBlock, SendEnd, Close
    <3>2. CASE ~Sender
      BY <2>3, <3>2, OthersLeaveAlone
    <3> QED BY <3>1, <3>2
  <2> QED BY <2>3, <2>4, <2>5, InStreamStays
<1>2. CASE k \notin 1..Len(stream)
  <2>1. stream'[k] \in HeadUnit /\ stream'[k].op = "END"
    BY DEF EndAt
  <2>2. /\ k = Len(stream) + 1 /\ Len(stream') = Len(stream) + HdrLen
        /\ \E op \in Ops, m \in Nat : stream'[k] = Head1(op, m) /\ SendsHeader(op, m)
    BY <1>2, <2>1, NewHead
  <2>3. PICK op \in Ops, m \in Nat : stream'[k] = Head1(op, m) /\ SendsHeader(op, m)
    BY <2>2
  <2>4. op = "END"
    BY <2>1, <2>3 DEF Head1
  <2>5. spc = "end" /\ spc' = "close" /\ link = "up" /\ collected' = collected
    BY <2>3, <2>4 DEF SendsHeader, SenderKeeps
  <2>6. \A f \in collected : InStream(f)
    BY <2>5 DEF EndInv
  <2>7. k + HdrLen = Len(stream') + 1
    BY <2>2, Grows, SizesAssumption
  <2> QED BY <2>5, <2>6, <2>7, InStreamStays
<1> QED BY <1>1, <1>2

LEMMA EndStep ==
  ASSUME IInv, OwedInv, EndInv, [Next]_vars, ~disturbed'
  PROVE  EndInv'
<1>1. \A k \in 1..Len(stream') : EndAt(stream', k) =>
        /\ spc' \in {"close", "done"}
        /\ k + HdrLen = Len(stream') + 1
        /\ \A f \in collected' : InStream(f)'
  BY EndIsLast
<1>2. spc' = "end" /\ link' = "up" => todo' = {}
  BY NothingLeft
<1>3. Underway' => \A f \in collected' : Whereabouts(f)'
  BY WhereaboutsStep
<1> QED BY <1>1, <1>2, <1>3 DEF EndInv, Underway, Whereabouts

-----------------------------------------------------------------------------
(* The receiver *)

\* Where the packet at hand is, and what is in it as far as it was received.
LEMMA AtHand ==
  ASSUME IInv, StructInv, PacketInv, rpc \in {"data", "open", "write"}
  PROVE  LET k == rpos - offset - HdrLen IN
         /\ k \in 1..rpos /\ k \in Nat /\ FileAt(stream, k, rsize)
         /\ rfile \in Files /\ stream[k + HdrLen] = Name(rfile)
         /\ k + HdrLen + offset = rpos /\ k + HdrLen \in 1..rpos
         /\ \E v \in 1..MaxEdits + 1 :
              \A i \in 1..rsize : k + HdrLen + i <= Len(stream)
                                    => stream[k + HdrLen + i] = Data(rfile, v, i)
<1> DEFINE k == rpos - offset - HdrLen
<1>1. Announced(k, rfile, rsize) /\ rfile \in Files /\ offset \in Nat /\ rsize \in Nat
  BY DEF StructInv, HandInv, IInv, ReceiverInv, TypeOK
<1>2. rpos \in Nat /\ Len(stream) \in Nat /\ rpos <= Len(stream) /\ HdrLen \in Nat \ {0}
  BY AvailableInStream, SizesAssumption DEF IInv
<1>3. k \in 1..Len(stream) /\ k + HdrLen \in 1..Len(stream)
  <2> HIDE DEF k
  <2> QED BY <1>1 DEF Announced
<1>4. k \in 1..rpos /\ k \in Nat /\ k + HdrLen + offset = rpos /\ k + HdrLen \in 1..rpos
  BY <1>1, <1>2, <1>3
<1> HIDE DEF k
<1>5. FileAt(stream, k, rsize) /\ stream[k + HdrLen] = Name(rfile)
  BY <1>1, <1>3 DEF Announced, FileAt
<1>6. OneVersion(stream, k, rsize)
  BY <1>1, <1>3, <1>5 DEF PacketInv
<1>7. PICK f \in Files, v \in 1..MaxEdits + 1 : PacketOf(stream, k, rsize, f, v)
  BY <1>6 DEF OneVersion
<1>8. f = rfile
  BY <1>2, <1>3, <1>5, <1>7 DEF PacketOf, Name
<1>9. \A i \in 1..rsize : k + HdrLen + i <= Len(stream)
                            => stream[k + HdrLen + i] = Data(rfile, v, i)
  BY <1>2, <1>3, <1>7, <1>8 DEF PacketOf
<1>10. \E w \in 1..MaxEdits + 1 :
         \A i \in 1..rsize : k + HdrLen + i <= Len(stream)
                               => stream[k + HdrLen + i] = Data(rfile, w, i)
  BY <1>9
<1> QED BY <1>1, <1>4, <1>5, <1>10 DEF k

\* What is written is one version of the file.
LEMMA WrittenIntact ==
  ASSUME IInv, StructInv, PacketInv, WrittenInv, [Next]_vars
  PROVE  WrittenInv'
<1> SUFFICES ASSUME NEW f \in Files, peer'[f].state = "full"
             PROVE  \E v \in 1..MaxEdits + 1 : UnitsOf(peer'[f].units, f, v)
  BY DEF WrittenInv, Complete
<1>1. peer \in [Files -> [state : {"none", "half", "full"}, units : Seq(Unit)]]
  BY DEF IInv, TypeOK
<1>2. CASE peer'[f] = peer[f]
  BY <1>2 DEF WrittenInv, Complete
<1>3. CASE NotReceiving
  BY <1>2, <1>3 DEF NotReceiving, receiverVars
<1>4. CASE Accept \/ RecvHeader \/ RecvName \/ RecvData \/ CloseClient
  BY <1>2, <1>4 DEF Accept, RecvHeader, RecvName, RecvData, CloseClient
<1>5. CASE OpenTarget
  <2>1. peer'[f] = peer[f] \/ peer'[f] = CutShort(<<>>)
    BY <1>1, <1>5 DEF OpenTarget
  <2> QED BY <1>2, <2>1 DEF CutShort
<1>6. CASE WriteTarget
  <2> DEFINE t == SubSeq(stream, rpos - rsize + 1, rpos)
  <2>0. /\ Whole(t) \/ Cutting
        /\ f = rfile => peer'[f] = Written(t)
        /\ f # rfile => peer'[f] = peer[f]
    <3>1. Whole(t) \/ Cutting
      BY <1>6, WriteDoes DEF IInv
    <3> HIDE DEF t
    <3> QED BY <1>1, <3>1 DEF Whole, Cutting
  <2>1. CASE f # rfile
    BY <1>2, <2>0, <2>1
  <2>2. CASE f = rfile
    <3> DEFINE s == SubSeq(stream, rpos - rsize + 1, rpos)
               m == rpos - rsize + 1
               k == rpos - offset - HdrLen
    <3>1. rpc = "write" /\ offset = rsize
      BY <1>6 DEF WriteTarget, IInv, ReceiverInv
    <3>2. peer'[f].units = s
      BY <2>0, <2>2 DEF Written
    <3>3. /\ rsize \in Nat /\ rpos \in Nat /\ rpos <= Len(stream) /\ Len(stream) \in Nat
          /\ HdrLen \in Nat /\ offset \in Nat /\ rsize <= rpos
      BY <3>1, AvailableInStream, SizesAssumption DEF IInv, TypeOK, ReceiverInv
    <3>4. Len(s) = rsize
      BY <3>1, WrittenUnits DEF IInv
    <3>5. \A i \in 1..rsize : s[i] = stream[m + i - 1]
      <4>1. m \in Int /\ rpos \in Int /\ m >= 1
        BY <3>3
      <4>2. \A i \in m..rpos : stream[i] \in Unit
        <5> SUFFICES ASSUME NEW i \in m..rpos PROVE stream[i] \in Unit
          OBVIOUS
        <5>1. i \in 1..Len(stream)
          BY <3>3, <4>1
        <5> QED BY <5>1, ElementOfSeq DEF IInv, TypeOK
      <4>3. \A i \in 1..rpos - m + 1 : SubSeq(stream, m, rpos)[i] = stream[m + i - 1]
        <5> HIDE DEF m
        <5> QED BY <4>1, <4>2, SubSeqProperties
      <4>4. rpos - m + 1 = rsize
        BY <3>3
      <4> QED BY <4>3, <4>4
    <3>6. PICK v \in 1..MaxEdits + 1 :
            \A i \in 1..rsize : k + HdrLen + i <= Len(stream)
                                  => stream[k + HdrLen + i] = Data(rfile, v, i)
      BY <3>1, AtHand
    <3>7. ASSUME NEW i \in 1..rsize PROVE s[i] = Data(rfile, v, i)
      <4>1. k + HdrLen + i = m + i - 1 /\ k + HdrLen + i <= Len(stream)
        BY <3>1, <3>3
      <4> HIDE DEF k, m, s
      <4>2. stream[k + HdrLen + i] = Data(rfile, v, i)
        BY <3>6, <4>1
      <4> QED BY <3>5, <4>1, <4>2
    <3> HIDE DEF s
    <3> QED BY <2>2, <3>2, <3>4, <3>7 DEF UnitsOf
  <2> QED BY <2>1, <2>2
<1> QED BY <1>3, <1>4, <1>5, <1>6, OthersDoNotReceive DEF Receiver

\* A packet that is served stays served, whatever the receiver does.
LEMMA TakenStays ==
  ASSUME IInv, [Next]_vars, NEW f \in Files, Taken(f)
  PROVE  Taken(f)'
<1>1. peer \in [Files -> [state : {"none", "half", "full"}, units : Seq(Unit)]]
  BY DEF IInv, TypeOK
<1>2. CASE NotReceiving
  BY <1>2 DEF NotReceiving, receiverVars, Taken, Complete
<1>3. CASE Accept \/ RecvHeader \/ RecvName \/ RecvData \/ CloseClient
  BY <1>3 DEF Accept, RecvHeader, RecvName, RecvData, CloseClient, Taken, Complete
<1>4. CASE OpenTarget
  <2>1. rpc = "open"
    BY <1>4 DEF OpenTarget
  <2>2. CASE f \in refused
    BY <1>4, <2>2 DEF OpenTarget, Taken
  <2>3. CASE Complete(f)
    <3>1. peer'[f] = peer[f] \/ (rfile' = f /\ rpc' = "write")
      BY <1>1, <1>4 DEF OpenTarget
    <3> QED BY <2>3, <3>1 DEF Taken, Complete
  <2> QED BY <2>1, <2>2, <2>3 DEF Taken
<1>5. CASE WriteTarget
  <2> DEFINE t == SubSeq(stream, rpos - rsize + 1, rpos)
  <2>0. Whole(t) \/ Cutting
    BY <1>5, WriteDoes DEF IInv
  <2> HIDE DEF t
  <2>1. CASE f \in refused
    BY <2>0, <2>1 DEF Whole, Cutting, Taken
  <2>2. CASE f = rfile
    BY <1>1, <2>0, <2>2 DEF Whole, Cutting, Taken, Complete, Written
  <2>3. CASE f # rfile /\ f \notin refused
    <3>1. peer'[f] = peer[f]
      BY <1>1, <2>0, <2>3 DEF Whole, Cutting
    <3> QED BY <1>5, <2>3, <3>1 DEF WriteTarget, Taken, Complete
  <2> QED BY <2>1, <2>2, <2>3
<1> QED BY <1>2, <1>3, <1>4, <1>5, OthersDoNotReceive DEF Receiver

LEMMA ServedStays ==
  ASSUME IInv, [Next]_vars, rpos <= rpos', rpos' \in Nat, NEW k \in 1..rpos, Served(k)
  PROVE  Served(k)'
<1>1. PICK f \in Files : stream[k + HdrLen] = Name(f) /\ Taken(f)
  BY DEF Served
<1>2. k + HdrLen \in 1..Len(stream) /\ k + HdrLen <= rpos /\ k + HdrLen \in Nat /\ rpos \in Nat
  BY AvailableInStream, SizesAssumption DEF Served, IInv
<1>3. stream'[k + HdrLen] = Name(f)
  BY <1>1, <1>2, Grows
<1>4. Taken(f)'
  BY <1>1, TakenStays
<1>5. k + HdrLen <= rpos'
  BY <1>2
<1> QED BY <1>3, <1>4, <1>5 DEF Served

\* The receiver serves every packet it passes.
LEMMA ServedInvStep ==
  ASSUME IInv, StructInv, PacketInv, ServedInv, [Next]_vars
  PROVE  ServedInv'
<1> SUFFICES ASSUME rpc' \notin {"close", "done"},
                    NEW k \in 1..rpos', NEW n \in Nat, stream'[k] = Head1("FILE", n)
             PROVE  Served(k)' \/ InHand(k)'
  BY DEF ServedInv, FileAt
<1>1. /\ Available \in Int /\ rpos + Available <= Len(stream)
      /\ rpos \in Nat /\ Len(stream) \in Nat /\ rpos <= Len(stream)
      /\ HdrLen \in Nat \ {0} /\ offset \in Nat /\ rsize \in Nat
  BY AvailableInStream, SizesAssumption DEF IInv, TypeOK
<1>2. rpos <= rpos' /\ rpos' \in Nat
  <2>1. CASE NotReceiving
    BY <1>1, <2>1 DEF NotReceiving, receiverVars
  <2>2. CASE Receiver
    BY <1>1, <2>2 DEF Receiver, Accept, RecvHeader, RecvName,
         RecvData, OpenTarget, WriteTarget, CloseClient
  <2> QED BY <2>1, <2>2, OthersDoNotReceive
<1>3. rpc \notin {"close", "done"}
  <2>1. CASE NotReceiving
    BY <2>1 DEF NotReceiving, receiverVars
  <2>2. CASE Receiver
    BY <2>2 DEF Receiver, Accept, RecvHeader, RecvName,
         RecvData, OpenTarget, WriteTarget, CloseClient
  <2> QED BY <2>1, <2>2, OthersDoNotReceive
<1>4. k \in 1..rpos => stream[k] = Head1("FILE", n) /\ (Served(k)' \/ InHand(k))
  <2> SUFFICES ASSUME k \in 1..rpos
               PROVE  stream[k] = Head1("FILE", n) /\ (Served(k)' \/ InHand(k))
    OBVIOUS
  <2>1. k \in 1..Len(stream)
    BY <1>1
  <2>2. stream[k] = Head1("FILE", n)
    BY <2>1, Grows
  <2>3. Served(k) \/ InHand(k)
    BY <1>3, <2>1, <2>2 DEF ServedInv, FileAt
  <2> QED BY <1>2, <2>2, <2>3, ServedStays
<1>5. Head1("FILE", n) \in HeadUnit
  BY UnitsSent DEF Ops
<1>6. CASE NotReceiving
  BY <1>4, <1>6 DEF NotReceiving, receiverVars, InHand
<1>7. CASE Accept
  BY <1>4, <1>7 DEF Accept, InHand
<1>8. CASE RecvHeader
  <2>1. /\ rpc = "header" /\ Available >= HdrLen /\ rpos' = rpos + HdrLen
        /\ stream[rpos + 1].kind = "head" /\ stream' = stream
        /\ \/ stream[rpos + 1].op = "HELLO"
           \/ stream[rpos + 1].op = "FILE" /\ rpc' = "name"
    BY <1>8 DEF RecvHeader, Return
  <2>2. CASE k \in 1..rpos
    BY <1>4, <2>1, <2>2 DEF InHand
  <2>3. CASE k = rpos + 1
    <3>1. stream[rpos + 1].op = "FILE"
      BY <2>1, <2>3 DEF Head1
    <3>2. rpc' = "name"
      BY <2>1, <3>1
    <3>3. k = rpos' - HdrLen + 1
      BY <1>1, <2>1, <2>3
    <3> QED BY <3>2, <3>3 DEF InHand
  <2>4. CASE k > rpos + 1
    <3>1. rpos + 1 \in 1..Len(stream)
      BY <1>1, <2>1
    <3>2. stream[rpos + 1] \in Unit
      BY <3>1, ElementOfSeq DEF IInv, TypeOK
    <3>3. stream[rpos + 1] \in HeadUnit
      BY <2>1, <3>2 DEF Unit, HeadUnit, RestUnit, NameUnit, DataUnit
    <3>4. HeadAt(stream, rpos + 1)
      BY <3>1, <3>3 DEF StructInv, HeadsInv
    <3>5. k \in (rpos + 1) + 1 .. (rpos + 1) + HdrLen - 1
      BY <1>1, <2>1, <2>4
    <3>6. stream[k] \in RestUnit
      BY <3>4, <3>5 DEF HeadAt
    <3> QED BY <1>5, <2>1, <3>6, UnitsSent
  <2> QED BY <1>1, <2>2, <2>3, <2>4
<1>9. CASE RecvName
  <2>1. /\ rpc = "name" /\ rpc' = "data" /\ Available >= 1 /\ rpos' = rpos + 1
        /\ offset' = 0 /\ stream' = stream
    BY <1>9 DEF RecvName, Return
  <2>2. rpos >= HdrLen /\ stream[rpos - HdrLen + 1] = Head1("FILE", rsize)
    BY <2>1 DEF IInv, ReceiverInv
  <2>3. k # rpos + 1
    <3> DEFINE h == rpos - HdrLen + 1
    <3>1. h \in 1..Len(stream) /\ h + HdrLen = rpos + 1 /\ rpos + 1 <= Len(stream)
      BY <1>1, <2>1, <2>2
    <3>2. stream[rpos + 1] \in NameUnit
      BY <1>1, <2>2, <3>1 DEF IInv, StreamInv, HeaderAt
    <3>3. Head1("FILE", n) \notin NameUnit
      BY DEF Head1, NameUnit
    <3> QED BY <2>1, <3>2, <3>3
  <2>4. k \in 1..rpos
    BY <1>1, <2>1, <2>3
  <2>5. InHand(k) => k = rpos' - offset' - HdrLen
    BY <1>1, <2>1 DEF InHand
  <2> QED BY <1>4, <2>1, <2>4, <2>5 DEF InHand
<1>10. CASE RecvData
  <2>1. /\ rpc = "data" /\ stream' = stream
        /\ \/ offset < rsize /\ Available >= 1 /\ rpos' = rpos + 1 /\ offset' = offset + 1
              /\ rpc' = "data"
           \/ rpc' = "open" /\ rpos' = rpos /\ offset' = offset
    BY <1>10 DEF RecvData, Return
  <2>2. CASE k \in 1..rpos
    <3>1. InHand(k) => k = rpos' - offset' - HdrLen
      BY <1>1, <2>1 DEF InHand
    <3> QED BY <1>4, <2>1, <2>2, <3>1 DEF InHand
  <2>3. CASE k \notin 1..rpos
    <3> DEFINE h == rpos - offset - HdrLen
    <3>1. k = rpos + 1 /\ offset + 1 \in 1..rsize /\ rpos + 1 <= Len(stream)
      BY <1>1, <2>1, <2>3
    <3>2. PICK v \in 1..MaxEdits + 1 :
            \A i \in 1..rsize : h + HdrLen + i <= Len(stream)
                                  => stream[h + HdrLen + i] = Data(rfile, v, i)
      BY <2>1, AtHand
    <3>3. h + HdrLen + (offset + 1) = rpos + 1
      BY <1>1
    <3> HIDE DEF h
    <3>4. stream[rpos + 1] = Data(rfile, v, offset + 1)
      BY <3>1, <3>2, <3>3
    <3>5. Data(rfile, v, offset + 1) # Head1("FILE", n)
      BY DEF Data, Head1
    <3> QED BY <2>1, <3>1, <3>4, <3>5
  <2> QED BY <2>2, <2>3
<1>11. CASE OpenTarget
  <2>1. rpc = "open" /\ UNCHANGED <<rpos, offset, rfile, rsize, stream>>
    BY <1>11 DEF OpenTarget
  <2>2. k \in 1..rpos
    BY <2>1
  <2>3. CASE rpc' = "write"
    BY <1>4, <2>1, <2>2, <2>3 DEF InHand
  <2>4. CASE rpc' = "header" /\ refused' = refused \cup {rfile}
    <3>1. InHand(k) => Served(k)'
      <4> SUFFICES ASSUME InHand(k) PROVE Served(k)'
        OBVIOUS
      <4>1. k = rpos - offset - HdrLen
        BY <2>1 DEF InHand
      <4>2. /\ rfile \in Files /\ stream[k + HdrLen] = Name(rfile) /\ k + HdrLen \in 1..rpos
        BY <2>1, <4>1, AtHand
      <4> QED BY <2>1, <2>4, <4>2 DEF Served, Taken
    <3> QED BY <1>4, <2>2, <3>1
  <2> QED BY <1>11, <2>3, <2>4 DEF OpenTarget
<1>12. CASE WriteTarget
  <2>1. rpc = "write" /\ UNCHANGED <<rpos, offset, rfile, rsize, stream>>
    BY <1>12 DEF WriteTarget
  <2>2. k \in 1..rpos
    BY <2>1
  <2>3. InHand(k) => Served(k)'
    <3> SUFFICES ASSUME InHand(k) PROVE Served(k)'
      OBVIOUS
    <3>1. k = rpos - offset - HdrLen
      BY <2>1 DEF InHand
    <3>2. /\ rfile \in Files /\ stream[k + HdrLen] = Name(rfile) /\ k + HdrLen \in 1..rpos
      BY <2>1, <3>1, AtHand
    <3>3. peer'[rfile].state = "full" \/ rfile \in refused'
      <4> DEFINE t == SubSeq(stream, rpos - rsize + 1, rpos)
      <4>1. peer \in [Files -> [state : {"none", "half", "full"}, units : Seq(Unit)]]
        BY DEF IInv, TypeOK
      <4>2. Whole(t) \/ Cutting
        BY <1>12, WriteDoes DEF IInv
      <4> HIDE DEF t
      <4> QED BY <3>2, <4>1, <4>2 DEF Whole, Cutting, Written
    <3> QED BY <2>1, <3>2, <3>3 DEF Served, Taken, Complete
  <2> QED BY <1>4, <2>2, <2>3
<1>13. ~CloseClient
  BY DEF CloseClient
<1> QED BY <1>6, <1>7, <1>8, <1>9, <1>10, <1>11, <1>12, <1>13, OthersDoNotReceive
        DEF Receiver

\* At END every file of the upload lies behind the receiver.
LEMMA EndReached ==
  ASSUME IInv, StructInv, EndInv, ServedInv, ResultInv, RecvHeader,
         result' = "true"
  PROVE  /\ spc \in {"close", "done"}
         /\ \A f \in collected : Complete(f) \/ f \in refused
<1> USE DEF IInv
<1>1. /\ Available \in Int /\ rpos + Available <= Len(stream)
      /\ rpos \in Nat /\ Len(stream) \in Nat /\ rpos <= Len(stream)
      /\ HdrLen \in Nat \ {0}
  BY AvailableInStream, SizesAssumption
<1>2. CASE result = "true"
  BY <1>2 DEF RecvHeader, ResultInv
<1>3. CASE result # "true"
  <2> DEFINE e == rpos + 1
  <2>1. rpc = "header" /\ Available >= HdrLen /\ stream[e].kind = "head" /\ stream[e].op = "END"
    BY <1>3 DEF RecvHeader, Return
  <2>2. e \in 1..Len(stream)
    BY <1>1, <2>1
  <2>3. stream[e] \in HeadUnit
    <3>1. stream[e] \in Unit
      BY <2>2, ElementOfSeq DEF TypeOK
    <3> QED BY <2>1, <3>1 DEF Unit, HeadUnit, RestUnit, NameUnit, DataUnit
  <2>4. EndAt(stream, e)
    BY <2>1, <2>2, <2>3 DEF EndAt
  <2>5. /\ spc \in {"close", "done"} /\ e + HdrLen = Len(stream) + 1
        /\ \A f \in collected : InStream(f)
    BY <2>2, <2>4 DEF EndInv
  <2>6. HeadAt(stream, e)
    BY <2>2, <2>3 DEF StructInv, HeadsInv
  <2>7. ASSUME NEW f \in collected PROVE Complete(f) \/ f \in refused
    <3>1. PICK k \in 1..Len(stream), n \in Nat : Announced(k, f, n)
      BY <2>5 DEF InStream
    <3>2. stream[k] = Head1("FILE", n) /\ stream[k + HdrLen] = Name(f)
      BY <3>1 DEF Announced
    <3>3. k # e
      BY <2>1, <3>2 DEF Head1
    <3>4. k \notin e + 1 .. e + HdrLen - 1
      <4>1. stream[k] \in HeadUnit
        BY <3>2, UnitsSent DEF Ops
      <4> QED BY <2>6, <4>1, UnitsSent DEF HeadAt
    <3>5. k \in 1..rpos
      BY <1>1, <2>5, <3>3, <3>4
    <3>6. Served(k)
      BY <2>1, <3>2, <3>5 DEF ServedInv, FileAt, InHand
    <3>7. PICK g \in Files : stream[k + HdrLen] = Name(g) /\ Taken(g)
      BY <3>6 DEF Served
    <3>8. g = f
      BY <3>2, <3>7 DEF Name
    <3> QED BY <2>1, <3>7, <3>8 DEF Taken
  <2> QED BY <2>5, <2>7
<1> QED BY <1>2, <1>3

LEMMA ResultStep ==
  ASSUME IInv, StructInv, EndInv, ServedInv, ResultInv, [Next]_vars, ~disturbed'
  PROVE  ResultInv'
<1> SUFFICES ASSUME result' = "true"
             PROVE  /\ rpc' \in {"close", "done"}
                    /\ spc' \in {"close", "done"}
                    /\ \A f \in collected' : peer'[f].state = "full" \/ f \in refused'
  BY DEF ResultInv, Complete
<1>1. CASE RecvHeader
  <2>1. /\ UNCHANGED <<spc, collected, peer, refused>>
        /\ spc \in {"close", "done"}
        /\ \A f \in collected : Complete(f) \/ f \in refused
    BY <1>1, EndReached DEF RecvHeader, senderVars
  <2>2. rpc' \in {"close", "done"}
    BY <1>1 DEF RecvHeader, Return, ResultInv
  <2> QED BY <2>1, <2>2 DEF Complete
<1>2. CASE ~RecvHeader
  <2>1. result = "true"
    <3>1. CASE Receiver
      BY <1>2, <3>1 DEF Receiver, Accept, RecvName, RecvData, OpenTarget, WriteTarget,
           CloseClient, Return
    <3>2. CASE ~Receiver
      BY <3>2, OthersDoNotReceive DEF NotReceiving, receiverVars
    <3> QED BY <3>1, <3>2
  <2>2. /\ rpc \in {"close", "done"} /\ spc \in {"close", "done"}
        /\ \A f \in collected : Complete(f) \/ f \in refused
    BY <2>1 DEF ResultInv
  <2>3. rpc' \in {"close", "done"} /\ UNCHANGED <<peer, refused>>
    <3>1. CASE Receiver
      BY <1>2, <2>2, <3>1 DEF Receiver, Accept, RecvName, RecvData, OpenTarget, WriteTarget,
           CloseClient
    <3>2. CASE ~Receiver
      BY <2>2, <3>2, OthersDoNotReceive DEF NotReceiving, receiverVars
    <3> QED BY <3>1, <3>2
  <2>4. spc' \in {"close", "done"} /\ collected' = collected
    <3>1. CASE Sender
      BY <2>2, <3>1 DEF Sender, Connect, Collect, Measure, Pick, SendHeader, SendName,
           OpenFile, ReadBlock, SendEnd, Close
    <3>2. CASE ~Sender
      BY <2>2, <3>2, OthersLeaveAlone
    <3> QED BY <3>1, <3>2
  <2> QED BY <2>2, <2>3, <2>4 DEF Complete
<1> QED BY <1>1, <1>2

-----------------------------------------------------------------------------
(* The invariant *)

LEMMA IntactInit == Init => IntactInv
<1> SUFFICES ASSUME Init PROVE IntactInv
  OBVIOUS
<1>1. stream = <<>> /\ Len(stream) = 0 /\ 1..Len(stream) = {} /\ rpos = 0 /\ 1..rpos = {}
  BY EmptySeq DEF Init
<1>2. HeadsInv /\ PacketInv
  BY <1>1 DEF HeadsInv, PacketInv
<1>3. VersionInv
  <2>1. edits = 0 /\ \A f \in Files : desk[f].ver = 1
    BY DEF Init
  <2> QED BY <2>1, SizesAssumption DEF VersionInv
<1>4. OwedInv /\ HandInv
  BY DEF Init, OwedInv, HandInv
<1>5. EndInv
  BY <1>1 DEF Init, EndInv
<1>6. ServedInv
  BY <1>1 DEF ServedInv
<1>7. WrittenInv /\ ResultInv
  BY DEF Init, WrittenInv, ResultInv, Complete, NotReceived
<1> QED BY <1>2, <1>3, <1>4, <1>5, <1>6, <1>7 DEF IntactInv, StructInv, LeftAlone

LEMMA IntactStep == IInv /\ IntactInv /\ [Next]_vars => IntactInv'
<1> SUFFICES ASSUME IInv, IntactInv, [Next]_vars PROVE IntactInv'
  OBVIOUS
<1>1. StructInv /\ StructInv'
  BY StructStep DEF IntactInv
<1>2. ASSUME ~disturbed' PROVE LeftAlone'
  <2>1. LeftAlone
    BY <1>2, DisturbedStays DEF IntactInv, IInv
  <2>2. PacketInv'
    BY <1>1, <1>2, <2>1, PacketStep DEF LeftAlone, StructInv
  <2>3. EndInv'
    BY <1>1, <1>2, <2>1, EndStep DEF LeftAlone, StructInv
  <2>4. ServedInv' /\ WrittenInv'
    BY <1>1, <2>1, ServedInvStep, WrittenIntact DEF LeftAlone
  <2>5. ResultInv'
    BY <1>1, <1>2, <2>1, ResultStep DEF LeftAlone
  <2> QED BY <2>2, <2>3, <2>4, <2>5 DEF LeftAlone
<1> QED BY <1>1, <1>2 DEF IntactInv

THEOREM IntactInvariance == Spec => []IntactInv
  BY IntactInit, IntactStep, Invariance, PTL DEF Spec

\* As long as nobody changes a file between the reading of its size and the end
\* of its sending, what HandleIncoming writes is one version of the sender's
\* file, whole and in order, under the name it has there (sync_dll.cpp:164-198).
THEOREM FilesArriveIntact == Spec => []ReceivedIntact
<1>1. IntactInv => ReceivedIntact
  BY DEF IntactInv, LeftAlone, WrittenInv, UnitsOf, ReceivedIntact
<1> QED BY <1>1, IntactInvariance, PTL

\* As long as the files being sent are left alone, a receiver that has read END
\* has served every file the sender collected: none was skipped, and none taken
\* for part of another (sync_dll.cpp:171, 278-287).
THEOREM EndIsEverything == Spec => []EndMeansEverything
<1>1. IntactInv => EndMeansEverything
  BY DEF IntactInv, LeftAlone, ResultInv, EndMeansEverything
<1> QED BY <1>1, IntactInvariance, PTL
=============================================================================
