---------------------------- MODULE SyncTransfer ----------------------------
(***************************************************************************)
(* One upload, end to end: SyncUploadOnce on the machine that uploads,     *)
(* ServerRoutine and HandleIncoming on the machine that receives, and the  *)
(* UDT stream between them (src/src/sync_dll.cpp).                         *)
(*                                                                         *)
(* The stream has no frames of its own.  The sender announces a size,      *)
(* then sends whatever the file holds by the time it is read; the receiver *)
(* takes the announced number of bytes and expects a packet header next.   *)
(* So bytes are modelled as units that remember what they are: the first   *)
(* unit of a header carries the magic and the fields, the rest of it does  *)
(* not.  The desktop of the sender may change at any moment, under the     *)
(* user's hands or those of the machine's own receiving thread.            *)
(***************************************************************************)
EXTENDS Naturals, Sequences, FiniteSets

CONSTANTS
  Files,      \* names of files on the desktop
  NoName,     \* no file
  HdrLen,     \* units of a PacketHeader
  Sizes,      \* bound: units a file may hold
  IntMax,     \* units that an int can count
  MaxEdits,   \* bound: changes to the sender's desktop during the upload
  Window      \* units the transport accepts beyond what the receiver took

ASSUME NameAssumption == NoName \notin Files

ASSUME SizesAssumption ==
  /\ HdrLen \in Nat \ {0}
  /\ Sizes \subseteq Nat
  /\ IntMax \in Nat \ {0}
  /\ MaxEdits \in Nat
  /\ Window \in Nat \ {0}

VARIABLES
  desk,       \* desk[f]: version and length of f on the sending machine
  edits,      \* changes made to desk so far
  spc,        \* where the uploading thread is
  collected,  \* what CollectFiles returned
  todo,       \* files of collected not started yet
  cur,        \* the file being sent
  pos,        \* units of cur read so far
  stream,     \* every unit sent over the connection, in order
  link,       \* the connection: "none", "up" or "broken"
  arrives,    \* broken link: units of stream that still reach the receiver
  eof,        \* the sender closed the connection
  rpc,        \* where the receiving thread is
  rpos,       \* units of stream the receiver has taken
  rfile,      \* file of the header being served
  rsize,      \* its announced size
  offset,     \* units of the file taken so far
  result,     \* what HandleIncoming returned
  peer,       \* peer[f]: content of f on the receiving machine
  refused,    \* files the receiving machine could not open, or write as a whole
  disturbed   \* an announced file was changed, or not opened, before it was sent

senderVars == <<spc, collected, todo, cur, pos>>
linkVars == <<link, arrives, eof>>
receiverVars == <<rpc, rpos, rfile, rsize, offset, result, peer, refused>>
vars == <<desk, edits, senderVars, stream, linkVars, receiverVars, disturbed>>

-----------------------------------------------------------------------------
(* Units of the stream *)

Ops == {"HELLO", "FILE", "END"}
HeadUnit == [kind : {"head"}, op : Ops, size : Nat]
RestUnit == [kind : {"rest"}]
NameUnit == [kind : {"name"}, file : Files]
DataUnit == [kind : {"data"}, file : Files, ver : Nat, idx : Nat]
Unit == HeadUnit \cup RestUnit \cup NameUnit \cup DataUnit

Head1(op, n) == [kind |-> "head", op |-> op, size |-> n]
Header(op, n) ==
  [j \in 1..HdrLen |-> IF j = 1 THEN Head1(op, n) ELSE [kind |-> "rest"]]
Name(f) == [kind |-> "name", file |-> f]
Data(f, v, i) == [kind |-> "data", file |-> f, ver |-> v, idx |-> i]

\* Version 0 of a file is its absence.
Exists(f) == desk[f].ver > 0

\* A file of the receiving machine: not received, cut short, or written.
NotReceived == [state |-> "none", units |-> <<>>]
CutShort(s) == [state |-> "half", units |-> s]
Written(s) == [state |-> "full", units |-> s]

-----------------------------------------------------------------------------
(* The connection *)

Room == Len(stream) - rpos < Window

\* SendAll: blocks for room, and fails once the connection is broken.
SendAll(units) == link = "up" /\ Room /\ stream' = stream \o units

\* (mutant: an error of UDT::send is tried again)
SendFailsNever == link = "broken" /\ FALSE
SendFails == link = "broken" /\ UNCHANGED stream

\* Units the receiver can take now, and whether it waits in vain for n.
Available == (IF link = "broken" THEN arrives ELSE Len(stream)) - rpos

Starved(n) == Available < n /\ (link = "broken" \/ eof)

Break(from) ==
  /\ link' = "broken"
  /\ arrives' \in from..Len(stream)
  /\ UNCHANGED eof

-----------------------------------------------------------------------------
Init ==
  /\ desk \in [Files -> [ver : {1}, len : Sizes]]
  /\ edits = 0
  /\ spc = "connect"
  /\ collected = {}
  /\ todo = {}
  /\ cur = NoName
  /\ pos = 0
  /\ stream = <<>>
  /\ link = "none"
  /\ arrives = 0
  /\ eof = FALSE
  /\ rpc = "accept"
  /\ rpos = 0
  /\ rfile = NoName
  /\ rsize = 0
  /\ offset = 0
  /\ result = "none"
  /\ peer = [f \in Files |-> NotReceived]
  /\ refused = {}
  /\ disturbed = FALSE

(* The uploading thread *)

\* UDT::connect.  On failure SyncUploadOnce reports it and returns.
Connect ==
  /\ spc = "connect"
  /\ \/ spc' = "collect" /\ link' = "up"
     \/ spc' = "failed" /\ UNCHANGED link
  /\ UNCHANGED <<desk, edits, collected, todo, cur, pos, stream, arrives, eof,
                 receiverVars, disturbed>>

\* CollectFiles lists the desktop; which files pass its time filter is the
\* subject of another module, here it may be any of those that exist.
Collect ==
  /\ spc = "collect"
  /\ collected' \in SUBSET {f \in Files : Exists(f)}
  /\ todo' = collected'
  /\ spc' = "measure"
  /\ UNCHANGED <<desk, edits, cur, pos, stream, linkVars, receiverVars, disturbed>>

\* An uncaught filesystem_error ends the process, and the connection with it.
Die ==
  /\ spc' = "dead"
  /\ Break(rpos)
  /\ UNCHANGED stream

\* totalBytes, then SendHello, whose result is ignored.
Measure ==
  /\ spc = "measure"
  /\ \/ /\ \E f \in todo : ~Exists(f)
        /\ Die
     \/ /\ \A f \in todo : Exists(f)
        /\ spc' = "pick"
        /\ SendAll(Header("HELLO", 0)) \/ SendFails
        /\ UNCHANGED linkVars
  /\ UNCHANGED <<desk, edits, collected, todo, cur, pos, receiverVars, disturbed>>

\* (mutant: the last of the files is not sent)
PickStopsEarly ==
  /\ spc = "pick"
  /\ \/ /\ Cardinality(todo) <= 1
        /\ spc' = "end"
        /\ UNCHANGED <<todo, cur>>
     \/ \E f \in todo : /\ Cardinality(todo) > 1
                        /\ cur' = f
                        /\ todo' = todo \ {f}
                        /\ spc' = "header"
  /\ UNCHANGED <<desk, edits, collected, pos, stream, linkVars, receiverVars,
                 disturbed>>

\* The loop over the files, in the order the directory was listed in.
Pick ==
  /\ spc = "pick"
  /\ \/ /\ todo = {}
        /\ spc' = "end"
        /\ UNCHANGED <<todo, cur>>
     \/ \E f \in todo : /\ cur' = f
                        /\ todo' = todo \ {f}
                        /\ spc' = "header"
  /\ UNCHANGED <<desk, edits, collected, pos, stream, linkVars, receiverVars,
                 disturbed>>

\* SendFilePacket: the header.  file_size throws when the file is gone.
SendHeader ==
  /\ spc = "header"
  /\ \/ ~Exists(cur) /\ Die
     \/ /\ Exists(cur)
        /\ \/ SendAll(Header("FILE", desk[cur].len)) /\ spc' = "name"
           \/ SendFails /\ spc' = "end"
        /\ UNCHANGED linkVars
  /\ UNCHANGED <<desk, edits, collected, todo, cur, pos, receiverVars, disturbed>>

\* SendFilePacket: the name.
SendName ==
  /\ spc = "name"
  /\ \/ SendAll(<<Name(cur)>>) /\ spc' = "open"
     \/ SendFails /\ spc' = "end"
  /\ UNCHANGED <<desk, edits, collected, todo, cur, pos, linkVars, receiverVars,
                 disturbed>>

\* (mutant: the reading goes on where that of the file before it ended)
OpenFileSeeksNot ==
  /\ spc = "open"
  /\ \/ Exists(cur) /\ spc' = "read" /\ UNCHANGED <<pos, disturbed>>
     \/ spc' = "end" /\ disturbed' = TRUE /\ UNCHANGED pos
  /\ UNCHANGED <<desk, edits, collected, todo, cur, stream, linkVars, receiverVars>>

\* SendFilePacket: the file is opened.  When that fails (it is gone, or another
\* program holds it) the loop over the files ends, the announced bytes unsent.
OpenFile ==
  /\ spc = "open"
  /\ \/ Exists(cur) /\ spc' = "read" /\ pos' = 0 /\ UNCHANGED disturbed
     \/ spc' = "end" /\ disturbed' = TRUE /\ UNCHANGED pos
  /\ UNCHANGED <<desk, edits, collected, todo, cur, stream, linkVars, receiverVars>>

\* SendFilePacket: one block is read and sent, until the file ends.
ReadBlock ==
  /\ spc = "read"
  /\ \/ /\ pos < desk[cur].len
        /\ \/ /\ SendAll(<<Data(cur, desk[cur].ver, pos + 1)>>)
              /\ pos' = pos + 1
              /\ UNCHANGED spc
           \/ SendFails /\ spc' = "end" /\ UNCHANGED pos
     \/ /\ pos >= desk[cur].len
        /\ spc' = "pick"
        /\ UNCHANGED <<pos, stream>>
  /\ UNCHANGED <<desk, edits, collected, todo, cur, linkVars, receiverVars,
                 disturbed>>

\* SendEnd, whose result is ignored.
SendEnd ==
  /\ spc = "end"
  /\ spc' = "close"
  /\ SendAll(Header("END", 0)) \/ SendFails
  /\ UNCHANGED <<desk, edits, collected, todo, cur, pos, linkVars, receiverVars,
                 disturbed>>

\* UDT::close, then the upload is reported as completed.
Close ==
  /\ spc = "close"
  /\ spc' = "done"
  /\ eof' = TRUE
  /\ UNCHANGED <<desk, edits, collected, todo, cur, pos, stream, link, arrives,
                 receiverVars, disturbed>>

Sender ==
  \/ Connect \/ Collect \/ Measure \/ Pick \/ SendHeader \/ SendName
  \/ OpenFile \/ ReadBlock \/ SendEnd \/ Close

-----------------------------------------------------------------------------
(* The receiving thread *)

Accept ==
  /\ rpc = "accept"
  /\ link # "none"
  /\ rpc' = "header"
  /\ UNCHANGED <<desk, edits, senderVars, stream, linkVars, rpos, rfile, rsize,
                 offset, result, peer, refused, disturbed>>

\* HandleIncoming returns r.
Return(r) == rpc' = "close" /\ result' = r

\* (mutant: the magic is not tested)
RecvHeaderAnyMagic ==
  /\ rpc = "header"
  /\ \/ /\ Available >= HdrLen
        /\ rpos' = rpos + HdrLen
        /\ LET u == stream[rpos + 1]
               op == IF u.kind = "head" THEN u.op ELSE "FILE" IN
           \/ op = "END" /\ Return("true") /\ UNCHANGED rsize
           \/ op = "HELLO" /\ UNCHANGED <<rpc, result, rsize>>
           \/ /\ op = "FILE"
              /\ rpc' = "name"
              /\ IF u.kind = "head" THEN rsize' = u.size ELSE rsize' \in Sizes
              /\ UNCHANGED result
     \/ Starved(HdrLen) /\ Return("false") /\ UNCHANGED <<rpos, rsize>>
  /\ UNCHANGED <<desk, edits, senderVars, stream, linkVars, rfile, offset, peer,
                 refused, disturbed>>

\* RecvAll of a header, the test of its magic, and its opcode.
RecvHeader ==
  /\ rpc = "header"
  /\ \/ /\ Available >= HdrLen
        /\ rpos' = rpos + HdrLen
        /\ LET u == stream[rpos + 1] IN
           \/ /\ u.kind # "head"
              /\ Return("false")
              /\ UNCHANGED rsize
           \/ /\ u.kind = "head" /\ u.op = "END"
              /\ Return("true")
              /\ UNCHANGED rsize
           \/ /\ u.kind = "head" /\ u.op = "HELLO"
              /\ UNCHANGED <<rpc, result, rsize>>
           \/ /\ u.kind = "head" /\ u.op = "FILE"
              /\ rpc' = "name"
              /\ rsize' = u.size
              /\ UNCHANGED result
     \/ Starved(HdrLen) /\ Return("false") /\ UNCHANGED <<rpos, rsize>>
  /\ UNCHANGED <<desk, edits, senderVars, stream, linkVars, rfile, offset, peer,
                 refused, disturbed>>

\* What comes after a FILE header is taken for the name of a file, be it one.
ReadsAs(u, f) == u.kind = "name" => u.file = f

\* (mutant: the file is opened, and truncated, when its name is known)
RecvNameOpens ==
  /\ rpc = "name"
  /\ \/ /\ Available >= 1
        /\ rpos' = rpos + 1
        /\ \E f \in Files : /\ ReadsAs(stream[rpos + 1], f)
                           /\ rfile' = f
                           /\ peer' = [peer EXCEPT ![f] = CutShort(<<>>)]
        /\ offset' = 0
        /\ rpc' = "data"
        /\ UNCHANGED result
     \/ Starved(1) /\ Return("false") /\ UNCHANGED <<rpos, rfile, offset, peer>>
  /\ UNCHANGED <<desk, edits, senderVars, stream, linkVars, rsize, refused,
                 disturbed>>

RecvName ==
  /\ rpc = "name"
  /\ \/ /\ Available >= 1
        /\ rpos' = rpos + 1
        /\ \E f \in Files : ReadsAs(stream[rpos + 1], f) /\ rfile' = f
        /\ offset' = 0
        /\ rpc' = "data"
        /\ UNCHANGED result
     \/ Starved(1) /\ Return("false") /\ UNCHANGED <<rpos, rfile, offset>>
  /\ UNCHANGED <<desk, edits, senderVars, stream, linkVars, rsize, peer, refused,
                 disturbed>>

\* static_cast<int>(n) > 0, of a size_t n: the int has n modulo 2 * (IntMax + 1).
PositiveAsInt(n) == n % (2 * (IntMax + 1)) \in 1..IntMax

\* The announced number of units is taken, whatever they are; nothing is
\* written before the last of them is there.  UDT::recv is asked for as many as
\* an int makes of what is missing, and returns 0 when that is not positive.
RecvData ==
  /\ rpc = "data"
  /\ \/ /\ offset < rsize
        /\ PositiveAsInt(rsize - offset)
        /\ Available >= 1
        /\ rpos' = rpos + 1
        /\ offset' = offset + 1
        /\ UNCHANGED <<rpc, result>>
     \/ /\ offset < rsize
        /\ ~PositiveAsInt(rsize - offset) \/ Starved(1)
        /\ Return("false")
        /\ UNCHANGED <<rpos, offset>>
     \/ /\ offset = rsize
        /\ rpc' = "open"
        /\ UNCHANGED <<rpos, offset, result>>
  /\ UNCHANGED <<desk, edits, senderVars, stream, linkVars, rfile, rsize, peer,
                 refused, disturbed>>

\* std::ofstream truncates the file; when it cannot be opened the write that
\* follows does nothing, and nobody notices.
OpenTarget ==
  /\ rpc = "open"
  /\ \/ /\ rpc' = "write"
        /\ peer' = [peer EXCEPT ![rfile] = CutShort(<<>>)]
        /\ UNCHANGED refused
     \/ /\ rpc' = "header"
        /\ refused' = refused \cup {rfile}
        /\ UNCHANGED peer
  /\ UNCHANGED <<desk, edits, senderVars, stream, linkVars, rpos, rfile, rsize,
                 offset, result, disturbed>>

\* The whole data is written, or, on a disk that is full, any part of it, which
\* nobody notices either.
WriteTarget ==
  /\ rpc = "write"
  /\ rpc' = "header"
  /\ \/ /\ peer' = [peer EXCEPT ![rfile] =
                       Written(SubSeq(stream, rpos - rsize + 1, rpos))]
        /\ UNCHANGED refused
     \/ /\ \E n \in 0..(rsize - 1) :
             peer' = [peer EXCEPT ![rfile] =
                        CutShort(SubSeq(stream, rpos - rsize + 1, rpos - rsize + n))]
        /\ refused' = refused \cup {rfile}
  /\ UNCHANGED <<desk, edits, senderVars, stream, linkVars, rpos, rfile, rsize,
                 offset, result, disturbed>>

\* UDT::close(cli); ServerRoutine goes back to accept.
CloseClient ==
  /\ rpc = "close"
  /\ rpc' = "done"
  /\ UNCHANGED <<desk, edits, senderVars, stream, linkVars, rpos, rfile, rsize,
                 offset, result, peer, refused, disturbed>>

Receiver ==
  \/ Accept \/ RecvHeader \/ RecvName \/ RecvData \/ OpenTarget \/ WriteTarget
  \/ CloseClient

-----------------------------------------------------------------------------
(* The network and the sender's desktop *)

\* The receiver's shutdown packet reaches a sender that has not closed.
ShutdownArrives ==
  /\ rpc = "done"
  /\ link = "up"
  /\ Break(rpos)
  /\ UNCHANGED <<desk, edits, senderVars, stream, receiverVars, disturbed>>

\* The connection is lost, with any part of what is under way.
LinkBreaks ==
  /\ link = "up"
  /\ rpc # "done"
  /\ Break(rpos)
  /\ UNCHANGED <<desk, edits, senderVars, stream, receiverVars, disturbed>>

\* A change to f between the reading of its size and the end of its sending.
Disturbs(f) == f = cur /\ spc \in {"name", "open", "read"}

\* f is created, or rewritten in place.
EditFile(f, n) ==
  /\ edits < MaxEdits
  /\ edits' = edits + 1
  /\ desk' = [desk EXCEPT ![f] = [ver |-> edits + 2, len |-> n]]
  /\ disturbed' = (disturbed \/ Disturbs(f))
  /\ UNCHANGED <<senderVars, stream, linkVars, receiverVars>>

\* f is deleted; Windows refuses that while the uploader holds it open.
DeleteFile(f) ==
  /\ edits < MaxEdits
  /\ Exists(f)
  /\ ~(spc = "read" /\ f = cur)
  /\ edits' = edits + 1
  /\ desk' = [desk EXCEPT ![f] = [ver |-> 0, len |-> 0]]
  /\ disturbed' = (disturbed \/ Disturbs(f))
  /\ UNCHANGED <<senderVars, stream, linkVars, receiverVars>>

Environment ==
  \/ LinkBreaks
  \/ \E f \in Files : DeleteFile(f) \/ \E n \in Sizes : EditFile(f, n)

Next == Sender \/ Receiver \/ ShutdownArrives \/ Environment

Spec == Init /\ [][Next]_vars

\* Both threads keep running, and a shutdown packet gets through (or the
\* silence is noticed, which breaks the connection just as well).
FairSpec ==
  /\ Spec
  /\ WF_vars(Sender)
  /\ WF_vars(Receiver)
  /\ WF_vars(ShutdownArrives)

-----------------------------------------------------------------------------
(* Properties *)

Complete(f) == peer[f].state = "full"

\* A FILE header starts at unit k of the stream and announces n units of f.
Announced(k, f, n) ==
  /\ k \in 1..Len(stream)
  /\ stream[k] = Head1("FILE", n)
  /\ k + HdrLen \in 1..Len(stream)
  /\ stream[k + HdrLen] = Name(f)

TypeOK ==
  /\ desk \in [Files -> [ver : Nat, len : Nat]]
  /\ edits \in Nat
  /\ spc \in {"connect", "failed", "collect", "measure", "pick", "header",
              "name", "open", "read", "end", "close", "done", "dead"}
  /\ collected \subseteq Files
  /\ todo \subseteq collected
  /\ cur \in Files \cup {NoName}
  /\ pos \in Nat
  /\ stream \in Seq(Unit)
  /\ link \in {"none", "up", "broken"}
  /\ arrives \in Nat
  /\ eof \in BOOLEAN
  /\ rpc \in {"accept", "header", "name", "data", "open", "write", "close",
              "done"}
  /\ rpos \in 0..Len(stream)
  /\ rfile \in Files \cup {NoName}
  /\ rsize \in Nat
  /\ offset \in Nat
  /\ result \in {"none", "true", "false"}
  /\ peer \in [Files -> [state : {"none", "half", "full"}, units : Seq(Unit)]]
  /\ refused \subseteq Files
  /\ disturbed \in BOOLEAN

\* Whatever happens to the files while they are sent, and however far the two
\* ends get out of step, the receiver never makes up a file: a file it has
\* written, and the one it is serving, has the name and the length of one
\* header of the stream.  The magic is what protects it (sync_dll.cpp:164).
NothingMadeUp ==
  /\ \A f \in Files :
       Complete(f) => \E k \in 1..rpos : Announced(k, f, Len(peer[f].units))
  /\ rpc \in {"data", "open", "write"} =>
       \E k \in 1..rpos : Announced(k, rfile, rsize)

\* As long as the files being sent are left alone, a received file is one
\* version of the sender's file, whole and in order.
ReceivedIntact ==
  ~disturbed =>
    \A f \in Files : Complete(f) =>
      \E v \in 1..MaxEdits + 1 :
        \A i \in 1..Len(peer[f].units) : peer[f].units[i] = Data(f, v, i)

\* A connection lost in the middle of a file leaves that file alone: a file of
\* the receiving machine is cut short only while the bytes to fill it, all
\* received, are being written, or by a disk that did not take them
\* (sync_dll.cpp:180-198).
CutOnlyByDisk ==
  \A f \in Files : peer[f].state = "half" =>
    \/ rpc = "write" /\ rfile = f /\ offset = rsize
    \/ f \in refused

\* END means everything: when HandleIncoming has read END and no file was
\* disturbed, every file of the upload was written as a whole or refused by the
\* disk.
EndMeansEverything ==
  result = "true" /\ ~disturbed =>
    \A f \in collected : Complete(f) \/ f \in refused

\* Nobody waits forever: the upload ends, and so does the serving of it, also
\* when the announced bytes never come, the header is not one, or the
\* receiver has given up and takes nothing any more (SendAll and RecvAll,
\* sync_dll.cpp:51-73).
TransferEnds ==
  /\ <>(spc \in {"done", "failed", "dead"})
  /\ rpc = "header" ~> rpc = "done"
=============================================================================
