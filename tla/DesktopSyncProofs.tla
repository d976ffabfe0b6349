------------------------- MODULE DesktopSyncProofs -------------------------
(***************************************************************************)
(* Machine-checked proofs about DesktopSync, for any files, any number of  *)
(* edits, clicks and faults, any window and any difference between the two *)
(* clocks that exceeds the time modelled: the types, that no click is      *)
(* forgotten, that the tray comes to rest, that an undisturbed upload      *)
(* makes the desktops agree, and that a machine that only follows goes     *)
(* back only through an upload that was overtaken or a write that fails.   *)
(***************************************************************************)
EXTENDS DesktopSync, SequenceTheorems, TLAPS

\* A session that carries versions made so far.
Item(n) == [file : Files, ver : 1..n]
States == {"open", "ended", "broken"}
SessionUpTo(n) == [files : Seq(Item(n)), state : States]

MainStates == {"off", "shake", "paired", "wait", "reset", "connect", "collect",
               "send", "close", "stamp", "update", "sleep"}

\* The types, with what the sessions carry and the bound on the clock: a file
\* received holds a version somebody wrote.
ThreadTypes ==
  /\ main \in [Hosts -> MainStates]
  /\ ok \in [Hosts -> BOOLEAN]
  /\ event \in [Hosts -> BOOLEAN]
  /\ todo \in [Hosts -> SUBSET Files]
  /\ up \in [Hosts -> BOOLEAN]
  /\ server \in [Hosts -> {"off", "accept", "serve"}]
  /\ behind \in [Hosts -> BOOLEAN]
  /\ tray \in [Hosts -> TrayStates]

SessionTypes ==
  /\ serving \in [Hosts -> SessionUpTo(edits)]
  /\ overtaken \in [Hosts -> Seq(SessionUpTo(edits))]
  /\ inbox \in [Hosts -> Seq(SessionUpTo(edits))]

DiskTypes ==
  /\ edits \in Nat /\ edits > 0
  /\ clock \in 0..MaxClock
  /\ desk \in [Hosts -> [Files -> 0..edits]]
  /\ \A h \in Hosts : \A f \in todo[h] : desk[h][f] > 0
  /\ mtime \in [Hosts -> [Files -> 0..clock]]
  /\ lastSync \in [Hosts -> 0..clock]
  /\ ini \in [Hosts -> 0..clock]

HistoryTypes ==
  /\ clicks \in Nat
  /\ starts \in [Hosts -> Nat]
  /\ faults \in Nat
  /\ owed \in [Hosts -> BOOLEAN]
  /\ solo \in Hosts \cup {NoHost}
  /\ wanted \in [Hosts -> [Files -> Nat]]

Types == ThreadTypes /\ SessionTypes /\ DiskTypes /\ HistoryTypes

\* A machine that is not in its loop owes no upload: TriggerFire needs the
\* event, which wmain makes just before the loop.
ClickInv ==
  \A h \in Hosts :
    owed[h] => \/ event[h] /\ Looping(h)
               \/ main[h] \in {"reset", "connect", "collect"}

\* Which thread made the icon say what it says, and where that thread is.
TrayInv ==
  \A h \in Hosts :
    /\ tray[h] = "Uploading" => main[h] \in {"send", "close"}
    /\ tray[h] = "Downloading" => server[h] = "serve"
    /\ tray[h] = "Disconnected" => main[h] \in {"off", "shake", "paired"}

-----------------------------------------------------------------------------
(* Hosts and sessions *)

LEMMA PeerIsHost == ASSUME NEW h \in Hosts PROVE Peer(h) \in Hosts /\ Peer(h) # h
<1>1. \E p \in Hosts : p # h
  BY HostsAssumption
<1> QED BY <1>1 DEF Peer

\* More versions make more sessions.
LEMMA SessionGrows ==
  ASSUME NEW n \in Nat, NEW m \in Nat, n <= m
  PROVE  /\ SessionUpTo(n) \subseteq SessionUpTo(m)
         /\ Seq(SessionUpTo(n)) \subseteq Seq(SessionUpTo(m))
<1>1. Item(n) \subseteq Item(m)
  BY DEF Item
<1>2. \A s \in Seq(Item(n)) : s \in Seq(Item(m))
  BY <1>1, SeqMonotonic
<1>3. SessionUpTo(n) \subseteq SessionUpTo(m)
  BY <1>2 DEF SessionUpTo
<1>4. \A s \in Seq(SessionUpTo(n)) : s \in Seq(SessionUpTo(m))
  BY <1>3, SeqMonotonic
<1> QED BY <1>3, <1>4

\* The sessions of these types are sessions of the declared one.
LEMMA SessionIsSession ==
  ASSUME NEW n \in Nat
  PROVE  /\ SessionUpTo(n) \subseteq Session
         /\ Seq(SessionUpTo(n)) \subseteq Seq(Session)
<1>1. Item(n) \subseteq [file : Files, ver : Nat]
  BY DEF Item
<1>2. \A s \in Seq(Item(n)) : s \in Seq([file : Files, ver : Nat])
  BY <1>1, SeqMonotonic
<1>3. SessionUpTo(n) \subseteq Session
  BY <1>2 DEF SessionUpTo, Session, States
<1>4. \A s \in Seq(SessionUpTo(n)) : s \in Seq(Session)
  BY <1>3, SeqMonotonic
<1> QED BY <1>3, <1>4

LEMMA FreshSessions ==
  ASSUME NEW n \in Nat
  PROVE  /\ NoSession \in SessionUpTo(n)
         /\ [files |-> <<>>, state |-> "open"] \in SessionUpTo(n)
  BY EmptySeq DEF NoSession, SessionUpTo, States

\* What a lost connection leaves of a session is one.
LEMMA CutIsSession ==
  ASSUME NEW n \in Nat, NEW s \in SessionUpTo(n)
  PROVE  Cut(s) \subseteq SessionUpTo(n)
<1> SUFFICES ASSUME NEW k \in 0..Len(s.files)
             PROVE  [files |-> SubSeq(s.files, 1, k), state |-> "broken"]
                      \in SessionUpTo(n)
  BY DEF Cut
<1>1. s.files \in Seq(Item(n)) /\ Len(s.files) \in Nat
  BY LenProperties DEF SessionUpTo
<1>2. \A i \in 1..k : s.files[i] \in Item(n)
  BY <1>1, ElementOfSeq
<1>3. SubSeq(s.files, 1, k) \in Seq(Item(n))
  BY <1>1, <1>2, SubSeqProperties
<1> QED BY <1>3 DEF SessionUpTo, States

\* A queue in which a session is replaced is a queue of sessions.
LEMMA QueueExcept ==
  ASSUME NEW n \in Nat, NEW queue \in [Hosts -> Seq(SessionUpTo(n))],
         NEW p \in Hosts, NEW k \in 1..Len(queue[p]), NEW s \in SessionUpTo(n)
  PROVE  [queue EXCEPT ![p][k] = s] \in [Hosts -> Seq(SessionUpTo(n))]
<1>1. queue[p] \in Seq(SessionUpTo(n))
  OBVIOUS
<1>2. [queue[p] EXCEPT ![k] = s] \in Seq(SessionUpTo(n))
  BY <1>1, ExceptSeq
<1> QED BY <1>2

\* The last session of a queue, and the queue without it.
LEMMA LastOfQueue ==
  ASSUME NEW n \in Nat, NEW q \in Seq(SessionUpTo(n)), q # <<>>
  PROVE  /\ Len(q) \in Nat \ {0} /\ Len(q) \in 1..Len(q)
         /\ q[Len(q)] \in SessionUpTo(n)
         /\ SubSeq(q, 1, Len(q) - 1) \in Seq(SessionUpTo(n))
         /\ Len(SubSeq(q, 1, Len(q) - 1)) = Len(q) - 1
         /\ \A i \in 1..(Len(q) - 1) : SubSeq(q, 1, Len(q) - 1)[i] = q[i]
<1>1. Len(q) \in Nat \ {0} /\ Len(q) \in 1..Len(q)
  BY EmptySeq, LenProperties
<1>2. \A i \in 1..Len(q) : q[i] \in SessionUpTo(n)
  BY ElementOfSeq
<1>3. 1 \in Int /\ Len(q) - 1 \in Int /\ \A i \in 1..(Len(q) - 1) : q[i] \in SessionUpTo(n)
  BY <1>1, <1>2
<1>4. /\ SubSeq(q, 1, Len(q) - 1) \in Seq(SessionUpTo(n))
      /\ Len(SubSeq(q, 1, Len(q) - 1)) = IF 1 <= Len(q) - 1 THEN Len(q) - 1 - 1 + 1 ELSE 0
      /\ \A i \in 1..(Len(q) - 1 - 1 + 1) : SubSeq(q, 1, Len(q) - 1)[i] = q[1 + i - 1]
  BY <1>3, SubSeqProperties
<1>5. Len(SubSeq(q, 1, Len(q) - 1)) = Len(q) - 1
  <2>1. \A m \in Nat \ {0} : (IF 1 <= m - 1 THEN m - 1 - 1 + 1 ELSE 0) = m - 1
    OBVIOUS
  <2> QED BY <1>1, <1>4, <2>1
<1>6. ASSUME NEW i \in 1..(Len(q) - 1)
      PROVE  SubSeq(q, 1, Len(q) - 1)[i] = q[i]
  <2>1. i \in 1..(Len(q) - 1 - 1 + 1) /\ 1 + i - 1 = i
    BY <1>1
  <2> QED BY <1>4, <2>1
<1> QED BY <1>1, <1>2, <1>4, <1>5, <1>6

LEMMA LatestIsSession ==
  ASSUME SessionTypes, edits \in Nat, NEW p \in Hosts
  PROVE  /\ Latest(p) \in SessionUpTo(edits)
         /\ Newer(p) => Len(inbox[p]) \in 1..Len(inbox[p])
<1>1. inbox[p] \in Seq(SessionUpTo(edits)) /\ serving[p] \in SessionUpTo(edits)
  BY DEF SessionTypes
<1>2. Newer(p) => Len(inbox[p]) \in 1..Len(inbox[p])
  BY <1>1, EmptySeq DEF Newer
<1>3. Newer(p) => inbox[p][Len(inbox[p])] \in SessionUpTo(edits)
  BY <1>1, <1>2, ElementOfSeq
<1>4. NoSession \in SessionUpTo(edits)
  BY FreshSessions
<1> QED BY <1>1, <1>2, <1>3, <1>4 DEF Latest

LEMMA SetLatestTypes ==
  ASSUME SessionTypes, edits \in Nat, NEW p \in Hosts, NEW s \in SessionUpTo(edits),
         SetLatest(p, s), edits' = edits, overtaken' = overtaken
  PROVE  SessionTypes'
<1>1. CASE Newer(p)
  <2>1. inbox' = [inbox EXCEPT ![p][Len(inbox[p])] = s] /\ serving' = serving
    BY <1>1 DEF SetLatest
  <2>2. inbox \in [Hosts -> Seq(SessionUpTo(edits))] /\ Len(inbox[p]) \in 1..Len(inbox[p])
    BY <1>1, LatestIsSession DEF SessionTypes
  <2>3. inbox' \in [Hosts -> Seq(SessionUpTo(edits))]
    BY <2>1, <2>2, QueueExcept
  <2> QED BY <2>1, <2>3 DEF SessionTypes
<1>2. CASE ~Newer(p)
  BY <1>2 DEF SetLatest, SessionTypes
<1> QED BY <1>1, <1>2

-----------------------------------------------------------------------------
(* Types *)

LEMMA ThreadStep == ASSUME Types, [Next]_vars PROVE ThreadTypes'
<1> USE DEF Types, ThreadTypes, MainStates, TrayStates, Goto, Report
<1>1. CASE Pair
  BY <1>1 DEF Pair, serverVars
<1>2. ASSUME NEW h \in Hosts, Start(h) \/ HandshakeFails(h) \/ Click(h)
      PROVE  ThreadTypes'
  BY <1>2 DEF Start, HandshakeFails, Click, serverVars
<1>3. ASSUME NEW h \in Hosts, LinkBreaks(h) PROVE ThreadTypes'
  <2>1. up' \in [Hosts -> BOOLEAN]
    BY <1>3, PeerIsHost DEF LinkBreaks
  <2> QED BY <1>3, <2>1 DEF LinkBreaks
<1>4. ASSUME NEW h \in Hosts, Crash(h) PROVE ThreadTypes'
  BY <1>4 DEF Crash
<1>5. ASSUME NEW h \in Hosts,
             Serve(h) \/ Wait(h) \/ Reset(h) \/ Connect(h) \/ ConnectFails(h)
      PROVE  ThreadTypes'
  BY <1>5 DEF Serve, Wait, Reset, Connect, ConnectFails, serverVars
<1>6. ASSUME NEW h \in Hosts, Collect(h) \/ SendFile(h) \/ SendFails(h) \/ AllSent(h)
      PROVE  ThreadTypes'
  <2>1. CASE Collect(h) \/ AllSent(h)
    BY <1>6, <2>1 DEF Collect, AllSent, serverVars
  <2>2. CASE SendFile(h)
    <3>1. todo' \in [Hosts -> SUBSET Files]
      BY <2>2 DEF SendFile
    <3> QED BY <2>2, <3>1 DEF SendFile
  <2>3. CASE SendFails(h)
    BY <2>3 DEF SendFails, serverVars
  <2> QED BY <1>6, <2>1, <2>2, <2>3
<1>7. ASSUME NEW h \in Hosts, Close(h) \/ Stamp(h) \/ Update(h) \/ Wake(h)
      PROVE  ThreadTypes'
  BY <1>7 DEF Close, Stamp, Update, Wake, serverVars
<1>8. ASSUME NEW h \in Hosts, Server(h) PROVE ThreadTypes'
  <2>1. behind' \in [Hosts -> BOOLEAN]
    BY <1>8 DEF Server, Accept, AcceptNewest, AcceptOvertaken, TakeFile, SessionEnds
  <2>2. server' \in [Hosts -> {"off", "accept", "serve"}] /\ tray' \in [Hosts -> TrayStates]
    BY <1>8 DEF Server, Accept, TakeFile, SessionEnds
  <2> QED BY <1>8, <2>1, <2>2 DEF Server, Accept, TakeFile, SessionEnds, mainVars
<1>9. CASE Tick \/ (\E h \in Hosts, f \in Files : Edit(h, f)) \/ UNCHANGED vars
  BY <1>9 DEF Tick, Edit, vars, mainVars, serverVars
<1> QED BY <1>1, <1>2, <1>3, <1>4, <1>5, <1>6, <1>7, <1>8, <1>9
          DEF Next, Environment, Main

LEMMA DiskStep == ASSUME Types, [Next]_vars PROVE DiskTypes' /\ edits <= edits'
<1> USE ClockAssumption DEF Types, DiskTypes
<1>1. CASE UNCHANGED <<todo, diskVars, syncVars, clock, edits>>
  BY <1>1 DEF diskVars, syncVars
<1>2. ASSUME NEW h \in Hosts, Start(h) PROVE DiskTypes' /\ edits <= edits'
  BY <1>2 DEF Start, diskVars
<1>3. ASSUME NEW h \in Hosts, Stamp(h) \/ Update(h)
      PROVE  DiskTypes' /\ edits <= edits'
  <2>1. lastSync' \in [Hosts -> 0..clock] /\ ini' \in [Hosts -> 0..clock]
    <3>1. CASE Stamp(h)
      <4>1. clock \in 0..clock
        OBVIOUS
      <4> QED BY <3>1, <4>1 DEF Stamp
    <3>2. CASE Update(h)
      <4>1. ini' = [ini EXCEPT ![h] = lastSync[h]] /\ lastSync' = lastSync
        BY <3>2 DEF Update
      <4> QED BY <4>1
    <3> QED BY <1>3, <3>1, <3>2
  <2>2. UNCHANGED <<todo, diskVars, clock, edits>>
    BY <1>3 DEF Stamp, Update, counters
  <2> QED BY <2>1, <2>2 DEF diskVars
<1>4. ASSUME NEW h \in Hosts, TakeFile(h) PROVE DiskTypes' /\ edits <= edits'
  <2> DEFINE x == Head(serving[h].files)
  <2>1. UNCHANGED <<todo, syncVars, clock, edits>>
    BY <1>4 DEF TakeFile, mainVars
  <2>2. CASE UNCHANGED diskVars
    BY <1>1, <2>1, <2>2
  <2>3. ASSUME NEW v \in {x.ver, Partial},
               desk' = [desk EXCEPT ![h][x.file] = v],
               mtime' = [mtime EXCEPT ![h][x.file] = clock]
        PROVE  DiskTypes'
    <3>1. serving[h].files \in Seq(Item(edits)) /\ serving[h].files # <<>>
      BY <1>4 DEF TakeFile, SessionTypes, SessionUpTo
    <3>2. x \in Item(edits)
      BY <3>1, HeadTailProperties
    <3>3. x.file \in Files /\ v \in 1..edits
      BY <2>3, <3>2 DEF Item, Partial
    <3> HIDE DEF x
    <3>4. desk' \in [Hosts -> [Files -> 0..edits]]
      BY <2>3, <3>3
    <3>5. \A g \in Hosts, f \in Files : desk[g][f] > 0 => desk'[g][f] > 0
      BY <2>3, <3>3
    <3>6. \A g \in Hosts : \A f \in todo'[g] : desk'[g][f] > 0
      BY <2>1, <3>5 DEF ThreadTypes
    <3>7. mtime' \in [Hosts -> [Files -> 0..clock]]
      BY <2>3, <3>3
    <3> QED BY <2>1, <3>4, <3>6, <3>7 DEF syncVars
  <2>4. \/ UNCHANGED diskVars
        \/ \E v \in {x.ver, Partial} :
             /\ desk' = [desk EXCEPT ![h][x.file] = v]
             /\ mtime' = [mtime EXCEPT ![h][x.file] = clock]
    BY <1>4 DEF TakeFile
  <2> HIDE DEF x
  <2> QED BY <2>1, <2>2, <2>3, <2>4
<1>5. ASSUME NEW h \in Hosts, NEW f \in Files, Edit(h, f)
      PROVE  DiskTypes' /\ edits <= edits'
  <2>1. edits' = edits + 1 /\ edits + 1 \in 0..edits'
    BY <1>5 DEF Edit
  <2>2. desk' \in [Hosts -> [Files -> 0..edits']]
    <3>1. desk \in [Hosts -> [Files -> 0..edits']]
      BY <2>1
    <3> QED BY <1>5, <2>1, <3>1 DEF Edit
  <2>3. mtime' \in [Hosts -> [Files -> 0..clock]]
    BY <1>5 DEF Edit
  <2>4. \A g \in Hosts, k \in Files : desk[g][k] > 0 => desk'[g][k] > 0
    BY <1>5 DEF Edit
  <2>5. todo' = todo
    BY <1>5 DEF Edit, mainVars
  <2>6. \A g \in Hosts : \A k \in todo'[g] : desk'[g][k] > 0
    BY <2>4, <2>5 DEF ThreadTypes
  <2> QED BY <1>5, <2>1, <2>2, <2>3, <2>6 DEF Edit, syncVars
<1>6. CASE Tick
  <2>1. clock' \in 0..MaxClock /\ 0..clock \subseteq 0..clock'
    BY <1>6 DEF Tick
  <2>2. UNCHANGED <<todo, diskVars, syncVars, edits>>
    BY <1>6 DEF Tick, mainVars
  <2>3. mtime' \in [Hosts -> [Files -> 0..clock']]
    BY <2>1, <2>2 DEF diskVars
  <2>4. lastSync' \in [Hosts -> 0..clock'] /\ ini' \in [Hosts -> 0..clock']
    BY <2>1, <2>2 DEF syncVars
  <2> QED BY <2>1, <2>2, <2>3, <2>4 DEF diskVars
<1>7. CASE UNCHANGED vars \/ Pair
  BY <1>1, <1>7 DEF vars, mainVars, counters, Pair
<1>8. ASSUME NEW h \in Hosts,
             \/ HandshakeFails(h) \/ Click(h) \/ LinkBreaks(h)
             \/ Accept(h) \/ SessionEnds(h)
      PROVE  DiskTypes' /\ edits <= edits'
  BY <1>1, <1>8 DEF HandshakeFails, Click, LinkBreaks, Accept, SessionEnds,
       mainVars, counters
<1>9. ASSUME NEW h \in Hosts,
             \/ Serve(h) \/ Wait(h) \/ Reset(h) \/ Connect(h) \/ ConnectFails(h)
             \/ SendFails(h) \/ AllSent(h) \/ Close(h) \/ Wake(h)
      PROVE  DiskTypes' /\ edits <= edits'
  BY <1>1, <1>9 DEF Serve, Wait, Reset, Connect, ConnectFails, SendFails, AllSent,
       Close, Wake, counters
<1>10. ASSUME NEW h \in Hosts, Collect(h) \/ SendFile(h) \/ Crash(h)
       PROVE  DiskTypes' /\ edits <= edits'
  <2>1. UNCHANGED <<diskVars, syncVars, clock, edits>>
    BY <1>10 DEF Collect, SendFile, Crash, counters
  <2>2. \/ todo' = [todo EXCEPT ![h] = {f \in Files : Fresh(h, f)}]
        \/ \E f \in todo[h] : todo' = [todo EXCEPT ![h] = @ \ {f}]
        \/ todo' = [todo EXCEPT ![h] = {}]
    BY <1>10 DEF Collect, SendFile, Crash
  <2>3. \A f \in todo'[h] : desk[h][f] > 0
    BY <2>2 DEF ThreadTypes, Fresh
  <2>4. \A g \in Hosts : g # h => todo'[g] = todo[g]
    BY <2>2 DEF ThreadTypes
  <2>5. \A g \in Hosts : \A f \in todo'[g] : desk'[g][f] > 0
    BY <2>1, <2>3, <2>4 DEF diskVars
  <2> QED BY <2>1, <2>5 DEF diskVars, syncVars
<1> QED BY <1>2, <1>3, <1>4, <1>5, <1>6, <1>7, <1>8, <1>9, <1>10
          DEF Next, Environment, Main, Server

LEMMA SessionStep == ASSUME Types, [Next]_vars PROVE SessionTypes'
<1> USE DEF Types
<1>1. SessionTypes /\ edits \in Nat
  BY DEF DiskTypes
<1>2. CASE UNCHANGED <<serving, overtaken, inbox, edits>>
  BY <1>1, <1>2 DEF SessionTypes
<1>3. ASSUME NEW h \in Hosts, NEW f \in Files, Edit(h, f) PROVE SessionTypes'
  <2>1. edits' = edits + 1
    BY <1>3 DEF Edit
  <2>2. /\ SessionUpTo(edits) \subseteq SessionUpTo(edits')
        /\ Seq(SessionUpTo(edits)) \subseteq Seq(SessionUpTo(edits'))
    BY <1>1, <2>1, SessionGrows
  <2>3. serving' = serving /\ overtaken' = overtaken /\ inbox' = inbox
    BY <1>3 DEF Edit, serverVars
  <2>4. /\ serving \in [Hosts -> SessionUpTo(edits')]
        /\ overtaken \in [Hosts -> Seq(SessionUpTo(edits'))]
        /\ inbox \in [Hosts -> Seq(SessionUpTo(edits'))]
    BY <1>1, <2>2 DEF SessionTypes
  <2> QED BY <2>3, <2>4 DEF SessionTypes
<1>4. ASSUME NEW h \in Hosts, Connect(h) PROVE SessionTypes'
  <2>1. Peer(h) \in Hosts
    BY PeerIsHost
  <2> DEFINE new == [files |-> <<>>, state |-> "open"]
  <2>2. new \in SessionUpTo(edits)
    BY <1>1, FreshSessions
  <2>3. inbox[Peer(h)] \in Seq(SessionUpTo(edits))
    BY <1>1, <2>1 DEF SessionTypes
  <2>4. Append(inbox[Peer(h)], new) \in Seq(SessionUpTo(edits))
    BY <2>2, <2>3, AppendProperties
  <2>5. inbox' = [inbox EXCEPT ![Peer(h)] = Append(inbox[Peer(h)], new)]
    BY <1>4 DEF Connect
  <2>6. inbox' \in [Hosts -> Seq(SessionUpTo(edits))]
    BY <1>1, <2>1, <2>4, <2>5 DEF SessionTypes
  <2> QED BY <1>1, <1>4, <2>6 DEF Connect, counters, SessionTypes
<1>5. ASSUME NEW h \in Hosts, SendFile(h) PROVE SessionTypes'
  <2> DEFINE p == Peer(h)
  <2>1. p \in Hosts
    BY PeerIsHost
  <2>2. PICK f \in todo[h] :
          SetLatest(p, [Latest(p) EXCEPT !.files =
                          Append(@, [file |-> f, ver |-> desk[h][f]])])
    BY <1>5 DEF SendFile
  <2>3. f \in Files
    BY DEF ThreadTypes
  <2>4. [file |-> f, ver |-> desk[h][f]] \in Item(edits)
    <3>1. desk[h][f] \in 0..edits /\ desk[h][f] > 0
      BY <2>3 DEF DiskTypes
    <3>2. desk[h][f] \in 1..edits
      BY <1>1, <3>1
    <3> QED BY <2>3, <3>2 DEF Item
  <2>5. Latest(p) \in SessionUpTo(edits)
    BY <1>1, <2>1, LatestIsSession
  <2>6. Append(Latest(p).files, [file |-> f, ver |-> desk[h][f]]) \in Seq(Item(edits))
    BY <2>4, <2>5, AppendProperties DEF SessionUpTo
  <2>7. [Latest(p) EXCEPT !.files = Append(@, [file |-> f, ver |-> desk[h][f]])]
          \in SessionUpTo(edits)
    BY <2>5, <2>6 DEF SessionUpTo
  <2>8. edits' = edits /\ overtaken' = overtaken
    BY <1>5 DEF SendFile, counters
  <2> HIDE DEF p
  <2> QED BY <1>1, <2>1, <2>2, <2>7, <2>8, SetLatestTypes
<1>6. ASSUME NEW h \in Hosts, Close(h) PROVE SessionTypes'
  <2> DEFINE p == Peer(h)
  <2>1. p \in Hosts
    BY PeerIsHost
  <2>2. edits' = edits /\ overtaken' = overtaken
    BY <1>6 DEF Close, counters
  <2>3. CASE SetLatest(p, [Latest(p) EXCEPT !.state = "ended"])
    <3>1. Latest(p) \in SessionUpTo(edits)
      BY <1>1, <2>1, LatestIsSession
    <3>2. [Latest(p) EXCEPT !.state = "ended"] \in SessionUpTo(edits)
      BY <3>1 DEF SessionUpTo, States
    <3> HIDE DEF p
    <3> QED BY <1>1, <2>1, <2>2, <2>3, <3>2, SetLatestTypes
  <2>4. CASE UNCHANGED <<inbox, serving>>
    BY <1>2, <2>2, <2>4
  <2> QED BY <1>6, <2>3, <2>4 DEF Close
<1>7. ASSUME NEW h \in Hosts, Accept(h) PROVE SessionTypes'
  <2>0. edits' = edits /\ inbox[h] \in Seq(SessionUpTo(edits))
        /\ overtaken[h] \in Seq(SessionUpTo(edits))
    BY <1>1, <1>7 DEF Accept, counters, SessionTypes
  <2>1. CASE AcceptNewest(h)
    <3> DEFINE n == Len(inbox[h])
               q == SubSeq(inbox[h], 1, n - 1)
    <3>1. inbox[h][n] \in SessionUpTo(edits) /\ q \in Seq(SessionUpTo(edits))
      BY <1>1, <2>0, <2>1, LastOfQueue DEF AcceptNewest, Newer
    <3>2. overtaken[h] \o q \in Seq(SessionUpTo(edits))
      BY <2>0, <3>1, ConcatProperties
    <3>3. /\ serving' = [serving EXCEPT ![h] = inbox[h][n]]
          /\ overtaken' = [overtaken EXCEPT ![h] = overtaken[h] \o q]
          /\ inbox' = [inbox EXCEPT ![h] = <<>>]
      BY <2>1 DEF AcceptNewest
    <3> HIDE DEF n, q
    <3> QED BY <1>1, <2>0, <3>1, <3>2, <3>3, EmptySeq DEF SessionTypes
  <2>2. CASE AcceptOvertaken(h)
    <3> DEFINE n == Len(overtaken[h])
               q == SubSeq(overtaken[h], 1, n - 1)
    <3>1. overtaken[h][n] \in SessionUpTo(edits) /\ q \in Seq(SessionUpTo(edits))
      BY <1>1, <2>0, <2>2, LastOfQueue DEF AcceptOvertaken
    <3>2. /\ serving' = [serving EXCEPT ![h] = overtaken[h][n]]
          /\ overtaken' = [overtaken EXCEPT ![h] = q]
          /\ inbox' = inbox
      BY <2>2 DEF AcceptOvertaken
    <3> HIDE DEF n, q
    <3> QED BY <1>1, <2>0, <3>1, <3>2 DEF SessionTypes
  <2> QED BY <1>7, <2>1, <2>2 DEF Accept
<1>8. ASSUME NEW h \in Hosts, TakeFile(h) PROVE SessionTypes'
  <2>1. serving[h] \in SessionUpTo(edits) /\ serving[h].files # <<>>
    BY <1>1, <1>8 DEF TakeFile, SessionTypes
  <2>2. Tail(serving[h].files) \in Seq(Item(edits))
    BY <2>1, HeadTailProperties DEF SessionUpTo
  <2>3. [serving[h] EXCEPT !.files = Tail(@)] \in SessionUpTo(edits)
    BY <2>1, <2>2 DEF SessionUpTo
  <2>4. serving' \in [Hosts -> SessionUpTo(edits)]
    BY <1>1, <1>8, <2>3 DEF TakeFile, SessionTypes
  <2> QED BY <1>1, <1>8, <2>4 DEF TakeFile, SessionTypes
<1>9. ASSUME NEW h \in Hosts, SessionEnds(h) PROVE SessionTypes'
  BY <1>1, <1>9, FreshSessions DEF SessionEnds, counters, SessionTypes
<1>10. ASSUME NEW h \in Hosts, LinkBreaks(h) PROVE SessionTypes'
  <2>1. edits' = edits
    BY <1>10 DEF LinkBreaks
  <2>2. ASSUME NEW s \in Cut(serving[h]), serving' = [serving EXCEPT ![h] = s],
               UNCHANGED <<inbox, overtaken>>
        PROVE  SessionTypes'
    <3>1. s \in SessionUpTo(edits)
      BY <1>1, CutIsSession DEF SessionTypes
    <3> QED BY <1>1, <2>1, <2>2, <3>1 DEF SessionTypes
  <2>3. ASSUME NEW k \in 1..Len(inbox[h]), NEW s \in Cut(inbox[h][k]),
               inbox' = [inbox EXCEPT ![h][k] = s], UNCHANGED <<serving, overtaken>>
        PROVE  SessionTypes'
    <3>1. inbox[h][k] \in SessionUpTo(edits)
      BY <1>1, ElementOfSeq DEF SessionTypes
    <3>2. s \in SessionUpTo(edits)
      BY <1>1, <3>1, CutIsSession
    <3> QED BY <1>1, <2>1, <2>3, <3>2, QueueExcept DEF SessionTypes
  <2>4. ASSUME NEW k \in 1..Len(overtaken[h]), NEW s \in Cut(overtaken[h][k]),
               overtaken' = [overtaken EXCEPT ![h][k] = s], UNCHANGED <<serving, inbox>>
        PROVE  SessionTypes'
    <3>1. overtaken[h][k] \in SessionUpTo(edits)
      BY <1>1, ElementOfSeq DEF SessionTypes
    <3>2. s \in SessionUpTo(edits)
      BY <1>1, <3>1, CutIsSession
    <3> QED BY <1>1, <2>1, <2>4, <3>2, QueueExcept DEF SessionTypes
  <2> QED BY <1>10, <2>2, <2>3, <2>4 DEF LinkBreaks
<1>11. ASSUME NEW h \in Hosts, Crash(h) PROVE SessionTypes'
  <2> DEFINE p == Peer(h)
  <2>1. p \in Hosts /\ p # h
    BY PeerIsHost
  <2>2. edits' = edits /\ overtaken' = [overtaken EXCEPT ![h] = <<>>]
    BY <1>11 DEF Crash
  <2>3. NoSession \in SessionUpTo(edits) /\ <<>> \in Seq(SessionUpTo(edits))
    BY <1>1, FreshSessions, EmptySeq
  <2>4. Latest(p) \in SessionUpTo(edits)
    BY <1>1, <2>1, LatestIsSession
  <2>5. Cut(Latest(p)) \subseteq SessionUpTo(edits)
    BY <1>1, <2>4, CutIsSession
  <2>6. CASE up[h] /\ Newer(p)
    <3>1. PICK s \in Cut(Latest(p)) :
            /\ inbox' = [inbox EXCEPT ![h] = <<>>, ![p][Len(inbox[p])] = s]
            /\ serving' = [serving EXCEPT ![h] = NoSession]
      BY <1>11, <2>6 DEF Crash
    <3>2. s \in SessionUpTo(edits)
      BY <2>5
    <3>3. [inbox EXCEPT ![p][Len(inbox[p])] = s] \in [Hosts -> Seq(SessionUpTo(edits))]
      BY <1>1, <2>1, <2>6, <3>2, LatestIsSession, QueueExcept DEF SessionTypes
    <3>4. inbox' \in [Hosts -> Seq(SessionUpTo(edits))]
      <4>1. inbox' = [[inbox EXCEPT ![p][Len(inbox[p])] = s] EXCEPT ![h] = <<>>]
        <5>1. inbox = [g \in Hosts |-> inbox[g]]
          BY <1>1 DEF SessionTypes
        <5> HIDE DEF p
        <5> QED BY <2>1, <3>1, <5>1
      <4> QED BY <2>3, <3>3, <4>1
    <3> QED BY <1>1, <2>2, <2>3, <3>1, <3>4 DEF SessionTypes
  <2>7. CASE up[h] /\ ~Newer(p)
    <3>1. PICK s \in Cut(Latest(p)) :
            /\ serving' = [serving EXCEPT ![h] = NoSession, ![p] = s]
            /\ inbox' = [inbox EXCEPT ![h] = <<>>]
      BY <1>11, <2>7 DEF Crash
    <3>2. s \in SessionUpTo(edits)
      BY <2>5
    <3> QED BY <1>1, <2>1, <2>2, <2>3, <3>1, <3>2 DEF SessionTypes
  <2>8. CASE ~up[h]
    BY <1>1, <1>11, <2>2, <2>3, <2>8 DEF Crash, SessionTypes
  <2> QED BY <2>6, <2>7, <2>8
<1>12. CASE UNCHANGED vars \/ Pair \/ Tick
  BY <1>2, <1>12 DEF vars, serverVars, counters, Pair, Tick
<1>13. ASSUME NEW h \in Hosts,
              \/ Start(h) \/ HandshakeFails(h) \/ Click(h) \/ Serve(h) \/ Wait(h)
              \/ Reset(h) \/ ConnectFails(h) \/ Collect(h)
       PROVE  SessionTypes'
  BY <1>2, <1>13 DEF Start, HandshakeFails, Click, Serve, Wait, Reset,
       ConnectFails, Collect, serverVars, counters
<1>14. ASSUME NEW h \in Hosts,
              SendFails(h) \/ AllSent(h) \/ Stamp(h) \/ Update(h) \/ Wake(h)
       PROVE  SessionTypes'
  BY <1>2, <1>14 DEF SendFails, AllSent, Stamp, Update, Wake, serverVars, counters
<1> QED BY <1>3, <1>4, <1>5, <1>6, <1>7, <1>8, <1>9, <1>10, <1>11, <1>12,
          <1>13, <1>14 DEF Next, Environment, Main, Server

LEMMA HistoryStep == ASSUME Types, [Next]_vars PROVE HistoryTypes'
<1> USE DEF Types, HistoryTypes
<1>1. CASE UNCHANGED <<clicks, starts, faults, history>>
  BY <1>1 DEF history
<1>2. ASSUME NEW h \in Hosts, Start(h) PROVE HistoryTypes'
  BY <1>2 DEF Start, history
<1>3. ASSUME NEW h \in Hosts,
             \/ HandshakeFails(h) \/ ConnectFails(h) \/ SendFails(h)
             \/ TakeFile(h) \/ LinkBreaks(h)
      PROVE  HistoryTypes'
  <2>1. Fault \/ NoFault
    BY <1>3 DEF HandshakeFails, ConnectFails, SendFails, TakeFile, LinkBreaks
  <2>2. faults' \in Nat /\ solo' \in Hosts \cup {NoHost}
    BY <2>1 DEF Fault, NoFault
  <2>3. owed' \in [Hosts -> BOOLEAN]
    BY <1>3 DEF HandshakeFails, ConnectFails, SendFails, TakeFile, LinkBreaks
  <2>4. UNCHANGED <<clicks, starts, wanted>>
    BY <1>3 DEF HandshakeFails, ConnectFails, SendFails, TakeFile, LinkBreaks
  <2> QED BY <2>2, <2>3, <2>4
<1>4. ASSUME NEW h \in Hosts, Collect(h) PROVE HistoryTypes'
  BY <1>4 DEF Collect, counters
<1>5. ASSUME NEW h \in Hosts, Crash(h) PROVE HistoryTypes'
  <2>1. faults' \in Nat /\ solo' \in Hosts \cup {NoHost}
    BY <1>5 DEF Crash, Fault
  <2>2. owed' \in [Hosts -> BOOLEAN] /\ wanted' \in [Hosts -> [Files -> Nat]]
    BY <1>5 DEF Crash
  <2> QED BY <1>5, <2>1, <2>2 DEF Crash
<1>6. ASSUME NEW h \in Hosts, Click(h) PROVE HistoryTypes'
  <2>1. desk[h] \in [Files -> Nat]
    BY DEF DiskTypes
  <2>2. wanted' \in [Hosts -> [Files -> Nat]]
    BY <1>6, <2>1 DEF Click
  <2> QED BY <1>6, <2>2 DEF Click
<1>7. ASSUME NEW h \in Hosts, NEW f \in Files, Edit(h, f) PROVE HistoryTypes'
  BY <1>7 DEF Edit
<1>8. CASE UNCHANGED vars \/ Pair \/ Tick
  BY <1>1, <1>8 DEF vars, counters, Pair, Tick
<1>9. ASSUME NEW h \in Hosts,
             \/ Serve(h) \/ Wait(h) \/ Reset(h) \/ Connect(h) \/ SendFile(h)
             \/ AllSent(h) \/ Close(h) \/ Stamp(h) \/ Update(h) \/ Wake(h)
             \/ Accept(h) \/ SessionEnds(h)
      PROVE  HistoryTypes'
  BY <1>1, <1>9 DEF Serve, Wait, Reset, Connect, SendFile, AllSent, Close, Stamp,
       Update, Wake, Accept, SessionEnds, counters
<1> QED BY <1>2, <1>3, <1>4, <1>5, <1>6, <1>7, <1>8, <1>9
          DEF Next, Environment, Main, Server

LEMMA TypesInit == Init => Types
<1> SUFFICES ASSUME Init PROVE Types
  OBVIOUS
<1>1. ThreadTypes /\ HistoryTypes
  BY DEF Init, ThreadTypes, HistoryTypes, MainStates, TrayStates
<1>2. DiskTypes
  BY BoundsAssumption, ClockAssumption DEF Init, DiskTypes
<1>3. SessionTypes
  BY <1>2, FreshSessions, EmptySeq DEF Init, SessionTypes, DiskTypes
<1> QED BY <1>1, <1>2, <1>3 DEF Types

LEMMA TypesInvariant == Spec => []Types
<1>1. Types /\ [Next]_vars => Types'
  BY ThreadStep, SessionStep, DiskStep, HistoryStep DEF Types
<1> QED BY <1>1, TypesInit, PTL DEF Spec

\* Every variable stays in its declared range; in particular every file of a
\* desktop, the received ones included, is a version made so far, or part of one.
THEOREM TypeCorrect == Spec => []TypeOK
<1>1. Types => TypeOK
  <2> SUFFICES ASSUME Types PROVE TypeOK
    OBVIOUS
  <2> USE DEF Types
  <2>1. /\ serving \in [Hosts -> Session] /\ inbox \in [Hosts -> Seq(Session)]
        /\ overtaken \in [Hosts -> Seq(Session)]
    BY SessionIsSession DEF SessionTypes, DiskTypes
  <2> QED BY <2>1, ClockAssumption
           DEF ThreadTypes, DiskTypes, HistoryTypes, MainStates, TypeOK
<1> QED BY <1>1, TypesInvariant, PTL

-----------------------------------------------------------------------------
(* The filter of CollectFiles *)

\* The filter hides no file: file times are readings of a clock so far ahead of
\* that of lastSync that a file is always newer than the last upload, so that
\* every upload sends the whole desktop (sync_dll.cpp:95-111).
THEOREM FilterHidesNothing ==
  Spec => [](\A h \in Hosts, f \in Files : Fresh(h, f) <=> desk[h][f] > 0)
<1>1. Types => \A h \in Hosts, f \in Files : Fresh(h, f) <=> desk[h][f] > 0
  <2> SUFFICES ASSUME Types, NEW h \in Hosts, NEW f \in Files
               PROVE  mtime[h][f] + FileEpoch > lastSync[h]
    BY DEF Fresh
  <2>1. mtime[h][f] \in Nat /\ lastSync[h] \in 0..clock /\ clock \in 0..MaxClock
    BY DEF Types, DiskTypes
  <2> QED BY <2>1, ClockAssumption
<1> QED BY <1>1, TypesInvariant, PTL

-----------------------------------------------------------------------------
(* Clicks *)

\* Whatever the machines do, and whenever a click comes, its event is set until
\* an upload that has yet to collect its files is under way, or an attempt to
\* connect has failed (desktopsync_main.cpp:55-59).
THEOREM NoClickForgotten == Spec => []ClickNotForgotten
<1>1. Init => ClickInv
  BY DEF Init, ClickInv
<1>2. Types /\ ClickInv /\ [Next]_vars => ClickInv'
  <2> SUFFICES ASSUME Types, ClickInv, [Next]_vars PROVE ClickInv'
    OBVIOUS
  <2> USE DEF Types, ThreadTypes, HistoryTypes, ClickInv, Looping, Goto
  <2>1. CASE UNCHANGED <<main, event, owed>>
    BY <2>1
  <2>2. CASE Pair
    BY <2>2 DEF Pair, history
  <2>3. ASSUME NEW h \in Hosts,
               Start(h) \/ HandshakeFails(h) \/ Click(h) \/ Crash(h)
        PROVE  ClickInv'
    <3>1. CASE Start(h) \/ HandshakeFails(h) \/ Click(h)
      BY <3>1 DEF Start, HandshakeFails, Click, history
    <3>2. CASE Crash(h)
      <4>1. /\ main' = [main EXCEPT ![h] = "off"]
            /\ event' = [event EXCEPT ![h] = FALSE]
            /\ owed' = [owed EXCEPT ![h] = FALSE]
        BY <3>2 DEF Crash
      <4> QED BY <4>1
    <3> QED BY <2>3, <3>1, <3>2
  <2>4. ASSUME NEW h \in Hosts,
               Serve(h) \/ Wait(h) \/ Reset(h) \/ Connect(h) \/ ConnectFails(h)
        PROVE  ClickInv'
    BY <2>4 DEF Serve, Wait, Reset, Connect, ConnectFails, history
  <2>5. ASSUME NEW h \in Hosts,
               Collect(h) \/ SendFails(h) \/ AllSent(h) \/ Close(h)
        PROVE  ClickInv'
    BY <2>5 DEF Collect, SendFails, AllSent, Close, history
  <2>6. ASSUME NEW h \in Hosts, Stamp(h) \/ Update(h) \/ Wake(h)
        PROVE  ClickInv'
    BY <2>6 DEF Stamp, Update, Wake, history
  <2>7. ASSUME NEW h \in Hosts, SendFile(h) \/ Server(h) \/ LinkBreaks(h)
        PROVE  ClickInv'
    BY <2>1, <2>7 DEF SendFile, Server, Accept, TakeFile, SessionEnds, LinkBreaks,
         mainVars, history
  <2>8. CASE Tick \/ (\E h \in Hosts, f \in Files : Edit(h, f)) \/ UNCHANGED vars
    BY <2>1, <2>8 DEF Tick, Edit, vars, mainVars, history
  <2> QED BY <2>2, <2>3, <2>4, <2>5, <2>6, <2>7, <2>8
            DEF Next, Environment, Main
<1>3. ClickInv => ClickNotForgotten
  BY DEF ClickInv, ClickNotForgotten
<1> QED BY <1>1, <1>2, <1>3, TypesInvariant, PTL DEF Spec

-----------------------------------------------------------------------------
(* The tray icon *)

\* Whatever the order in which the two threads report, when both are at rest
\* the icon does not say that files are moving.
THEOREM TrayComesToRest == Spec => []TrayNotStuck
<1>1. Init => TrayInv
  BY DEF Init, TrayInv
<1>2. Types /\ TrayInv /\ [Next]_vars => TrayInv'
  <2> SUFFICES ASSUME Types, TrayInv, [Next]_vars PROVE TrayInv'
    OBVIOUS
  <2> USE DEF Types, ThreadTypes, TrayInv, Goto, Report
  <2>1. CASE UNCHANGED <<main, server, tray>>
    BY <2>1
  <2>2. CASE Pair
    BY <2>2 DEF Pair, serverVars
  <2>3. ASSUME NEW h \in Hosts, Start(h) \/ HandshakeFails(h) \/ Crash(h)
        PROVE  TrayInv'
    BY <2>3 DEF Start, HandshakeFails, Crash, serverVars
  <2>4. ASSUME NEW h \in Hosts,
               Serve(h) \/ Wait(h) \/ Reset(h) \/ Connect(h) \/ ConnectFails(h)
        PROVE  TrayInv'
    BY <2>4 DEF Serve, Wait, Reset, Connect, ConnectFails, serverVars
  <2>5. ASSUME NEW h \in Hosts,
               Collect(h) \/ SendFile(h) \/ SendFails(h) \/ AllSent(h) \/ Close(h)
        PROVE  TrayInv'
    BY <2>5 DEF Collect, SendFile, SendFails, AllSent, Close, serverVars
  <2>6. ASSUME NEW h \in Hosts, Stamp(h) \/ Update(h) \/ Wake(h)
        PROVE  TrayInv'
    BY <2>6 DEF Stamp, Update, Wake, serverVars
  <2>7. ASSUME NEW h \in Hosts, Server(h) PROVE TrayInv'
    BY <2>7 DEF Server, Accept, TakeFile, SessionEnds, mainVars
  <2>8. ASSUME NEW h \in Hosts, Click(h) \/ LinkBreaks(h) PROVE TrayInv'
    BY <2>1, <2>8 DEF Click, LinkBreaks, serverVars
  <2>9. CASE Tick \/ (\E h \in Hosts, f \in Files : Edit(h, f)) \/ UNCHANGED vars
    BY <2>1, <2>9 DEF Tick, Edit, vars, mainVars, serverVars
  <2> QED BY <2>2, <2>3, <2>4, <2>5, <2>6, <2>7, <2>8, <2>9
            DEF Next, Environment, Main
<1>3. Types /\ TrayInv => TrayNotStuck
  BY DEF Types, ThreadTypes, TrayStates, TrayInv, TrayNotStuck
<1> QED BY <1>1, <1>2, <1>3, TypesInvariant, PTL DEF Spec
-----------------------------------------------------------------------------
(* An upload that nothing interferes with *)

\* A machine serves a session in its loop only; and what the connection of an
\* upload is good for: the session it made is the latest of the peer, open, and
\* empty until the upload has begun.
Idle(h) ==
  /\ ~Looping(h) => server[h] = "off"
  /\ server[h] # "serve" => serving[h] = NoSession

Lined(h) ==
  up[h] => /\ main[h] \in {"collect", "send", "close"}
           /\ Latest(Peer(h)).state = "open"
           /\ main[h] = "collect" => Latest(Peer(h)).files = <<>>

LineInv == \A h \in Hosts : Idle(h) /\ Lined(h)

\* Nothing that is on its way to h can change a file of h.
NothingComes(h) ==
  /\ serving[h].files = <<>>
  /\ \A k \in 1..Len(inbox[h]) : inbox[h][k].files = <<>>
  /\ \A k \in 1..Len(overtaken[h]) : overtaken[h][k].files = <<>>

QuietInv(h) == NothingComes(h) /\ main[Peer(h)] \notin {"send", "close"}

\* The latest session is the only one.
OneSession(p) ==
  /\ overtaken[p] = <<>>
  /\ \/ inbox[p] = <<>> /\ ~behind[p]
     \/ Len(inbox[p]) = 1 /\ serving[p] = NoSession

\* The files fs on their way are as in dh; a file of dh is still to be sent, on
\* its way, or the same in dp.
Agree(fs, dh, dp, td) ==
  /\ \A i \in 1..Len(fs) : fs[i].ver = dh[fs[i].file]
  /\ \A f \in Files : dh[f] > 0 =>
       \/ f \in td
       \/ \E i \in 1..Len(fs) : fs[i].file = f
       \/ dp[f] = dh[f]

Unsent(h) == IF main[h] = "send" THEN todo[h] ELSE {}

SoloAt(h) ==
  /\ Looping(h)
  /\ QuietInv(h)
  /\ main[h] = "send" => up[h]
  /\ main[h] # "collect" =>
       /\ OneSession(Peer(h))
       /\ Agree(Latest(Peer(h)).files, desk[h], desk[Peer(h)], Unsent(h))

SoloInv == \A h \in Hosts : solo = h => SoloAt(h)

LEMMA TwoHosts ==
  /\ \A h \in Hosts : Peer(h) \in Hosts /\ Peer(h) # h /\ Peer(Peer(h)) = h
  /\ \A g, h \in Hosts : h = g \/ h = Peer(g)
<1>1. PICK a \in Hosts, b \in Hosts : a # b /\ Hosts = {a, b}
  BY HostsAssumption
<1>2. \A h \in Hosts : Peer(h) \in Hosts /\ Peer(h) # h
  BY PeerIsHost
<1> QED BY <1>1, <1>2

\* What SetLatest does.
LEMMA SetLatestDoes ==
  ASSUME SessionTypes, NEW p \in Hosts, NEW s, SetLatest(p, s),
         Newer(p) \/ ~behind[p], UNCHANGED <<overtaken, behind>>
  PROVE  /\ Latest(p)' = s
         /\ \A q \in Hosts : q # p => inbox'[q] = inbox[q] /\ serving'[q] = serving[q]
         /\ OneSession(p) => OneSession(p)'
         /\ Newer(p) => serving' = serving
<1>1. inbox[p] \in Seq(SessionUpTo(edits)) /\ Len(inbox[p]) \in Nat
  BY LenProperties DEF SessionTypes
<1>2. CASE Newer(p)
  <2> DEFINE n == Len(inbox[p])
  <2>1. n \in 1..Len(inbox[p])
    BY <1>1, <1>2, EmptySeq DEF Newer
  <2>2. inbox' = [inbox EXCEPT ![p][n] = s] /\ serving' = serving
    BY <1>2 DEF SetLatest
  <2>3. inbox'[p] = [inbox[p] EXCEPT ![n] = s]
    BY <2>2 DEF SessionTypes
  <2>4. DOMAIN inbox'[p] = DOMAIN inbox[p] /\ inbox'[p][n] = s
    BY <1>1, <2>1, <2>3
  <2>5. Len(inbox'[p]) = n
    BY <1>1, <2>3
  <2>6. inbox'[p] # <<>>
    BY <2>1, <2>5, EmptySeq
  <2>7. \A q \in Hosts : q # p => inbox'[q] = inbox[q]
    BY <2>2 DEF SessionTypes
  <2> QED BY <1>2, <2>2, <2>4, <2>5, <2>6, <2>7 DEF Latest, Newer, OneSession
<1>3. CASE ~Newer(p)
  <2>1. serving' = [serving EXCEPT ![p] = s] /\ inbox' = inbox
    BY <1>3 DEF SetLatest
  <2>2. serving'[p] = s /\ \A q \in Hosts : q # p => serving'[q] = serving[q]
    BY <2>1 DEF SessionTypes
  <2>3. OneSession(p) => OneSession(p)'
    BY <1>1, <1>3, <2>1, EmptySeq DEF OneSession, Newer
  <2> QED BY <1>3, <2>1, <2>2, <2>3 DEF Latest, Newer
<1> QED BY <1>2, <1>3

\* The session accepted is the latest, or the latest is over.
LEMMA AcceptDoes ==
  ASSUME SessionTypes, edits \in Nat, behind \in [Hosts -> BOOLEAN],
         NEW p \in Hosts, Accept(p), serving[p] = NoSession
  PROVE  /\ Latest(p)' = Latest(p)
         /\ \A q \in Hosts : q # p => /\ inbox'[q] = inbox[q] /\ serving'[q] = serving[q]
                                      /\ overtaken'[q] = overtaken[q]
                                      /\ behind'[q] = behind[q]
         /\ OneSession(p) => OneSession(p)'
         /\ NothingComes(p) => NothingComes(p)'
<1>1. /\ inbox[p] \in Seq(SessionUpTo(edits))
      /\ overtaken[p] \in Seq(SessionUpTo(edits))
  BY DEF SessionTypes
<1>2. CASE AcceptNewest(p)
  <2> DEFINE n == Len(inbox[p])
             q == SubSeq(inbox[p], 1, n - 1)
             m == Len(overtaken[p])
  <2>1. /\ serving'[p] = inbox[p][n] /\ overtaken'[p] = overtaken[p] \o q
        /\ inbox'[p] = <<>> /\ behind'[p] = FALSE /\ inbox[p] # <<>>
    BY <1>2 DEF AcceptNewest, Newer, SessionTypes
  <2>2. /\ n \in Nat \ {0} /\ n \in 1..n
        /\ q \in Seq(SessionUpTo(edits)) /\ Len(q) = n - 1
        /\ \A i \in 1..(n - 1) : q[i] = inbox[p][i]
    BY <1>1, <2>1, LastOfQueue
  <2>3. Latest(p)' = Latest(p)
    BY <2>1 DEF Latest, Newer
  <2>4. m \in Nat /\ Len(overtaken'[p]) = m + (n - 1)
        /\ \A k \in 1..(m + (n - 1)) :
             overtaken'[p][k] = IF k <= m THEN overtaken[p][k] ELSE q[k - m]
    <3>1. m \in Nat
      BY <1>1, LenProperties
    <3>2. /\ Len(overtaken[p] \o q) = m + Len(q)
          /\ \A k \in 1..(m + Len(q)) :
               (overtaken[p] \o q)[k] = IF k <= m THEN overtaken[p][k] ELSE q[k - m]
      <4> HIDE DEF n, q
      <4> QED BY <1>1, <2>2, ConcatProperties DEF m
    <3> HIDE DEF n, m, q
    <3> QED BY <2>1, <2>2, <3>1, <3>2
  <2>5. ASSUME NothingComes(p)
        PROVE  NothingComes(p)'
    <3>1. serving'[p].files = <<>>
      BY <2>1, <2>2, <2>5 DEF NothingComes
    <3>2. ASSUME NEW k \in 1..Len(overtaken'[p])
          PROVE  overtaken'[p][k].files = <<>>
      <4>0. k \in 1..(m + (n - 1))
        BY <2>4
      <4>1. CASE k <= m
        <5>1. k \in 1..m /\ overtaken'[p][k] = overtaken[p][k]
          <6> HIDE DEF n, m, q
          <6> QED BY <2>2, <2>4, <4>0, <4>1
        <5> QED BY <2>5, <5>1 DEF NothingComes
      <4>2. CASE ~(k <= m)
        <5>1. k - m \in 1..(n - 1) /\ k - m \in 1..n
          <6> HIDE DEF n, m
          <6> QED BY <2>2, <2>4, <4>0, <4>2
        <5>2. overtaken'[p][k] = inbox[p][k - m]
          BY <2>2, <2>4, <4>0, <4>2, <5>1
        <5> QED BY <2>5, <5>1, <5>2 DEF NothingComes
      <4> QED BY <4>1, <4>2
    <3>3. \A k \in 1..Len(inbox'[p]) : FALSE
      BY <2>1, EmptySeq
    <3> QED BY <3>1, <3>2, <3>3 DEF NothingComes
  <2>6. ASSUME OneSession(p)
        PROVE  OneSession(p)'
    <3>1. overtaken[p] = <<>> /\ n = 1
      BY <2>1, <2>6 DEF OneSession
    <3>2. Len(overtaken'[p]) = 0
      <4>1. m = 0
        BY <3>1, EmptySeq
      <4> QED BY <2>4, <3>1, <4>1
    <3>3. overtaken'[p] \in Seq(SessionUpTo(edits))
      BY <1>1, <2>1, <2>2, ConcatProperties
    <3>4. overtaken'[p] = <<>>
      BY <3>2, <3>3, EmptySeq
    <3> QED BY <2>1, <3>4 DEF OneSession
  <2>7. \A g \in Hosts : g # p => /\ inbox'[g] = inbox[g] /\ serving'[g] = serving[g]
                                  /\ overtaken'[g] = overtaken[g]
                                  /\ behind'[g] = behind[g]
    BY <1>2 DEF AcceptNewest, SessionTypes
  <2> QED BY <2>3, <2>5, <2>6, <2>7
<1>3. CASE AcceptOvertaken(p)
  <2> DEFINE n == Len(overtaken[p])
             q == SubSeq(overtaken[p], 1, n - 1)
  <2>1. /\ serving'[p] = overtaken[p][n] /\ overtaken'[p] = q
        /\ inbox' = inbox /\ behind'[p] = TRUE
        /\ overtaken[p] # <<>> /\ inbox[p] = <<>>
    BY <1>3 DEF AcceptOvertaken, Newer, SessionTypes
  <2>2. /\ n \in Nat \ {0} /\ n \in 1..n
        /\ Len(q) = n - 1
        /\ \A i \in 1..(n - 1) : q[i] = overtaken[p][i]
    BY <1>1, <2>1, LastOfQueue
  <2>3. Latest(p)' = Latest(p)
    BY <2>1 DEF Latest, Newer
  <2>4. \A i \in 1..(n - 1) : i \in 1..n
    <3> HIDE DEF n
    <3> QED BY <2>2
  <2>5. NothingComes(p) => NothingComes(p)'
    BY <2>1, <2>2, <2>4 DEF NothingComes
  <2>6. ~OneSession(p)
    BY <2>1 DEF OneSession
  <2>7. \A g \in Hosts : g # p => /\ inbox'[g] = inbox[g] /\ serving'[g] = serving[g]
                                  /\ overtaken'[g] = overtaken[g]
                                  /\ behind'[g] = behind[g]
    BY <1>3 DEF AcceptOvertaken, SessionTypes
  <2> QED BY <2>3, <2>5, <2>6, <2>7
<1> QED BY <1>2, <1>3 DEF Accept

\* What Connect does.
LEMMA ConnectDoes ==
  ASSUME SessionTypes, NEW h \in Hosts, Connect(h)
  PROVE  /\ Latest(Peer(h))' = [files |-> <<>>, state |-> "open"]
         /\ inbox'[h] = inbox[h] /\ UNCHANGED <<serving, overtaken, behind>>
         /\ \A k \in 1..Len(inbox'[Peer(h)]) :
              \/ k \in 1..Len(inbox[Peer(h)]) /\ inbox'[Peer(h)][k] = inbox[Peer(h)][k]
              \/ inbox'[Peer(h)][k].files = <<>>
<1> DEFINE p == Peer(h)
           new == [files |-> <<>>, state |-> "open"]
<1>1. p \in Hosts /\ p # h
  BY TwoHosts
<1>2. /\ inbox' = [inbox EXCEPT ![p] = Append(inbox[p], new)]
      /\ UNCHANGED <<serving, overtaken, behind>>
  BY DEF Connect
<1>3. inbox'[p] = Append(inbox[p], new) /\ inbox'[h] = inbox[h]
  BY <1>1, <1>2 DEF SessionTypes
<1>4. inbox[p] \in Seq(SessionUpTo(edits)) /\ new \in [files : {<<>>}, state : {"open"}]
  BY <1>1 DEF SessionTypes
<1>5. /\ Len(inbox[p]) \in Nat
      /\ Len(Append(inbox[p], new)) = Len(inbox[p]) + 1
      /\ \A k \in 1..Len(inbox[p]) : Append(inbox[p], new)[k] = inbox[p][k]
      /\ Append(inbox[p], new)[Len(inbox[p]) + 1] = new
  <2>1. inbox[p] \in Seq(SessionUpTo(edits) \cup {new}) /\ new \in SessionUpTo(edits) \cup {new}
    BY <1>4
  <2> HIDE DEF new, p
  <2> QED BY <2>1, AppendProperties, LenProperties
<1> HIDE DEF p
<1>6. inbox'[p] # <<>>
  BY <1>3, <1>5, EmptySeq
<1>7. Latest(p)' = new
  BY <1>3, <1>5, <1>6 DEF Latest, Newer
<1>8. ASSUME NEW k \in 1..Len(inbox'[p])
      PROVE  \/ k \in 1..Len(inbox[p]) /\ inbox'[p][k] = inbox[p][k]
             \/ inbox'[p][k].files = <<>>
  <2>1. CASE k \in 1..Len(inbox[p])
    BY <1>3, <1>5, <2>1
  <2>2. CASE k = Len(inbox[p]) + 1
    BY <1>3, <1>5, <2>2
  <2> QED BY <1>3, <1>5, <2>1, <2>2
<1> QED BY <1>2, <1>3, <1>7, <1>8 DEF p

\* While an upload's connection is usable its session is not over.
LEMMA UpIsLatest ==
  ASSUME LineInv, NEW h \in Hosts, up[h]
  PROVE  Newer(Peer(h)) \/ ~behind[Peer(h)]
<1>1. Latest(Peer(h)).state = "open"
  BY DEF LineInv, Lined
<1> QED BY <1>1 DEF Latest, NoSession

\* A machine that is off serves nobody.
LEMMA IdleStep ==
  ASSUME Types, LineInv, [Next]_vars, NEW h \in Hosts
  PROVE  Idle(h)'
<1> USE DEF Types, ThreadTypes, SessionTypes, Looping, Goto, Report
<1>1. Idle(h) /\ serving[h] \in SessionUpTo(edits)
  BY DEF LineInv
<1>2. ASSUME main'[h] = main[h] \/ (Looping(h) /\ Looping(h)'), server'[h] = server[h],
             serving'[h] = serving[h]
      PROVE  Idle(h)'
  BY <1>1, <1>2 DEF Idle
<1>3. ASSUME NEW g \in Hosts, up[g]
      PROVE  Looping(g) /\ ~Newer(Peer(g)) => server[Peer(g)] = "serve"
  <2>1. Peer(g) \in Hosts
    BY TwoHosts
  <2>2. Latest(Peer(g)).state = "open" /\ Idle(Peer(g))
    BY <1>3, <2>1 DEF LineInv, Lined
  <2> QED BY <2>1, <2>2 DEF Idle, Latest, NoSession
<1>4. CASE Pair
  BY <1>1, <1>4 DEF Pair, serverVars, Idle
<1>5. CASE Tick \/ UNCHANGED vars
  BY <1>2, <1>5 DEF Tick, mainVars, serverVars, vars
<1>6. ASSUME NEW g \in Hosts, Start(g) \/ HandshakeFails(g)
      PROVE  Idle(h)'
  BY <1>1, <1>6 DEF Start, HandshakeFails, serverVars, Idle
<1>7. ASSUME NEW g \in Hosts, Serve(g)
      PROVE  Idle(h)'
  BY <1>1, <1>7 DEF Serve, Idle
<1>8. ASSUME NEW g \in Hosts, Click(g) \/ \E f \in Files : Edit(g, f)
      PROVE  Idle(h)'
  BY <1>2, <1>8 DEF Click, Edit, mainVars, serverVars
<1>9. ASSUME NEW g \in Hosts,
             \/ Wait(g) \/ Reset(g) \/ ConnectFails(g) \/ Collect(g) \/ SendFails(g)
             \/ AllSent(g) \/ Stamp(g) \/ Update(g) \/ Wake(g)
      PROVE  Idle(h)'
  <2>1. serving' = serving /\ server' = server
    BY <1>9 DEF Wait, Reset, ConnectFails, Collect, SendFails, AllSent, Stamp, Update,
         Wake, serverVars
  <2>2. main'[h] = main[h] \/ (Looping(h) /\ Looping(h)')
    BY <1>9 DEF Wait, Reset, ConnectFails, Collect, SendFails, AllSent, Stamp, Update, Wake
  <2> QED BY <1>2, <2>1, <2>2
<1>10. ASSUME NEW g \in Hosts, Connect(g)
       PROVE  Idle(h)'
  <2>1. serving' = serving /\ server' = server
    BY <1>10 DEF Connect
  <2>2. main'[h] = main[h] \/ (Looping(h) /\ Looping(h)')
    BY <1>10 DEF Connect
  <2> QED BY <1>2, <2>1, <2>2
<1>11. ASSUME NEW g \in Hosts, NEW s, SetLatest(Peer(g), s), up[g], server' = server,
              UNCHANGED <<overtaken, behind>>,
              main'[h] = main[h] \/ (Looping(h) /\ Looping(h)')
       PROVE  Idle(h)'
  <2>1. Peer(g) \in Hosts /\ main[g] \in {"collect", "send", "close"}
    BY <1>11, TwoHosts DEF LineInv, Lined
  <2>2. CASE Newer(Peer(g))
    BY <1>2, <1>11, <2>1, <2>2, SetLatestDoes, UpIsLatest
  <2>3. CASE ~Newer(Peer(g)) /\ h = Peer(g)
    <3>1. server[h] = "serve"
      BY <1>3, <1>11, <2>1, <2>3
    <3> QED BY <1>1, <1>11, <3>1 DEF Idle
  <2>4. CASE h # Peer(g)
    <3>1. serving'[h] = serving[h]
      BY <1>11, <2>1, <2>4, SetLatestDoes, UpIsLatest
    <3> QED BY <1>2, <1>11, <3>1
  <2> QED BY <2>2, <2>3, <2>4
<1>12. ASSUME NEW g \in Hosts, SendFile(g)
       PROVE  Idle(h)'
  <2>1. server' = server /\ main' = main /\ up[g] /\ UNCHANGED <<overtaken, behind>>
    BY <1>12 DEF SendFile
  <2>2. \E s : SetLatest(Peer(g), s)
    BY <1>12 DEF SendFile
  <2> QED BY <1>11, <2>1, <2>2
<1>13. ASSUME NEW g \in Hosts, Close(g)
       PROVE  Idle(h)'
  <2>1. server' = server /\ UNCHANGED <<overtaken, behind>>
    BY <1>13 DEF Close
  <2>2. main'[h] = main[h] \/ (Looping(h) /\ Looping(h)')
    BY <1>13 DEF Close
  <2>3. CASE up[g]
    <3>1. \E s : SetLatest(Peer(g), s)
      BY <1>13, <2>3 DEF Close
    <3> QED BY <1>11, <2>1, <2>2, <2>3, <3>1
  <2>4. CASE ~up[g]
    BY <1>2, <1>13, <2>1, <2>2, <2>4 DEF Close
  <2> QED BY <2>3, <2>4
<1>14. ASSUME NEW g \in Hosts, Accept(g) \/ TakeFile(g) \/ SessionEnds(g)
       PROVE  Idle(h)'
  <2>1. main' = main /\ server[g] # "off"
    BY <1>14 DEF Accept, TakeFile, SessionEnds, mainVars
  <2>2. CASE h # g
    BY <1>2, <1>14, <2>1, <2>2 DEF Accept, AcceptNewest, AcceptOvertaken, TakeFile, SessionEnds
  <2>3. CASE h = g
    <3>1. Looping(h)
      BY <1>1, <2>1, <2>3 DEF Idle
    <3> QED BY <1>1, <1>14, <2>1, <2>3, <3>1 DEF Accept, TakeFile, SessionEnds, Idle
  <2> QED BY <2>2, <2>3
<1>15. ASSUME NEW g \in Hosts, LinkBreaks(g)
       PROVE  Idle(h)'
  <2>1. main' = main /\ server' = server
    BY <1>15 DEF LinkBreaks
  <2>2. CASE server[g] = "serve" /\ \E s : serving' = [serving EXCEPT ![g] = s]
    BY <1>1, <2>1, <2>2 DEF Idle
  <2>3. CASE serving' = serving
    BY <1>2, <2>1, <2>3
  <2> QED BY <1>15, <2>2, <2>3 DEF LinkBreaks
<1>16. ASSUME NEW g \in Hosts, Crash(g)
       PROVE  Idle(h)'
  <2> DEFINE p == Peer(g)
  <2>1. p \in Hosts /\ p # g
    BY TwoHosts
  <2>2. main' = [main EXCEPT ![g] = "off"] /\ server' = [server EXCEPT ![g] = "off"]
    BY <1>16 DEF Crash
  <2>3. CASE h = g
    <3>1. serving'[g] = NoSession
      BY <1>16, <2>1 DEF Crash
    <3> QED BY <2>2, <2>3, <3>1 DEF Idle
  <2>4. CASE h # g
    <3>1. main'[h] = main[h] /\ server'[h] = server[h]
      BY <2>2, <2>4
    <3>2. h = p
      BY <2>4, TwoHosts
    <3>3. CASE up[g] /\ ~Newer(p)
      <4>1. main[g] \in {"collect", "send", "close"}
        BY <3>3 DEF LineInv, Lined
      <4>2. server[h] = "serve"
        BY <1>3, <3>2, <3>3, <4>1
      <4> QED BY <1>1, <3>1, <4>2 DEF Idle
    <3>4. CASE ~up[g] \/ Newer(p)
      <4>1. serving' = [serving EXCEPT ![g] = NoSession]
        BY <1>16, <3>4 DEF Crash
      <4>2. serving'[h] = serving[h]
        BY <2>4, <4>1
      <4> QED BY <1>2, <3>1, <4>2
    <3> QED BY <3>3, <3>4
  <2> QED BY <2>3, <2>4
<1> QED BY <1>4, <1>5, <1>6, <1>7, <1>8, <1>9, <1>10, <1>12, <1>13, <1>14, <1>15, <1>16
        DEF Next, Environment, Main, Server

\* The connection of an upload is the latest of the peer, and open.
LEMMA LinedStep ==
  ASSUME Types, LineInv, [Next]_vars, NEW h \in Hosts
  PROVE  Lined(h)'
<1> DEFINE p == Peer(h)
<1> USE DEF Types, ThreadTypes, SessionTypes, Goto, Report
<1>1. p \in Hosts /\ p # h /\ Lined(h) /\ Peer(p) = h /\ edits \in Nat
  BY TwoHosts DEF LineInv, DiskTypes
<1>2. ASSUME up'[h] => up[h] /\ main'[h] \in {"collect", "send", "close"}
                       /\ (main'[h] = "collect" => main[h] = "collect"),
             inbox'[p] = inbox[p], serving'[p] = serving[p], behind'[p] = behind[p]
      PROVE  Lined(h)'
  <2>1. Latest(p)' = Latest(p)
    BY <1>2 DEF Latest, Newer
  <2> QED BY <1>1, <1>2, <2>1 DEF Lined
<1>3. ASSUME UNCHANGED <<up, inbox, serving, behind>>, main'[h] = main[h]
      PROVE  Lined(h)'
  BY <1>1, <1>2, <1>3 DEF Lined
<1>4. CASE Pair
  BY <1>1, <1>2, <1>4 DEF Pair, Lined, serverVars
<1>5. CASE Tick \/ UNCHANGED vars
  BY <1>3, <1>5 DEF Tick, mainVars, serverVars, vars
<1>6. ASSUME NEW g \in Hosts, Click(g) \/ \E f \in Files : Edit(g, f)
      PROVE  Lined(h)'
  BY <1>3, <1>6 DEF Click, Edit, mainVars, serverVars
<1>7. ASSUME NEW g \in Hosts,
             \/ Start(g) \/ HandshakeFails(g) \/ Serve(g) \/ Wait(g) \/ Reset(g)
             \/ ConnectFails(g) \/ Collect(g) \/ SendFails(g) \/ AllSent(g) \/ Stamp(g)
             \/ Update(g) \/ Wake(g)
      PROVE  Lined(h)'
  <2>1. UNCHANGED <<up, inbox, serving, behind>>
    BY <1>7 DEF Start, HandshakeFails, Serve, Wait, Reset, ConnectFails, Collect,
         SendFails, AllSent, Stamp, Update, Wake, serverVars
  <2>2. CASE h # g
    <3>1. main'[h] = main[h]
      BY <1>7, <2>2 DEF Start, HandshakeFails, Serve, Wait, Reset, ConnectFails, Collect,
           SendFails, AllSent, Stamp, Update, Wake
    <3> QED BY <1>3, <2>1, <3>1
  <2>3. CASE h = g /\ ~up[h]
    BY <1>2, <2>1, <2>3
  <2>4. CASE h = g /\ up[h]
    <3>1. main[h] \in {"collect", "send", "close"}
      BY <1>1, <2>4 DEF Lined
    <3>2. main'[h] \in {"send", "close"}
      BY <1>7, <2>4, <3>1 DEF Start, HandshakeFails, Serve, Wait, Reset, ConnectFails,
           Collect, SendFails, AllSent, Stamp, Update, Wake
    <3> QED BY <1>2, <2>1, <2>4, <3>2
  <2> QED BY <2>2, <2>3, <2>4
<1>8. ASSUME NEW g \in Hosts, Connect(g)
      PROVE  Lined(h)'
  <2>1. CASE h = g
    <3>1. Latest(p)' = [files |-> <<>>, state |-> "open"]
      BY <1>8, <2>1, ConnectDoes
    <3>2. main'[h] = "collect"
      BY <1>8, <2>1 DEF Connect
    <3> QED BY <3>1, <3>2 DEF Lined
  <2>2. CASE h # g
    <3>1. g = p /\ Peer(g) = h
      BY <1>1, <2>2, TwoHosts
    <3>2. inbox'[p] = inbox[p] /\ serving' = serving /\ behind' = behind
      BY <1>8, <3>1, ConnectDoes
    <3>3. main'[h] = main[h] /\ up'[h] = up[h]
      BY <1>8, <2>2 DEF Connect
    <3> QED BY <1>1, <1>2, <3>2, <3>3 DEF Lined
  <2> QED BY <2>1, <2>2
<1>9. ASSUME NEW g \in Hosts, NEW s, SetLatest(Peer(g), s), g # h, up[g],
             UNCHANGED <<overtaken, behind>>, main'[h] = main[h], up'[h] = up[h]
      PROVE  Lined(h)'
  <2>1. Peer(g) = h
    BY <1>1, <1>9, TwoHosts
  <2>2. inbox'[p] = inbox[p] /\ serving'[p] = serving[p]
    BY <1>1, <1>9, <2>1, SetLatestDoes, UpIsLatest
  <2> QED BY <1>1, <1>2, <1>9, <2>2 DEF Lined
<1>10. ASSUME NEW g \in Hosts, SendFile(g)
       PROVE  Lined(h)'
  <2>1. PICK f \in todo[g] :
          SetLatest(Peer(g), [Latest(Peer(g)) EXCEPT !.files =
                                Append(@, [file |-> f, ver |-> desk[g][f]])])
    BY <1>10 DEF SendFile
  <2>2. /\ main[g] = "send" /\ up[g] /\ main' = main /\ up' = up
        /\ UNCHANGED <<overtaken, behind>>
    BY <1>10 DEF SendFile
  <2>3. CASE h = g
    <3>1. Latest(p)' = [Latest(p) EXCEPT !.files =
                                Append(@, [file |-> f, ver |-> desk[g][f]])]
      BY <1>1, <2>1, <2>2, <2>3, SetLatestDoes, UpIsLatest
    <3>2. Latest(p) \in SessionUpTo(edits)
      BY <1>1, LatestIsSession
    <3>3. Latest(p)'.state = Latest(p).state
      BY <3>1, <3>2 DEF SessionUpTo
    <3> QED BY <1>1, <2>2, <2>3, <3>3 DEF Lined
  <2>4. CASE h # g
    BY <1>9, <2>1, <2>2, <2>4
  <2> QED BY <2>3, <2>4
<1>11. ASSUME NEW g \in Hosts, Close(g)
       PROVE  Lined(h)'
  <2>1. CASE h = g
    BY <1>11, <2>1 DEF Close, Lined
  <2>2. CASE h # g
    <3>1. main'[h] = main[h] /\ up'[h] = up[h] /\ UNCHANGED <<overtaken, behind>>
      BY <1>11, <2>2 DEF Close
    <3>2. CASE up[g]
      <4>1. \E s : SetLatest(Peer(g), s)
        BY <1>11, <3>2 DEF Close
      <4> QED BY <1>9, <2>2, <3>1, <3>2, <4>1
    <3>3. CASE ~up[g]
      BY <1>1, <1>2, <1>11, <3>1, <3>3 DEF Close, Lined
    <3> QED BY <3>2, <3>3
  <2> QED BY <2>1, <2>2
<1>12. ASSUME NEW g \in Hosts, Accept(g)
       PROVE  Lined(h)'
  <2>1. main' = main /\ up' = up
    BY <1>12 DEF Accept, mainVars
  <2>2. Latest(p)' = Latest(p)
    <3>0. serving[g] = NoSession
      BY <1>12 DEF Accept, LineInv, Idle
    <3>1. CASE g = p
      BY <1>1, <1>12, <3>0, <3>1, AcceptDoes
    <3>2. CASE g # p
      BY <1>1, <1>12, <3>0, <3>2, AcceptDoes DEF Latest, Newer
    <3> QED BY <3>1, <3>2
  <2> QED BY <1>1, <2>1, <2>2 DEF Lined
<1>13. ASSUME NEW g \in Hosts, TakeFile(g)
       PROVE  Lined(h)'
  <2>1. /\ main' = main /\ up' = up /\ inbox' = inbox /\ behind' = behind
        /\ serving' = [serving EXCEPT ![g].files = Tail(@)]
        /\ serving[g].files # <<>>
    BY <1>13 DEF TakeFile, mainVars
  <2>2. CASE g # p \/ Newer(p) \/ behind[p]
    <3>1. Latest(p)' = Latest(p)
      BY <1>1, <2>1, <2>2 DEF Latest, Newer
    <3> QED BY <1>1, <2>1, <3>1 DEF Lined
  <2>3. CASE g = p /\ ~Newer(p) /\ ~behind[p]
    <3>1. Latest(p) = serving[p] /\ Latest(p)' = serving'[p]
      BY <1>1, <2>1, <2>3 DEF Latest, Newer
    <3>2. serving'[p].state = serving[p].state
      BY <1>1, <2>1, <2>3 DEF SessionUpTo
    <3> QED BY <1>1, <2>1, <2>3, <3>1, <3>2 DEF Lined
  <2> QED BY <2>2, <2>3
<1>14. ASSUME NEW g \in Hosts, SessionEnds(g)
       PROVE  Lined(h)'
  <2>1. /\ main' = main /\ up' = up /\ inbox' = inbox
        /\ serving' = [serving EXCEPT ![g] = NoSession]
        /\ behind' = [behind EXCEPT ![g] = FALSE]
        /\ serving[g].state # "open"
    BY <1>14 DEF SessionEnds, mainVars
  <2>2. CASE g # p \/ Newer(p)
    <3>1. Latest(p)' = Latest(p)
      BY <1>1, <2>1, <2>2 DEF Latest, Newer
    <3> QED BY <1>1, <2>1, <3>1 DEF Lined
  <2>3. CASE g = p /\ ~Newer(p)
    BY <1>1, <2>1, <2>3 DEF Latest, Lined, NoSession
  <2> QED BY <2>2, <2>3
<1>15. ASSUME NEW g \in Hosts, LinkBreaks(g)
       PROVE  Lined(h)'
  <2>1. main' = main /\ behind' = behind
    BY <1>15 DEF LinkBreaks
  <2>2. CASE g # p
    <3>1. g = h
      BY <1>1, <2>2, TwoHosts
    <3>2. up'[h] = up[h]
      BY <1>1, <1>15, <3>1 DEF LinkBreaks
    <3>3. inbox'[p] = inbox[p] /\ serving'[p] = serving[p]
      BY <1>1, <1>15, <3>1 DEF LinkBreaks
    <3> QED BY <1>1, <1>2, <2>1, <3>2, <3>3 DEF Lined
  <2>3. ASSUME g = p, UNCHANGED inbox,
               \E s : serving' = [serving EXCEPT ![g] = s],
               up' = [up EXCEPT ![Peer(g)] = IF Newer(g) \/ behind[g] THEN @ ELSE FALSE]
        PROVE  Lined(h)'
    <3>1. CASE Newer(p) \/ behind[p]
      <4>1. Latest(p)' = Latest(p) /\ up'[h] = up[h]
        BY <1>1, <2>1, <2>3, <3>1 DEF Latest, Newer
      <4> QED BY <1>1, <2>1, <4>1 DEF Lined
    <3>2. CASE ~Newer(p) /\ ~behind[p]
      BY <1>1, <2>3, <3>2 DEF Lined
    <3> QED BY <3>1, <3>2
  <2>4. ASSUME g = p, UNCHANGED serving, NEW k \in 1..Len(inbox[g]), NEW s,
               inbox' = [inbox EXCEPT ![g][k] = s],
               up' = [up EXCEPT ![Peer(g)] = IF k = Len(inbox[g]) THEN FALSE ELSE @]
        PROVE  Lined(h)'
    <3>1. CASE k = Len(inbox[p])
      BY <1>1, <2>4, <3>1 DEF Lined
    <3>2. CASE k # Len(inbox[p])
      <4> DEFINE q == inbox[p]
                 n == Len(inbox[p])
      <4>1. q \in Seq(SessionUpTo(edits)) /\ n \in Nat /\ q # <<>>
        BY <1>1, <2>4, LenProperties, EmptySeq
      <4>2. inbox'[p] = [q EXCEPT ![k] = s]
        BY <1>1, <2>4
      <4>3. Len(inbox'[p]) = n /\ n \in 1..n
        BY <2>4, <4>1, <4>2
      <4>4. inbox'[p][n] = q[n]
        BY <3>2, <4>1, <4>2, <4>3
      <4>5. inbox'[p] # <<>>
        BY <4>3, EmptySeq
      <4>6. Latest(p)' = Latest(p)
        BY <2>1, <4>1, <4>3, <4>4, <4>5 DEF Latest, Newer
      <4>7. up'[h] = up[h]
        BY <1>1, <2>4, <3>2
      <4> QED BY <1>1, <2>1, <4>6, <4>7 DEF Lined
    <3> QED BY <3>1, <3>2
  <2>5. ASSUME UNCHANGED <<inbox, serving, up>>
        PROVE  Lined(h)'
    BY <1>3, <2>1, <2>5
  <2> QED BY <1>15, <2>2, <2>3, <2>4, <2>5 DEF LinkBreaks
<1>16. ASSUME NEW g \in Hosts, Crash(g)
       PROVE  Lined(h)'
  BY <1>16 DEF Crash, Lined
<1> QED BY <1>4, <1>5, <1>6, <1>7, <1>8, <1>10, <1>11, <1>12, <1>13, <1>14, <1>15, <1>16
        DEF Next, Environment, Main, Server

LEMMA LineInit == Init => LineInv
  BY DEF Init, LineInv, Idle, Lined, Looping

LEMMA LineStep == Types /\ LineInv /\ [Next]_vars => LineInv'
  BY IdleStep, LinedStep DEF LineInv

\* At the start every file is to be sent.
LEMMA AgreeStart ==
  ASSUME NEW dh, NEW dp, NEW td, \A f \in Files : dh[f] > 0 => f \in td
  PROVE  Agree(<<>>, dh, dp, td)
<1>1. Len(<<>>) = 0
  BY EmptySeq
<1> QED BY <1>1 DEF Agree

\* A file that is sent is on its way.
LEMMA AgreeSend ==
  ASSUME NEW S, NEW fs \in Seq(S), NEW dh, NEW dp, NEW td, Agree(fs, dh, dp, td),
         NEW f, [file |-> f, ver |-> dh[f]] \in S
  PROVE  Agree(Append(fs, [file |-> f, ver |-> dh[f]]), dh, dp, td \ {f})
<1> DEFINE x == [file |-> f, ver |-> dh[f]]
           gs == Append(fs, x)
<1>1. x.file = f /\ x.ver = dh[f]
  OBVIOUS
<1>2. x \in S
  OBVIOUS
<1> HIDE DEF x
<1>3. /\ Len(fs) \in Nat
      /\ Len(gs) = Len(fs) + 1
      /\ \A i \in 1..Len(fs) : gs[i] = fs[i]
      /\ gs[Len(fs) + 1] = x
  BY <1>2, AppendProperties, LenProperties
<1> HIDE DEF gs
<1>4. ASSUME NEW i \in 1..Len(gs) PROVE gs[i].ver = dh[gs[i].file]
  <2>1. CASE i \in 1..Len(fs)
    BY <1>3, <2>1 DEF Agree
  <2>2. CASE i = Len(fs) + 1
    BY <1>1, <1>3, <2>2
  <2> QED BY <1>3, <2>1, <2>2
<1>5. ASSUME NEW g \in Files, dh[g] > 0
      PROVE  g \in td \ {f} \/ (\E i \in 1..Len(gs) : gs[i].file = g) \/ dp[g] = dh[g]
  <2>1. CASE g = f
    <3>1. Len(fs) + 1 \in 1..Len(gs)
      BY <1>3
    <3> QED BY <1>1, <1>3, <2>1, <3>1
  <2>2. CASE \E i \in 1..Len(fs) : fs[i].file = g
    <3>1. PICK i \in 1..Len(fs) : fs[i].file = g
      BY <2>2
    <3>2. i \in 1..Len(gs) /\ gs[i] = fs[i]
      BY <1>3
    <3> QED BY <3>1, <3>2
  <2> QED BY <1>5, <2>1, <2>2 DEF Agree
<1>6. Agree(gs, dh, dp, td \ {f})
  BY <1>4, <1>5 DEF Agree
<1> QED BY <1>6 DEF gs, x

\* A file that is taken is the same on both machines.
LEMMA AgreeTake ==
  ASSUME NEW S, NEW fs \in Seq(S), fs # <<>>, NEW dh, NEW dp, NEW td,
         Agree(fs, dh, dp, td), NEW dq,
         \A f \in Files : dq[f] = IF f = Head(fs).file THEN Head(fs).ver ELSE dp[f]
  PROVE  Agree(Tail(fs), dh, dq, td)
<1> DEFINE gs == Tail(fs)
<1>1. /\ Head(fs) = fs[1]
      /\ Len(gs) = Len(fs) - 1
      /\ \A i \in 1..Len(gs) : gs[i] = fs[i + 1]
  BY HeadTailProperties
<1>2. Len(fs) \in Nat \ {0}
  BY EmptySeq, LenProperties
<1> HIDE DEF gs
<1>3. \A i \in 1..Len(gs) : i + 1 \in 1..Len(fs)
  BY <1>1, <1>2
<1>4. fs[1].ver = dh[fs[1].file]
  BY <1>2 DEF Agree
<1>5. ASSUME NEW i \in 1..Len(gs) PROVE gs[i].ver = dh[gs[i].file]
  <2>1. gs[i] = fs[i + 1] /\ i + 1 \in 1..Len(fs)
    BY <1>1, <1>3
  <2> QED BY <2>1 DEF Agree
<1>6. ASSUME NEW g \in Files, dh[g] > 0
      PROVE  g \in td \/ (\E i \in 1..Len(gs) : gs[i].file = g) \/ dq[g] = dh[g]
  <2>1. CASE g = fs[1].file
    BY <1>1, <1>4, <2>1
  <2>2. CASE g # fs[1].file /\ \E i \in 1..Len(fs) : fs[i].file = g
    <3>1. PICK i \in 1..Len(fs) : fs[i].file = g
      BY <2>2
    <3>2. i # 1
      BY <2>2, <3>1
    <3>3. i - 1 \in 1..Len(gs) /\ (i - 1) + 1 = i
      BY <1>1, <1>2, <3>2
    <3>4. gs[i - 1] = fs[i]
      BY <1>1, <3>3
    <3> QED BY <3>1, <3>3, <3>4
  <2>3. CASE g # fs[1].file /\ dp[g] = dh[g]
    BY <1>1, <2>3
  <2> QED BY <1>6, <2>1, <2>2, <2>3 DEF Agree
<1> QED BY <1>5, <1>6 DEF Agree, gs

\* The filter lets every file pass.
LEMMA EveryFileFresh ==
  ASSUME Types, NEW h \in Hosts, NEW f \in Files
  PROVE  Fresh(h, f) <=> desk[h][f] > 0
<1>1. mtime[h][f] \in Nat /\ lastSync[h] \in 0..clock /\ clock \in 0..MaxClock
  BY DEF Types, DiskTypes
<1> QED BY <1>1, ClockAssumption DEF Fresh

\* Whatever goes wrong, and every edit, spoils an upload.
LEMMA SoloWas ==
  ASSUME Types, [Next]_vars, NEW h \in Hosts, solo' = h, ~Collect(h)
  PROVE  /\ solo = h
         /\ \A g \in Hosts : /\ ~Collect(g) /\ ~Crash(g) /\ ~LinkBreaks(g) /\ ~HandshakeFails(g)
                             /\ \A f \in Files : ~Edit(g, f)
         /\ ~Fault
<1>1. h # NoHost
  BY HostsAssumption
<1>2. ASSUME NEW g \in Hosts
      PROVE  /\ ~Collect(g) /\ ~Crash(g) /\ ~LinkBreaks(g) /\ ~HandshakeFails(g)
             /\ \A f \in Files : ~Edit(g, f)
  BY <1>1 DEF Collect, Crash, LinkBreaks, HandshakeFails, Edit, Fault
<1>3. ~Fault
  BY <1>1 DEF Fault
<1>4. CASE Pair \/ Tick \/ UNCHANGED vars
  BY <1>2, <1>3, <1>4 DEF Pair, Tick, vars, counters, history
<1>5. ASSUME NEW g \in Hosts,
             \/ Start(g) \/ Click(g) \/ Serve(g) \/ Wait(g) \/ Reset(g) \/ Connect(g)
             \/ ConnectFails(g) \/ SendFile(g) \/ SendFails(g) \/ AllSent(g) \/ Close(g)
             \/ Stamp(g) \/ Update(g) \/ Wake(g)
      PROVE  solo = h
  BY <1>3, <1>5 DEF Start, Click, Serve, Wait, Reset, Connect, ConnectFails, SendFile,
       SendFails, AllSent, Close, Stamp, Update, Wake, counters, history, NoFault
<1>6. ASSUME NEW g \in Hosts, Accept(g) \/ TakeFile(g) \/ SessionEnds(g)
      PROVE  solo = h
  BY <1>3, <1>6 DEF Accept, TakeFile, SessionEnds, history, NoFault
<1> QED BY <1>2, <1>3, <1>4, <1>5, <1>6 DEF Next, Environment, Main, Server

\* An upload begins undisturbed.
LEMMA SoloBegins ==
  ASSUME Types, LineInv, NEW h \in Hosts, Collect(h), solo' = h
  PROVE  SoloAt(h)'
<1> DEFINE p == Peer(h)
<1> USE DEF Types, ThreadTypes, SessionTypes, DiskTypes
<1>1. h # NoHost /\ p \in Hosts /\ p # h
  BY HostsAssumption, TwoHosts
<1>2. up[h] /\ Alone(h)
  BY <1>1 DEF Collect
<1>3. /\ main[h] = "collect" /\ main' = [main EXCEPT ![h] = "send"]
      /\ todo' = [todo EXCEPT ![h] = {f \in Files : Fresh(h, f)}]
      /\ UNCHANGED <<up, inbox, serving, overtaken, behind, desk>>
  BY DEF Collect, Goto, serverVars, diskVars
<1>4. main'[h] = "send" /\ main'[p] = main[p] /\ todo'[h] = {f \in Files : Fresh(h, f)}
  BY <1>1, <1>3
<1>5. QuietInv(h)'
  <2>1. /\ serving[h] = NoSession /\ inbox[h] = <<>> /\ overtaken[h] = <<>>
        /\ main[p] \notin {"collect", "send", "close"}
    BY <1>2 DEF Alone
  <2>2. \A k \in 1..Len(inbox[h]) : FALSE
    BY <2>1, EmptySeq
  <2>3. \A k \in 1..Len(overtaken[h]) : FALSE
    BY <2>1, EmptySeq
  <2> QED BY <1>3, <1>4, <2>1, <2>2, <2>3 DEF QuietInv, NothingComes, NoSession
<1>6. OneSession(p)'
  BY <1>2, <1>3, UpIsLatest DEF Alone, OneSession, Newer
<1>7. Latest(p).files = <<>> /\ Latest(p)' = Latest(p)
  BY <1>2, <1>3 DEF LineInv, Lined, Latest, Newer
<1>8. Agree(<<>>, desk[h], desk[p], todo'[h])
  <2>1. \A f \in Files : desk[h][f] > 0 => f \in todo'[h]
    BY <1>4, EveryFileFresh
  <2> QED BY <2>1, AgreeStart
<1>9. Agree(Latest(p).files, desk[h], desk[p], Unsent(h))'
  BY <1>3, <1>4, <1>7, <1>8 DEF Unsent
<1> QED BY <1>2, <1>3, <1>4, <1>5, <1>6, <1>9 DEF SoloAt, Looping

\* Steps that move no session and no file.
LEMMA SoloRests ==
  ASSUME Types, NEW h \in Hosts, SoloAt(h),
         UNCHANGED <<inbox, serving, overtaken, behind, desk>>,
         Looping(h)', main'[Peer(h)] \notin {"send", "close"},
         main'[h] = "send" => up'[h],
         main'[h] # "collect" => main[h] # "collect" /\ Unsent(h)' = Unsent(h)
  PROVE  SoloAt(h)'
<1>1. Latest(Peer(h))' = Latest(Peer(h))
  BY DEF Latest, Newer
<1>2. QuietInv(h)' /\ (OneSession(Peer(h)) => OneSession(Peer(h))')
  BY DEF SoloAt, QuietInv, NothingComes, OneSession
<1> QED BY <1>1, <1>2 DEF SoloAt

LEMMA SoloGoesOn ==
  ASSUME Types, LineInv, [Next]_vars, NEW h \in Hosts, solo' = h, ~Collect(h), SoloAt(h)
  PROVE  SoloAt(h)'
<1> DEFINE p == Peer(h)
<1> USE DEF Types, ThreadTypes, SessionTypes, DiskTypes, Goto, Report
<1>1. p \in Hosts /\ p # h /\ Peer(p) = h
  BY TwoHosts
<1>2. /\ \A g \in Hosts : /\ ~Collect(g) /\ ~Crash(g) /\ ~LinkBreaks(g) /\ ~HandshakeFails(g)
                          /\ \A f \in Files : ~Edit(g, f)
      /\ ~Fault
  BY SoloWas
<1>3. Looping(h) /\ main[p] \notin {"send", "close"} /\ (main[h] = "send" => up[h])
  BY DEF SoloAt, QuietInv
<1>4. ASSUME UNCHANGED <<inbox, serving, overtaken, behind, desk, up, todo>>,
             \A g \in Hosts : main'[g] = main[g]
      PROVE  SoloAt(h)'
  <2>1. Looping(h)' /\ main'[p] \notin {"send", "close"} /\ (main'[h] = "send" => up'[h])
    BY <1>1, <1>3, <1>4 DEF Looping
  <2>2. Unsent(h)' = Unsent(h)
    BY <1>4 DEF Unsent
  <2> QED BY <1>4, <2>1, <2>2, SoloRests
<1>5. CASE Pair
  BY <1>3, <1>5 DEF Pair, Looping
<1>6. CASE Tick \/ UNCHANGED vars
  BY <1>4, <1>6 DEF Tick, vars, mainVars, serverVars, diskVars
<1>7. ASSUME NEW g \in Hosts, Click(g)
      PROVE  SoloAt(h)'
  BY <1>4, <1>7 DEF Click, serverVars, diskVars
<1>8. ASSUME NEW g \in Hosts,
             \/ Start(g) \/ Serve(g) \/ Wait(g) \/ Reset(g) \/ ConnectFails(g)
             \/ SendFails(g) \/ AllSent(g) \/ Stamp(g) \/ Update(g) \/ Wake(g)
      PROVE  SoloAt(h)'
  <2>1. UNCHANGED <<inbox, serving, overtaken, behind, desk, up, todo>>
    BY <1>8 DEF Start, Serve, Wait, Reset, ConnectFails, SendFails, AllSent, Stamp, Update,
         Wake, serverVars, diskVars
  <2>2. CASE g = h
    <3>1. main'[p] = main[p]
      BY <1>1, <1>8, <2>2 DEF Start, Serve, Wait, Reset, ConnectFails, SendFails, AllSent,
           Stamp, Update, Wake
    <3>2. ~Start(g) /\ ~Serve(g)
      BY <1>3, <2>2 DEF Start, Serve, Looping
    <3>3. ~SendFails(g)
      BY <1>2, <1>3, <2>2 DEF SendFails
    <3>4. Looping(h)' /\ main'[h] \notin {"send", "collect"} /\ main[h] # "collect"
      BY <1>8, <2>2, <3>2, <3>3 DEF Wait, Reset, ConnectFails, AllSent, Stamp, Update,
           Wake, Looping
    <3>5. Unsent(h) = {}
      BY <1>8, <2>2, <3>2, <3>3 DEF Wait, Reset, ConnectFails, AllSent, Stamp, Update,
           Wake, Unsent
    <3>6. Unsent(h)' = Unsent(h)
      BY <3>4, <3>5 DEF Unsent
    <3> QED BY <1>3, <2>1, <3>1, <3>4, <3>6, SoloRests
  <2>3. CASE g # h
    <3>1. g = p
      BY <2>3, TwoHosts
    <3>2. main'[h] = main[h]
      BY <1>1, <1>8, <3>1 DEF Start, Serve, Wait, Reset, ConnectFails, SendFails, AllSent,
           Stamp, Update, Wake
    <3>3. main'[p] \notin {"send", "close"}
      BY <1>3, <1>8, <3>1 DEF Start, Serve, Wait, Reset, ConnectFails, SendFails, AllSent,
           Stamp, Update, Wake
    <3>4. Looping(h)' /\ (main'[h] = "send" => up'[h]) /\ Unsent(h)' = Unsent(h)
      BY <1>3, <2>1, <3>2 DEF Looping, Unsent
    <3> QED BY <2>1, <3>2, <3>3, <3>4, SoloRests
  <2> QED BY <2>2, <2>3
<1>9. ASSUME NEW g \in Hosts, Connect(g)
      PROVE  SoloAt(h)'
  <2>1. main' = [main EXCEPT ![g] = "collect"] /\ UNCHANGED <<desk, todo>> /\ main[g] = "connect"
    BY <1>9 DEF Connect, diskVars
  <2>2. CASE g = h
    <3>1. main'[h] = "collect" /\ main'[p] = main[p]
      BY <1>1, <2>1, <2>2
    <3>2. inbox'[h] = inbox[h] /\ serving' = serving /\ overtaken' = overtaken
      BY <1>9, <2>2, ConnectDoes
    <3> QED BY <1>3, <3>1, <3>2 DEF SoloAt, QuietInv, NothingComes, Looping
  <2>3. CASE g # h
    <3>1. g = p
      BY <2>3, TwoHosts
    <3>2. /\ inbox'[p] = inbox[p] /\ UNCHANGED <<serving, overtaken, behind>>
          /\ \A k \in 1..Len(inbox'[h]) :
               \/ k \in 1..Len(inbox[h]) /\ inbox'[h][k] = inbox[h][k]
               \/ inbox'[h][k].files = <<>>
      BY <1>1, <1>9, <3>1, ConnectDoes
    <3>3. main'[h] = main[h] /\ main'[p] = "collect"
      BY <1>1, <2>1, <3>1
    <3>4. QuietInv(h)'
      BY <3>2, <3>3 DEF SoloAt, QuietInv, NothingComes
    <3>5. Latest(p)' = Latest(p) /\ (OneSession(p) => OneSession(p)')
      BY <3>2 DEF Latest, Newer, OneSession
    <3>6. up'[h] = up[h]
      BY <1>9, <2>3 DEF Connect
    <3>7. Unsent(h)' = Unsent(h)
      BY <2>1, <3>3 DEF Unsent
    <3> QED BY <2>1, <3>3, <3>4, <3>5, <3>6, <3>7 DEF SoloAt, Looping
  <2> QED BY <2>2, <2>3
<1>10. ASSUME NEW g \in Hosts, SendFile(g)
       PROVE  SoloAt(h)'
  <2>1. PICK f \in todo[g] :
          /\ todo' = [todo EXCEPT ![g] = @ \ {f}]
          /\ SetLatest(Peer(g), [Latest(Peer(g)) EXCEPT !.files =
                                   Append(@, [file |-> f, ver |-> desk[g][f]])])
    BY <1>10 DEF SendFile
  <2>2. /\ main[g] = "send" /\ up[g] /\ main' = main /\ up' = up
        /\ UNCHANGED <<overtaken, behind, desk>>
    BY <1>10 DEF SendFile, diskVars
  <2>3. g = h
    BY <1>3, <2>2, TwoHosts
  <2> DEFINE x == [file |-> f, ver |-> desk[h][f]]
  <2>4. SetLatest(p, [Latest(p) EXCEPT !.files = Append(@, x)])
    BY <2>1, <2>3
  <2>5. Latest(p) \in SessionUpTo(edits)
    BY <1>1, LatestIsSession
  <2>6. x \in Item(edits)
    <3>1. desk[h][f] \in 0..edits /\ desk[h][f] > 0 /\ edits \in Nat
      BY <2>1, <2>3
    <3>2. desk[h][f] \in 1..edits
      BY <3>1
    <3> QED BY <2>1, <2>3, <3>2 DEF Item
  <2>7. /\ Latest(p)' = [Latest(p) EXCEPT !.files = Append(@, x)]
        /\ inbox'[h] = inbox[h] /\ serving'[h] = serving[h]
        /\ OneSession(p) => OneSession(p)'
    <3> HIDE DEF x
    <3> QED BY <1>1, <2>2, <2>3, <2>4, SetLatestDoes, UpIsLatest
  <2>8. Latest(p)'.files = Append(Latest(p).files, x) /\ Latest(p).files \in Seq(Item(edits))
    BY <2>5, <2>7 DEF SessionUpTo
  <2>9. OneSession(p) /\ Agree(Latest(p).files, desk[h], desk[p], todo[h])
    BY <2>2, <2>3 DEF SoloAt, Unsent
  <2>10. Agree(Append(Latest(p).files, x), desk[h], desk[p], todo[h] \ {f})
    BY <2>6, <2>8, <2>9, AgreeSend
  <2>11. todo'[h] = todo[h] \ {f}
    BY <2>1, <2>3
  <2>12. Agree(Latest(p).files, desk[h], desk[p], Unsent(h))'
    BY <2>2, <2>3, <2>8, <2>10, <2>11 DEF Unsent
  <2>13. QuietInv(h)'
    BY <2>2, <2>7 DEF SoloAt, QuietInv, NothingComes
  <2> QED BY <1>3, <2>2, <2>7, <2>9, <2>12, <2>13 DEF SoloAt, Looping
<1>11. ASSUME NEW g \in Hosts, Close(g)
       PROVE  SoloAt(h)'
  <2>1. /\ main[g] = "close" /\ main' = [main EXCEPT ![g] = "stamp"]
        /\ UNCHANGED <<desk, todo, overtaken, behind>>
    BY <1>11 DEF Close, diskVars
  <2>2. g = h
    BY <1>3, <2>1, TwoHosts
  <2>3. main'[h] = "stamp" /\ main'[p] = main[p]
    BY <1>1, <2>1, <2>2
  <2>4. OneSession(p) /\ Agree(Latest(p).files, desk[h], desk[p], {})
    BY <2>1, <2>2 DEF SoloAt, Unsent
  <2>5. /\ Latest(p)'.files = Latest(p).files
        /\ inbox'[h] = inbox[h] /\ serving'[h] = serving[h] /\ OneSession(p)'
    <3>1. CASE up[h]
      <4>1. SetLatest(p, [Latest(p) EXCEPT !.state = "ended"])
        BY <1>11, <2>2, <3>1 DEF Close
      <4>2. /\ Latest(p)' = [Latest(p) EXCEPT !.state = "ended"]
            /\ inbox'[h] = inbox[h] /\ serving'[h] = serving[h] /\ OneSession(p)'
        BY <1>1, <2>1, <2>4, <3>1, <4>1, SetLatestDoes, UpIsLatest
      <4>3. Latest(p) \in SessionUpTo(edits)
        BY <1>1, LatestIsSession
      <4>4. Latest(p)'.files = Latest(p).files
        BY <4>2, <4>3 DEF SessionUpTo
      <4> QED BY <4>2, <4>4
    <3>2. CASE ~up[h]
      BY <1>11, <2>1, <2>2, <2>4, <3>2 DEF Close, Latest, Newer, OneSession
    <3> QED BY <3>1, <3>2
  <2>6. Agree(Latest(p).files, desk[h], desk[p], Unsent(h))'
    BY <2>1, <2>3, <2>4, <2>5 DEF Unsent
  <2>7. QuietInv(h)'
    BY <2>1, <2>3, <2>5 DEF SoloAt, QuietInv, NothingComes
  <2> QED BY <2>3, <2>5, <2>6, <2>7 DEF SoloAt, Looping
<1>12. ASSUME NEW g \in Hosts, Accept(g)
       PROVE  SoloAt(h)'
  <2>1. UNCHANGED <<main, todo, up, desk>>
    BY <1>12 DEF Accept, mainVars, diskVars
  <2>0. serving[g] = NoSession
    BY <1>12 DEF Accept, LineInv, Idle
  <2>2. Latest(p)' = Latest(p) /\ (OneSession(p) => OneSession(p)')
    <3>1. CASE g = p
      BY <1>12, <2>0, <3>1, AcceptDoes
    <3>2. CASE g # p
      BY <1>1, <1>12, <2>0, <3>2, AcceptDoes DEF Latest, Newer, OneSession
    <3> QED BY <3>1, <3>2
  <2>3. QuietInv(h)'
    <3>1. NothingComes(h)'
      <4>1. CASE g = h
        BY <1>12, <2>0, <4>1, AcceptDoes DEF SoloAt, QuietInv
      <4>2. CASE g # h
        BY <1>12, <2>0, <4>2, AcceptDoes DEF SoloAt, QuietInv, NothingComes
      <4> QED BY <4>1, <4>2
    <3> QED BY <2>1, <3>1 DEF SoloAt, QuietInv
  <2>4. Unsent(h)' = Unsent(h)
    BY <2>1 DEF Unsent
  <2> QED BY <2>1, <2>2, <2>3, <2>4 DEF SoloAt, Looping
<1>13. ASSUME NEW g \in Hosts, TakeFile(g)
       PROVE  SoloAt(h)'
  <2>1. /\ server[g] = "serve" /\ serving[g].files # <<>>
        /\ serving' = [serving EXCEPT ![g].files = Tail(@)]
        /\ UNCHANGED <<main, todo, up, inbox, overtaken, behind>>
        /\ desk' = [desk EXCEPT ![g][Head(serving[g].files).file] = Head(serving[g].files).ver]
    BY <1>2, <1>13 DEF TakeFile, mainVars
  <2>2. g = p
    <3>1. g # h
      BY <2>1 DEF SoloAt, QuietInv, NothingComes
    <3> QED BY <3>1, TwoHosts
  <2>3. desk'[h] = desk[h] /\ serving'[h] = serving[h] /\ Unsent(h)' = Unsent(h)
    BY <1>1, <2>1, <2>2 DEF Unsent
  <2>4. QuietInv(h)'
    BY <2>1, <2>3 DEF SoloAt, QuietInv, NothingComes
  <2>5. CASE main[h] = "collect"
    BY <2>1, <2>4, <2>5 DEF SoloAt, Looping
  <2>6. CASE main[h] # "collect"
    <3> DEFINE fs == serving[p].files
    <3>1. OneSession(p) /\ Agree(Latest(p).files, desk[h], desk[p], Unsent(h))
      BY <2>6 DEF SoloAt
    <3>2. inbox[p] = <<>> /\ overtaken[p] = <<>> /\ ~behind[p]
      BY <2>1, <2>2, <3>1 DEF OneSession, NoSession
    <3>3. Latest(p) = serving[p] /\ Latest(p)' = serving'[p]
      BY <2>1, <3>2 DEF Latest, Newer
    <3>4. fs \in Seq(Item(edits)) /\ fs # <<>>
      BY <1>1, <2>1, <2>2 DEF SessionUpTo
    <3>5. serving'[p].files = Tail(fs)
      BY <1>1, <2>1, <2>2 DEF SessionUpTo
    <3>6. \A f \in Files : desk'[p][f] = IF f = Head(fs).file THEN Head(fs).ver ELSE desk[p][f]
      BY <1>1, <2>1, <2>2
    <3>7. Agree(fs, desk[h], desk[p], Unsent(h))
      BY <3>1, <3>3
    <3> HIDE DEF fs
    <3>8. Agree(Tail(fs), desk[h], desk'[p], Unsent(h))
      BY <3>4, <3>6, <3>7, AgreeTake
    <3>9. Agree(Latest(p).files, desk[h], desk[p], Unsent(h))'
      BY <2>3, <3>3, <3>5, <3>8
    <3>10. OneSession(p)'
      BY <2>1, <3>2 DEF OneSession
    <3> QED BY <2>1, <2>4, <3>9, <3>10 DEF SoloAt, Looping
  <2> QED BY <2>5, <2>6
<1>14. ASSUME NEW g \in Hosts, SessionEnds(g)
       PROVE  SoloAt(h)'
  <2>1. /\ serving[g].files = <<>>
        /\ serving' = [serving EXCEPT ![g] = NoSession]
        /\ behind' = [behind EXCEPT ![g] = FALSE]
        /\ UNCHANGED <<main, todo, up, inbox, overtaken, desk>>
    BY <1>14 DEF SessionEnds, mainVars, diskVars
  <2>2. QuietInv(h)'
    BY <2>1 DEF SoloAt, QuietInv, NothingComes, NoSession
  <2>3. Latest(p)'.files = Latest(p).files /\ (OneSession(p) => OneSession(p)')
    <3>1. CASE g = p
      BY <1>1, <2>1, <3>1 DEF Latest, Newer, OneSession, NoSession
    <3>2. CASE g # p
      BY <1>1, <2>1, <3>2 DEF Latest, Newer, OneSession
    <3> QED BY <3>1, <3>2
  <2>4. Unsent(h)' = Unsent(h)
    BY <2>1 DEF Unsent
  <2> QED BY <2>1, <2>2, <2>3, <2>4 DEF SoloAt, Looping
<1> QED BY <1>2, <1>5, <1>6, <1>7, <1>8, <1>9, <1>10, <1>11, <1>12, <1>13, <1>14
        DEF Next, Environment, Main, Server

LEMMA SoloStep == Types /\ LineInv /\ SoloInv /\ [Next]_vars => SoloInv'
<1> SUFFICES ASSUME Types, LineInv, SoloInv, [Next]_vars, NEW h \in Hosts, solo' = h
             PROVE  SoloAt(h)'
  BY DEF SoloInv
<1>1. CASE Collect(h)
  BY <1>1, SoloBegins
<1>2. CASE ~Collect(h)
  <2>1. SoloAt(h)
    BY <1>2, SoloWas DEF SoloInv
  <2> QED BY <1>2, <2>1, SoloGoesOn
<1> QED BY <1>1, <1>2

\* Whatever earlier uploads failed, were cut off or raced with edits: once an
\* upload that nothing interfered with has been served, every file of the
\* sender's desktop is on the peer's, in the same version.  lastSync, which is
\* set after failures too, hides nothing (desktopsync_main.cpp:55-71,
\* sync_dll.cpp:95-111).
THEOREM UploadEqualizes == Spec => []SoloUploadEqualizes
<1>1. Init => LineInv /\ SoloInv
  <2>1. Init => SoloInv
    BY HostsAssumption DEF Init, SoloInv
  <2> QED BY <2>1, LineInit
<1>2. Types /\ LineInv /\ SoloInv /\ [Next]_vars => LineInv' /\ SoloInv'
  BY LineStep, SoloStep
<1>3. Types /\ LineInv /\ SoloInv => SoloUploadEqualizes
  <2> SUFFICES ASSUME Types, LineInv, SoloInv, NEW h \in Hosts, solo = h,
                      main[h] \in {"stamp", "update", "sleep", "wait"},
                      inbox[Peer(h)] = <<>>, overtaken[Peer(h)] = <<>>,
                      server[Peer(h)] = "accept",
                      NEW f \in Files, desk[h][f] > 0
               PROVE  desk[Peer(h)][f] = desk[h][f]
    BY DEF SoloUploadEqualizes
  <2>1. Peer(h) \in Hosts
    BY TwoHosts
  <2>2. Agree(Latest(Peer(h)).files, desk[h], desk[Peer(h)], {})
    BY DEF SoloInv, SoloAt, Unsent
  <2>3. Latest(Peer(h)) = NoSession
    BY <2>1 DEF Latest, Newer, LineInv, Idle
  <2>4. Len(Latest(Peer(h)).files) = 0
    BY <2>3, EmptySeq DEF NoSession
  <2> QED BY <2>2, <2>4 DEF Agree
<1> QED BY <1>1, <1>2, <1>3, TypesInvariant, PTL DEF Spec

-----------------------------------------------------------------------------
(* One machine uploads, the other follows                                  *)

\* The files on the way to a machine, session by session: those of the session
\* it serves, then those of the k-th that waits.
Part(sv, ib, k) == IF k = 0 THEN sv.files ELSE ib[k].files

\* Along the line the versions of a file rise, from the one that is in dp, which
\* the files go to, to the one in dh, which they come from.
Rises(sv, ib, dp, dh) ==
  /\ \A f \in Files : dp[f] <= dh[f]
  /\ \A k \in 0..Len(ib) : \A i \in 1..Len(Part(sv, ib, k)) :
       LET x == Part(sv, ib, k)[i] IN
       /\ dp[x.file] <= x.ver /\ x.ver <= dh[x.file]
       /\ \A l \in k..Len(ib) : \A j \in 1..Len(Part(sv, ib, l)) :
            (k < l \/ i < j) /\ Part(sv, ib, l)[j].file = x.file
              => x.ver <= Part(sv, ib, l)[j].ver

\* Nothing is under way from p, and its user starts nothing.
Silent(p) ==
  /\ main[p] \in {"off", "shake", "paired", "wait"} /\ ~event[p] /\ ~up[p]
  /\ inbox[Peer(p)] = <<>> /\ overtaken[Peer(p)] = <<>>
  /\ serving[Peer(p)].files = <<>>

\* The session served, unless it was overtaken.
Current(p) == IF behind[p] THEN NoSession ELSE serving[p]

\* What p's desktop holds, what is on its way to it in order and what the peer's
\* desktop holds form one rising line.
Line(p) == Rises(Current(p), inbox[p], desk[p], desk[Peer(p)])

Items(s) == {s.files[i] : i \in 1..Len(s.files)}
QueueItems(q) == UNION {Items(q[k]) : k \in 1..Len(q)}

\* What was overtaken, and what is newer than it.
Late(p) == QueueItems(overtaken[p]) \cup (IF behind[p] THEN Items(serving[p]) ELSE {})
Ahead(p) == QueueItems(inbox[p])

Below(X, Y, dh) ==
  \A x \in X : /\ x.ver <= dh[x.file]
               /\ \A y \in Y : y.file = x.file => x.ver <= y.ver

\* A file that was overtaken is no newer than what is to come: written late, it
\* makes the line begin lower, and the line still rises.
Stale(p) == Below(Late(p), Ahead(p), desk[Peer(p)])

\* The parts of a line hold files in versions somebody wrote.
LEMMA PartIs ==
  ASSUME NEW n \in Nat, NEW sv \in SessionUpTo(n), NEW ib \in Seq(SessionUpTo(n)),
         NEW k \in 0..Len(ib)
  PROVE  /\ Part(sv, ib, k) \in Seq(Item(n)) /\ Len(Part(sv, ib, k)) \in Nat
         /\ \A i \in 1..Len(Part(sv, ib, k)) :
              /\ Part(sv, ib, k)[i].file \in Files
              /\ Part(sv, ib, k)[i].ver \in Nat
<1>1. Part(sv, ib, k) \in Seq(Item(n))
  <2>1. CASE k = 0
    BY <2>1 DEF Part, SessionUpTo
  <2>2. CASE k # 0
    <3>1. k \in 1..Len(ib)
      BY <2>2, LenProperties
    <3>2. ib[k] \in SessionUpTo(n)
      BY <3>1, ElementOfSeq
    <3> QED BY <2>2, <3>2 DEF Part, SessionUpTo
  <2> QED BY <2>1, <2>2
<1> DEFINE fs == Part(sv, ib, k)
<1> HIDE DEF fs
<1>2. fs \in Seq(Item(n))
  BY <1>1 DEF fs
<1>3. Len(fs) \in Nat
  BY <1>2, LenProperties
<1>4. \A i \in 1..Len(fs) : fs[i] \in Item(n)
  BY <1>2, ElementOfSeq
<1>5. \A i \in 1..Len(fs) : fs[i].file \in Files /\ fs[i].ver \in Nat
  BY <1>4 DEF Item
<1> QED BY <1>2, <1>3, <1>5 DEF fs

\* Every file of the line tv, jb was on the line sv, ib: d places further back in
\* the session that is served, and e sessions further back.
From(tv, jb, sv, ib, e, d) ==
  \A k \in 0..Len(jb) : \A i \in 1..Len(Part(tv, jb, k)) :
    LET o == IF k = 0 THEN i + d ELSE i IN
    /\ k + e \in 0..Len(ib)
    /\ o \in 1..Len(Part(sv, ib, k + e))
    /\ Part(tv, jb, k)[i] = Part(sv, ib, k + e)[o]

\* A line that loses files, or sessions, still rises.
LEMMA RisesOn ==
  ASSUME NEW n \in Nat, NEW sv \in SessionUpTo(n), NEW ib \in Seq(SessionUpTo(n)),
         NEW tv \in SessionUpTo(n), NEW jb \in Seq(SessionUpTo(n)),
         NEW dp, NEW dh, Rises(sv, ib, dp, dh),
         NEW e \in Nat, NEW d \in Nat, From(tv, jb, sv, ib, e, d)
  PROVE  Rises(tv, jb, dp, dh)
<1> DEFINE O(k, i) == IF k = 0 THEN i + d ELSE i
<1>0. Len(ib) \in Nat /\ Len(jb) \in Nat
  BY LenProperties
<1>1. \A k \in 0..Len(jb) : \A i \in 1..Len(Part(tv, jb, k)) :
        /\ k + e \in 0..Len(ib)
        /\ O(k, i) \in 1..Len(Part(sv, ib, k + e))
        /\ Part(tv, jb, k)[i] = Part(sv, ib, k + e)[O(k, i)]
  BY DEF From
<1>2. ASSUME NEW k \in 0..Len(jb), NEW i \in 1..Len(Part(tv, jb, k))
      PROVE  LET x == Part(tv, jb, k)[i] IN dp[x.file] <= x.ver /\ x.ver <= dh[x.file]
  <2> DEFINE K == k + e
             I == O(k, i)
  <2>1. K \in 0..Len(ib) /\ I \in 1..Len(Part(sv, ib, K)) /\ Part(tv, jb, k)[i] = Part(sv, ib, K)[I]
    BY <1>1
  <2> HIDE DEF K, I, O
  <2> QED BY <2>1 DEF Rises
<1>3. ASSUME NEW k \in 0..Len(jb), NEW i \in 1..Len(Part(tv, jb, k)),
             NEW l \in k..Len(jb), NEW j \in 1..Len(Part(tv, jb, l)), k < l \/ i < j,
             Part(tv, jb, l)[j].file = Part(tv, jb, k)[i].file
      PROVE  Part(tv, jb, k)[i].ver <= Part(tv, jb, l)[j].ver
  <2> DEFINE K == k + e
             I == O(k, i)
             M == l + e
             J == O(l, j)
  <2>1. K \in 0..Len(ib) /\ I \in 1..Len(Part(sv, ib, K)) /\ Part(tv, jb, k)[i] = Part(sv, ib, K)[I]
    BY <1>1
  <2>2. l \in 0..Len(jb)
    BY <1>0
  <2>3. M \in 0..Len(ib) /\ J \in 1..Len(Part(sv, ib, M)) /\ Part(tv, jb, l)[j] = Part(sv, ib, M)[J]
    BY <1>1, <2>2
  <2>4. M \in K..Len(ib)
    BY <1>0, <2>1, <2>3
  <2>5. k \in Nat /\ l \in Nat /\ k <= l /\ i \in Int /\ j \in Int
    <3>1. Len(Part(tv, jb, k)) \in Nat /\ Len(Part(tv, jb, l)) \in Nat
      BY <2>2, PartIs
    <3> QED BY <1>0, <3>1
  <2>6. K < M \/ I < J
    BY <1>3, <2>5
  <2>7. Part(sv, ib, M)[J].file = Part(sv, ib, K)[I].file
    BY <1>3, <2>1, <2>3
  <2> HIDE DEF K, I, M, J, O
  <2>8. Part(sv, ib, K)[I].ver <= Part(sv, ib, M)[J].ver
    BY <2>1, <2>3, <2>4, <2>6, <2>7 DEF Rises
  <2> QED BY <2>1, <2>3, <2>8
<1>4. \A f \in Files : dp[f] <= dh[f]
  BY DEF Rises
<1> QED BY <1>2, <1>3, <1>4 DEF Rises

\* A version is made.
LEMMA RisesToNew ==
  ASSUME NEW n \in Nat, NEW sv \in SessionUpTo(n), NEW ib \in Seq(SessionUpTo(n)),
         NEW dp \in [Files -> Nat], NEW dh \in [Files -> Nat], Rises(sv, ib, dp, dh),
         NEW dg \in [Files -> Nat], \A f \in Files : dh[f] <= dg[f]
  PROVE  Rises(sv, ib, dp, dg)
<1>1. \A f \in Files : dp[f] <= dg[f]
  BY DEF Rises
<1>2. ASSUME NEW k \in 0..Len(ib), NEW i \in 1..Len(Part(sv, ib, k))
      PROVE  Part(sv, ib, k)[i].ver <= dg[Part(sv, ib, k)[i].file]
  <2> DEFINE x == Part(sv, ib, k)[i]
  <2>1. x.file \in Files /\ x.ver \in Nat
    BY PartIs
  <2>2. x.ver <= dh[x.file]
    BY DEF Rises
  <2> HIDE DEF x
  <2>3. x.ver <= dg[x.file]
    BY <2>1, <2>2
  <2> QED BY <2>3 DEF x
<1> QED BY <1>1, <1>2 DEF Rises

\* A file is taken: its version is the first of the line.
LEMMA RisesToTaken ==
  ASSUME NEW n \in Nat, NEW sv \in SessionUpTo(n), NEW ib \in Seq(SessionUpTo(n)),
         NEW tv \in SessionUpTo(n), sv.files # <<>>, tv.files = Tail(sv.files),
         NEW dp \in [Files -> Nat], NEW dh \in [Files -> Nat], Rises(sv, ib, dp, dh),
         NEW dq \in [Files -> Nat],
         \A f \in Files : dq[f] = IF f = Head(sv.files).file THEN Head(sv.files).ver ELSE dp[f]
  PROVE  Rises(tv, ib, dp, dh) /\ Rises(tv, ib, dq, dh) /\ \A f \in Files : dq[f] >= dp[f]
<1> DEFINE fs == sv.files
           y == Head(fs)
<1>1. /\ fs \in Seq(Item(n)) /\ fs # <<>> /\ Len(fs) \in Nat \ {0} /\ 1 \in 1..Len(fs)
      /\ Part(sv, ib, 0) = fs /\ Len(ib) \in Nat /\ 0 \in 0..Len(ib)
  <2>1. fs \in Seq(Item(n))
    BY DEF SessionUpTo
  <2>2. Len(fs) \in Nat \ {0}
    BY <2>1, EmptySeq, LenProperties
  <2> QED BY <2>1, <2>2, LenProperties DEF Part
<1>2. y = fs[1] /\ y.file \in Files /\ y.ver \in Nat
  <2>1. y = fs[1]
    BY <1>1, HeadTailProperties
  <2> QED BY <1>1, <2>1, PartIs
<1>3. dp[y.file] <= y.ver /\ y.ver <= dh[y.file]
  BY <1>1, <1>2 DEF Rises
<1>4. /\ Len(tv.files) = Len(fs) - 1
      /\ \A i \in 1..Len(tv.files) : tv.files[i] = fs[i + 1]
  BY <1>1, HeadTailProperties
<1> HIDE DEF fs, y
<1>5. ASSUME NEW k \in 0..Len(ib), NEW i \in 1..Len(Part(tv, ib, k))
      PROVE  LET o == IF k = 0 THEN i + 1 ELSE i IN
             /\ k + 0 \in 0..Len(ib)
             /\ o \in 1..Len(Part(sv, ib, k + 0))
             /\ Part(tv, ib, k)[i] = Part(sv, ib, k + 0)[o]
  <2>1. k + 0 = k
    BY <1>1
  <2>2. CASE k = 0
    <3>1. Part(tv, ib, k) = tv.files /\ Part(sv, ib, k + 0) = fs
      BY <2>2 DEF Part, fs
    <3>2. i + 1 \in 1..Len(fs)
      BY <1>1, <1>4, <3>1
    <3> QED BY <1>4, <2>1, <2>2, <3>1, <3>2
  <2>3. CASE k # 0
    <3>1. Part(tv, ib, k) = Part(sv, ib, k)
      BY <2>3 DEF Part
    <3> QED BY <2>1, <2>3, <3>1
  <2> QED BY <2>2, <2>3
<1>6. Rises(tv, ib, dp, dh)
  <2>1. From(tv, ib, sv, ib, 0, 1)
    BY <1>5 DEF From
  <2>2. 0 \in Nat /\ 1 \in Nat
    OBVIOUS
  <2> QED BY <2>1, <2>2, RisesOn
<1>7. \A f \in Files : dq[f] >= dp[f] /\ dq[f] <= dh[f]
  <2> TAKE f \in Files
  <2>1. dp[f] \in Nat /\ dq[f] \in Nat /\ dh[f] \in Nat /\ dp[f] <= dh[f]
    BY DEF Rises
  <2>2. CASE f = y.file
    <3>1. dq[f] = y.ver
      BY <2>2 DEF y, fs
    <3> QED BY <1>2, <1>3, <2>1, <2>2, <3>1
  <2>3. CASE f # y.file
    <3>1. dq[f] = dp[f]
      BY <2>3 DEF y, fs
    <3> QED BY <2>1, <3>1
  <2> QED BY <2>2, <2>3
<1>8. ASSUME NEW k \in 0..Len(ib), NEW i \in 1..Len(Part(tv, ib, k))
      PROVE  dq[Part(tv, ib, k)[i].file] <= Part(tv, ib, k)[i].ver
  <2> DEFINE x == Part(tv, ib, k)[i]
             o == IF k = 0 THEN i + 1 ELSE i
  <2>1. x.file \in Files /\ x.ver \in Nat /\ dp[x.file] <= x.ver
    BY <1>6, PartIs DEF Rises
  <2>2. k \in 0..Len(ib) /\ o \in 1..Len(Part(sv, ib, k)) /\ x = Part(sv, ib, k)[o]
    <3>1. k + 0 = k
      BY <1>1
    <3> QED BY <1>5, <3>1
  <2>3. (0 < k \/ 1 < o) /\ k \in Int
    <3>1. k = 0 => i \in Int /\ i >= 1
      BY <1>1, <1>4 DEF Part
    <3> QED BY <1>1, <3>1
  <2>4. k \in 0..Len(ib) /\ 0 \in 0..Len(ib) /\ 1 \in 1..Len(Part(sv, ib, 0))
        /\ Part(sv, ib, 0)[1] = y
    BY <1>1, <1>2
  <2> HIDE DEF x, o
  <2>5. x.file = y.file => y.ver <= x.ver
    BY <2>2, <2>3, <2>4 DEF Rises
  <2>6. dq[x.file] = IF x.file = y.file THEN y.ver ELSE dp[x.file]
    BY <2>1 DEF y, fs
  <2> QED BY <2>1, <2>5, <2>6 DEF x
<1>9. Rises(tv, ib, dq, dh)
  BY <1>6, <1>7, <1>8 DEF Rises
<1> QED BY <1>6, <1>7, <1>9

\* A file is written in a version no higher than those of the line.
LEMMA RisesWhenWritten ==
  ASSUME NEW n \in Nat, NEW sv \in SessionUpTo(n), NEW ib \in Seq(SessionUpTo(n)),
         NEW dp \in [Files -> Nat], NEW dh \in [Files -> Nat], Rises(sv, ib, dp, dh),
         NEW g \in Files, NEW v \in Nat, v <= dh[g],
         \A k \in 0..Len(ib) : \A i \in 1..Len(Part(sv, ib, k)) :
           Part(sv, ib, k)[i].file = g => v <= Part(sv, ib, k)[i].ver,
         NEW dq, dq = [dp EXCEPT ![g] = v]
  PROVE  Rises(sv, ib, dq, dh)
<1>1. \A f \in Files : dq[f] = IF f = g THEN v ELSE dp[f]
  OBVIOUS
<1>2. \A f \in Files : dq[f] <= dh[f]
  BY <1>1 DEF Rises
<1>3. ASSUME NEW k \in 0..Len(ib), NEW i \in 1..Len(Part(sv, ib, k))
      PROVE  dq[Part(sv, ib, k)[i].file] <= Part(sv, ib, k)[i].ver
  <2> DEFINE x == Part(sv, ib, k)[i]
  <2>1. x.file \in Files /\ x.ver \in Nat /\ dp[x.file] <= x.ver
    BY PartIs DEF Rises
  <2>2. x.file = g => v <= x.ver
    OBVIOUS
  <2> HIDE DEF x
  <2>3. dq[x.file] <= x.ver
    BY <1>1, <2>1, <2>2
  <2> QED BY <2>3 DEF x
<1> QED BY <1>2, <1>3 DEF Rises

\* A file is sent, behind all others, in the newest version there is.
LEMMA RisesToSent ==
  ASSUME NEW n \in Nat, NEW sv \in SessionUpTo(n), NEW ib \in Seq(SessionUpTo(n)),
         NEW tv \in SessionUpTo(n), NEW jb \in Seq(SessionUpTo(n)), Len(jb) = Len(ib),
         NEW x \in Item(n),
         Part(tv, jb, Len(ib)) = Append(Part(sv, ib, Len(ib)), x),
         \A k \in 0..Len(ib) : k # Len(ib) => Part(tv, jb, k) = Part(sv, ib, k),
         NEW dp \in [Files -> Nat], NEW dh \in [Files -> Nat], Rises(sv, ib, dp, dh),
         x.ver = dh[x.file]
  PROVE  Rises(tv, jb, dp, dh)
<1> DEFINE m == Len(ib)
           gs == Part(sv, ib, m)
           hs == Part(tv, jb, m)
           c == Len(gs)
<1>0. m \in Nat /\ m \in 0..m /\ x.file \in Files /\ x.ver \in Nat
  BY LenProperties DEF Item
<1>1. gs \in Seq(Item(n)) /\ c \in Nat
  BY <1>0, PartIs
<1>2. Len(hs) = c + 1 /\ hs[c + 1] = x /\ \A i \in 1..c : hs[i] = gs[i]
  BY <1>1, AppendProperties
<1> DEFINE Is(k, i) == /\ i \in 1..Len(Part(sv, ib, k)) /\ Part(tv, jb, k)[i] = Part(sv, ib, k)[i]
           New(k, i) == k = m /\ i = c + 1 /\ Part(tv, jb, k)[i] = x
<1>3. ASSUME NEW k \in 0..m, NEW i \in 1..Len(Part(tv, jb, k)) PROVE Is(k, i) \/ New(k, i)
  <2>1. CASE k # m
    BY <2>1
  <2>2. CASE k = m
    <3>1. i \in 1..c \/ i = c + 1
      BY <1>1, <1>2, <2>2
    <3> QED BY <1>2, <2>2, <3>1
  <2> QED BY <2>1, <2>2
<1>4. ASSUME NEW k \in 0..m, NEW i \in 1..Len(Part(sv, ib, k))
      PROVE  LET y == Part(sv, ib, k)[i] IN
             y.file \in Files /\ y.ver \in Nat /\ y.ver <= dh[y.file] /\ dp[y.file] <= y.ver
  BY PartIs DEF Rises
<1>5. \A f \in Files : dp[f] <= dh[f]
  BY DEF Rises
<1>6. ASSUME NEW k \in 0..m, NEW i \in 1..Len(Part(tv, jb, k))
      PROVE  LET y == Part(tv, jb, k)[i] IN dp[y.file] <= y.ver /\ y.ver <= dh[y.file]
  <2>1. CASE Is(k, i)
    BY <1>4, <2>1
  <2>2. CASE New(k, i)
    BY <1>0, <1>5, <2>2
  <2> QED BY <1>3, <2>1, <2>2
<1>7. ASSUME NEW k \in 0..m, NEW i \in 1..Len(Part(tv, jb, k)),
             NEW l \in k..m, NEW j \in 1..Len(Part(tv, jb, l)), k < l \/ i < j,
             Part(tv, jb, l)[j].file = Part(tv, jb, k)[i].file
      PROVE  Part(tv, jb, k)[i].ver <= Part(tv, jb, l)[j].ver
  <2>1. l \in 0..m /\ k \in Int /\ l \in Int /\ k <= l /\ l <= m
    BY <1>0
  <2>2. CASE Is(k, i) /\ Is(l, j)
    BY <1>7, <2>2 DEF Rises
  <2>3. CASE Is(k, i) /\ New(l, j)
    <3> DEFINE y == Part(sv, ib, k)[i]
    <3>1. y.ver <= dh[y.file] /\ y.file = x.file
      BY <1>4, <1>7, <2>3
    <3> QED BY <2>3, <3>1
  <2>4. CASE New(k, i)
    <3>1. l = m /\ i = c + 1 /\ i < j
      BY <1>7, <2>1, <2>4
    <3>2. j <= c + 1
      BY <1>1, <1>2, <3>1
    <3>3. j \in Int
      BY <1>1, <1>2, <3>1
    <3> QED BY <1>1, <3>1, <3>2, <3>3
  <2> QED BY <1>3, <2>1, <2>2, <2>3, <2>4
<1> HIDE DEF m
<1>8. Len(jb) = m
  BY DEF m
<1> QED BY <1>5, <1>6, <1>7, <1>8 DEF Rises

\* Of every session of the line sv, ib the line tv, jb has the first files.
Cuts(tv, jb, sv, ib) ==
  \A k \in 0..Len(ib) :
    /\ Len(Part(tv, jb, k)) <= Len(Part(sv, ib, k))
    /\ \A i \in 1..Len(Part(tv, jb, k)) : Part(tv, jb, k)[i] = Part(sv, ib, k)[i]

LEMMA RisesCut ==
  ASSUME NEW n \in Nat, NEW sv \in SessionUpTo(n), NEW ib \in Seq(SessionUpTo(n)),
         NEW tv \in SessionUpTo(n), NEW jb \in Seq(SessionUpTo(n)), Len(jb) = Len(ib),
         NEW dp, NEW dh, Rises(sv, ib, dp, dh), Cuts(tv, jb, sv, ib)
  PROVE  Rises(tv, jb, dp, dh)
<1>1. ASSUME NEW k \in 0..Len(jb), NEW i \in 1..Len(Part(tv, jb, k))
      PROVE  LET o == IF k = 0 THEN i + 0 ELSE i IN
             /\ k + 0 \in 0..Len(ib)
             /\ o \in 1..Len(Part(sv, ib, k + 0))
             /\ Part(tv, jb, k)[i] = Part(sv, ib, k + 0)[o]
  <2>1. /\ Len(Part(tv, jb, k)) \in Nat /\ Len(Part(sv, ib, k)) \in Nat
        /\ Len(Part(tv, jb, k)) <= Len(Part(sv, ib, k)) /\ Len(ib) \in Nat
    BY PartIs, LenProperties DEF Cuts
  <2>2. k + 0 = k /\ i + 0 = i /\ i \in 1..Len(Part(sv, ib, k))
    BY <2>1
  <2> QED BY <2>2 DEF Cuts
<1>2. From(tv, jb, sv, ib, 0, 0)
  BY <1>1 DEF From
<1>3. 0 \in Nat
  OBVIOUS
<1> QED BY <1>2, <1>3, RisesOn

\* A session with no file yet joins the line.
LEMMA RisesWhenJoined ==
  ASSUME NEW n \in Nat, NEW sv \in SessionUpTo(n), NEW ib \in Seq(SessionUpTo(n)),
         NEW s \in SessionUpTo(n), s.files = <<>>,
         NEW dp, NEW dh, Rises(sv, ib, dp, dh)
  PROVE  Rises(sv, Append(ib, s), dp, dh)
<1> DEFINE jb == Append(ib, s)
<1>1. /\ jb \in Seq(SessionUpTo(n)) /\ Len(ib) \in Nat /\ Len(jb) = Len(ib) + 1
      /\ jb[Len(ib) + 1] = s /\ \A k \in 1..Len(ib) : jb[k] = ib[k]
  BY AppendProperties, LenProperties
<1> HIDE DEF jb
<1>2. ASSUME NEW k \in 0..Len(jb), NEW i \in 1..Len(Part(sv, jb, k))
      PROVE  LET o == IF k = 0 THEN i + 0 ELSE i IN
             /\ k + 0 \in 0..Len(ib)
             /\ o \in 1..Len(Part(sv, ib, k + 0))
             /\ Part(sv, jb, k)[i] = Part(sv, ib, k + 0)[o]
  <2>1. k \in 0..Len(ib) \/ k = Len(ib) + 1
    BY <1>1
  <2>2. CASE k = Len(ib) + 1
    <3>1. k # 0
      BY <1>1, <2>2
    <3>2. Len(Part(sv, jb, k)) = 0
      BY <1>1, <2>2, <3>1, EmptySeq DEF Part
    <3> QED BY <3>2
  <2>3. CASE k \in 0..Len(ib)
    <3>1. k # 0 => k \in 1..Len(ib)
      BY <1>1, <2>3
    <3>2. Part(sv, jb, k) = Part(sv, ib, k)
      BY <1>1, <3>1 DEF Part
    <3>3. Len(Part(sv, ib, k)) \in Nat
      BY <2>3, PartIs
    <3>4. k + 0 = k /\ i + 0 = i
      BY <1>1, <2>3, <3>2, <3>3
    <3> QED BY <2>3, <3>2, <3>4
  <2> QED BY <2>1, <2>2, <2>3
<1>3. 0 \in Nat /\ From(sv, jb, sv, ib, 0, 0)
  BY <1>2 DEF From
<1>4. jb \in Seq(SessionUpTo(n))
  BY <1>1
<1>5. Rises(sv, jb, dp, dh)
  BY <1>3, <1>4, RisesOn
<1> QED BY <1>5 DEF jb

\* The last session that waits is accepted, none being served.
LEMMA RisesWhenAccepted ==
  ASSUME NEW n \in Nat, NEW sv \in SessionUpTo(n), NEW ib \in Seq(SessionUpTo(n)),
         ib # <<>>, NEW dp, NEW dh, Rises(sv, ib, dp, dh)
  PROVE  Rises(ib[Len(ib)], <<>>, dp, dh)
<1> DEFINE e == Len(ib)
           tv == ib[e]
           jb == <<>>
<1>1. e \in Nat \ {0} /\ e \in 1..e /\ tv \in SessionUpTo(n)
  BY LastOfQueue
<1>2. jb \in Seq(SessionUpTo(n)) /\ Len(jb) = 0
  BY EmptySeq
<1>3. ASSUME NEW k \in 0..Len(jb), NEW i \in 1..Len(Part(tv, jb, k))
      PROVE  LET o == IF k = 0 THEN i + 0 ELSE i IN
             /\ k + e \in 0..Len(ib)
             /\ o \in 1..Len(Part(sv, ib, k + e))
             /\ Part(tv, jb, k)[i] = Part(sv, ib, k + e)[o]
  <2>1. k = 0
    BY <1>2
  <2>2. k + e = e /\ e \in 0..Len(ib) /\ e # 0
    <3>1. 0 + e = e /\ e \in 0..e /\ e # 0
      <4> HIDE DEF e
      <4> QED BY <1>1
    <3> QED BY <2>1, <3>1
  <2>3. Part(tv, jb, k) = tv.files /\ Part(sv, ib, k + e) = tv.files
    BY <2>1, <2>2 DEF Part
  <2>4. Len(tv.files) \in Nat
    BY <1>1, LenProperties DEF SessionUpTo
  <2>5. i \in 1..Len(tv.files) /\ i + 0 = i
    BY <2>3, <2>4
  <2> QED BY <2>1, <2>2, <2>3, <2>5
<1>4. 0 \in Nat /\ From(tv, jb, sv, ib, e, 0)
  BY <1>3 DEF From
<1>5. Rises(tv, jb, dp, dh)
  <2> HIDE DEF e, tv, jb
  <2> QED BY <1>1, <1>2, <1>4, RisesOn
<1> QED BY <1>5

\* Nothing is on its way.
LEMMA RisesWhenEmpty ==
  ASSUME NEW dp, NEW dh, \A f \in Files : dp[f] <= dh[f]
  PROVE  Rises(NoSession, <<>>, dp, dh)
<1>1. Len(<<>>) = 0
  BY EmptySeq
<1>2. \A k \in 0..0 : Part(NoSession, <<>>, k) = <<>>
  BY DEF Part, NoSession
<1>3. \A k \in 0..0 : \A i \in 1..Len(Part(NoSession, <<>>, k)) : FALSE
  BY <1>1, <1>2
<1> QED BY <1>1, <1>3 DEF Rises

\* The latest session is the last part of the line.
LEMMA LatestIsPart ==
  ASSUME SessionTypes, NEW p \in Hosts
  PROVE  Latest(p).files = Part(Current(p), inbox[p], Len(inbox[p]))
<1>1. inbox[p] \in Seq(SessionUpTo(edits))
  BY DEF SessionTypes
<1>2. Newer(p) => Len(inbox[p]) # 0
  BY <1>1, EmptySeq DEF Newer
<1>3. ~Newer(p) => Len(inbox[p]) = 0
  BY EmptySeq DEF Newer
<1> QED BY <1>2, <1>3 DEF Latest, Current, Part

LEMMA CurrentIsSession ==
  ASSUME SessionTypes, edits \in Nat, NEW p \in Hosts
  PROVE  Current(p) \in SessionUpTo(edits)
  BY FreshSessions DEF Current, SessionTypes

\* A session of the line is replaced.
Replaced(ib, m, s, jb) == jb = [ib EXCEPT ![m] = s]

LEMMA PartsWhenReplaced ==
  ASSUME NEW n \in Nat, NEW sv \in SessionUpTo(n), NEW ib \in Seq(SessionUpTo(n)),
         NEW m \in 1..Len(ib), NEW s \in SessionUpTo(n), NEW jb, Replaced(ib, m, s, jb)
  PROVE  /\ jb \in Seq(SessionUpTo(n)) /\ Len(jb) = Len(ib)
         /\ Part(sv, jb, m) = s.files
         /\ \A k \in 0..Len(ib) : k # m => Part(sv, jb, k) = Part(sv, ib, k)
<1>1. jb \in Seq(SessionUpTo(n)) /\ Len(ib) \in Nat
  BY ExceptSeq, LenProperties DEF Replaced
<1>2. Len(jb) = Len(ib) /\ jb[m] = s /\ \A k \in 1..Len(ib) : k # m => jb[k] = ib[k]
  BY <1>1 DEF Replaced
<1>3. m # 0 /\ \A k \in 0..Len(ib) : k # 0 => k \in 1..Len(ib)
  BY <1>1
<1>4. Part(sv, jb, m) = s.files
  BY <1>2, <1>3 DEF Part
<1>5. \A k \in 0..Len(ib) : k # m => Part(sv, jb, k) = Part(sv, ib, k)
  BY <1>2, <1>3 DEF Part
<1> QED BY <1>1, <1>2, <1>4, <1>5

\* The latest session is.
LEMMA PartsWhenLatestSet ==
  ASSUME SessionTypes, edits \in Nat, NEW p \in Hosts, NEW s \in SessionUpTo(edits),
         SetLatest(p, s), Newer(p) \/ ~behind[p],
         UNCHANGED <<edits, overtaken, behind>>
  PROVE  /\ Current(p)' \in SessionUpTo(edits) /\ inbox'[p] \in Seq(SessionUpTo(edits))
         /\ Len(inbox'[p]) = Len(inbox[p])
         /\ Part(Current(p)', inbox'[p], Len(inbox[p])) = s.files
         /\ \A k \in 0..Len(inbox[p]) : k # Len(inbox[p]) =>
              Part(Current(p)', inbox'[p], k) = Part(Current(p), inbox[p], k)
<1>1. inbox[p] \in Seq(SessionUpTo(edits)) /\ Current(p) \in SessionUpTo(edits)
  BY CurrentIsSession DEF SessionTypes
<1>2. SessionTypes'
  BY SetLatestTypes
<1>3. Current(p)' \in SessionUpTo(edits) /\ inbox'[p] \in Seq(SessionUpTo(edits))
  BY <1>2, FreshSessions DEF Current, SessionTypes
<1>4. CASE Newer(p)
  <2> DEFINE m == Len(inbox[p])
  <2>1. m \in 1..Len(inbox[p])
    BY <1>4, LatestIsSession
  <2>2. inbox'[p] = [inbox[p] EXCEPT ![m] = s] /\ Current(p)' = Current(p)
    BY <1>4 DEF SetLatest, Current, SessionTypes
  <2> DEFINE sv == Current(p)
             ib == inbox[p]
             jb == [ib EXCEPT ![m] = s]
  <2> HIDE DEF m, sv, ib
  <2>3. /\ Replaced(ib, m, s, jb) /\ edits \in Nat /\ s \in SessionUpTo(edits)
        /\ m \in 1..Len(ib) /\ ib \in Seq(SessionUpTo(edits)) /\ sv \in SessionUpTo(edits)
    BY <1>1, <2>1 DEF ib, sv, Replaced
  <2>5. inbox'[p] = jb /\ Current(p)' = sv
    BY <2>2 DEF ib, sv
  <2> DEFINE v == edits
  <2> HIDE DEF jb, v
  <2>6. /\ Replaced(ib, m, s, jb) /\ v \in Nat /\ s \in SessionUpTo(v)
        /\ m \in 1..Len(ib) /\ ib \in Seq(SessionUpTo(v)) /\ sv \in SessionUpTo(v)
    BY <2>3 DEF v
  <2>4. /\ Len(jb) = Len(ib)
        /\ Part(sv, jb, m) = s.files
        /\ \A k \in 0..Len(ib) : k # m => Part(sv, jb, k) = Part(sv, ib, k)
    BY <2>6, PartsWhenReplaced
  <2> QED BY <1>3, <2>4, <2>5 DEF m, ib, sv
<1>5. CASE ~Newer(p)
  <2>1. inbox'[p] = inbox[p] /\ Current(p)' = s /\ Len(inbox[p]) = 0
    BY <1>5, EmptySeq DEF SetLatest, Current, Newer, SessionTypes
  <2>2. \A k \in 0..Len(inbox[p]) : k # Len(inbox[p]) => FALSE
    BY <2>1
  <2> QED BY <1>3, <2>1, <2>2 DEF Part
<1> QED BY <1>4, <1>5

\* A machine whose user does not click sends nothing.
LEMMA SilentStep ==
  ASSUME Types, LineInv, [Next]_vars, NEW p \in Hosts, Clickers \subseteq {Peer(p)}, Silent(p)
  PROVE  Silent(p)'
<1> DEFINE a == Peer(p)
           Still == /\ main'[p] \in {"off", "shake", "paired", "wait"}
                    /\ ~event'[p] /\ ~up'[p]
           Bare == inbox'[a] = <<>> /\ overtaken'[a] = <<>> /\ serving'[a].files = <<>>
<1> USE DEF Types, ThreadTypes, SessionTypes, Goto, Report
<1>1. a \in Hosts /\ p # a /\ Peer(a) = p /\ \A g \in Hosts : g = a \/ g = p
  BY TwoHosts
<1>2. /\ main[p] \in {"off", "shake", "paired", "wait"} /\ ~event[p] /\ ~up[p]
      /\ inbox[a] = <<>> /\ overtaken[a] = <<>> /\ serving[a].files = <<>>
  BY DEF Silent
<1>3. SUFFICES Still /\ Bare
  BY DEF Silent
<1>4. CASE Pair
  BY <1>2, <1>4 DEF Pair, serverVars
<1>5. CASE Tick \/ UNCHANGED vars
  BY <1>2, <1>5 DEF Tick, vars, mainVars, serverVars
<1>6. ASSUME NEW g \in Hosts, Click(g) \/ \E f \in Files : Edit(g, f)
      PROVE  Still /\ Bare
  <2>1. Click(g) => g # p
    BY <1>1 DEF Click
  <2> QED BY <1>2, <1>6, <2>1 DEF Click, Edit, mainVars, serverVars
<1>7. ASSUME NEW g \in Hosts,
             \/ Start(g) \/ HandshakeFails(g) \/ Serve(g) \/ Wait(g) \/ Reset(g)
             \/ ConnectFails(g) \/ Collect(g) \/ SendFails(g) \/ AllSent(g) \/ Stamp(g)
             \/ Update(g) \/ Wake(g)
      PROVE  Still /\ Bare
  <2>1. UNCHANGED <<up, inbox, overtaken, serving>>
    BY <1>7 DEF Start, HandshakeFails, Serve, Wait, Reset, ConnectFails, Collect,
         SendFails, AllSent, Stamp, Update, Wake, serverVars
  <2>2. CASE g # p
    BY <1>2, <1>7, <2>1, <2>2 DEF Start, HandshakeFails, Serve, Wait, Reset, ConnectFails,
       Collect, SendFails, AllSent, Stamp, Update, Wake
  <2>3. CASE g = p
    BY <1>2, <1>7, <2>1, <2>3 DEF Start, HandshakeFails, Serve, Wait, Reset, ConnectFails,
       Collect, SendFails, AllSent, Stamp, Update, Wake
  <2> QED BY <2>2, <2>3
<1>8. ASSUME NEW g \in Hosts, Connect(g) \/ SendFile(g) \/ Close(g)
      PROVE  Still /\ Bare
  <2>1. g = a
    BY <1>1, <1>2, <1>8 DEF Connect, SendFile, Close
  <2>2. Still
    BY <1>1, <1>2, <1>8, <2>1 DEF Connect, SendFile, Close
  <2>3. CASE Connect(a)
    <3> HIDE DEF a
    <3>1. inbox'[a] = inbox[a] /\ UNCHANGED <<serving, overtaken>>
      BY <1>1, <2>3, ConnectDoes
    <3> QED BY <1>2, <2>2, <3>1
  <2>4. ASSUME NEW s, SetLatest(p, s), up[a], UNCHANGED <<overtaken, behind>>
        PROVE  Bare
    BY <1>1, <1>2, <2>4, SetLatestDoes, UpIsLatest
  <2>5. CASE SendFile(a)
    <3>1. (\E s : SetLatest(Peer(a), s)) /\ up[a] /\ UNCHANGED <<overtaken, behind>>
      BY <2>5 DEF SendFile
    <3> QED BY <1>1, <2>2, <2>4, <3>1
  <2>6. CASE Close(a)
    BY <1>1, <1>2, <2>4, <2>6 DEF Close
  <2> QED BY <1>8, <2>1, <2>2, <2>3, <2>5, <2>6
<1>9. ASSUME NEW g \in Hosts, Accept(g) \/ TakeFile(g) \/ SessionEnds(g)
      PROVE  Still /\ Bare
  <2>1. Still
    BY <1>2, <1>9 DEF Accept, TakeFile, SessionEnds, mainVars
  <2>2. CASE g = a
    <3>1. SessionEnds(a)
      BY <1>2, <1>9, <2>2 DEF Accept, AcceptNewest, AcceptOvertaken, TakeFile, Newer
    <3> QED BY <1>1, <1>2, <2>1, <3>1 DEF SessionEnds, NoSession
  <2>3. CASE g = p
    BY <1>1, <1>2, <1>9, <2>1, <2>3 DEF Accept, AcceptNewest, AcceptOvertaken, TakeFile,
       SessionEnds
  <2> QED BY <1>1, <2>2, <2>3
<1>10. ASSUME NEW g \in Hosts, LinkBreaks(g)
       PROVE  Still /\ Bare
  <2>1. Still
    <3>1. main' = main /\ event' = event
      BY <1>10 DEF LinkBreaks
    <3>2. up'[p] = up[p] \/ up'[p] = FALSE
      BY <1>1, <1>10 DEF LinkBreaks
    <3> QED BY <1>2, <3>1, <3>2
  <2>2. CASE g = p
    BY <1>1, <1>2, <1>10, <2>1, <2>2 DEF LinkBreaks
  <2>3. CASE g = a
    <3>1. ~(\E k \in 1..Len(inbox[a]) : TRUE) /\ ~(\E k \in 1..Len(overtaken[a]) : TRUE)
      BY <1>2, EmptySeq
    <3>2. /\ inbox' = inbox /\ overtaken' = overtaken
          /\ \E s \in Cut(serving[a]) : serving' = [serving EXCEPT ![a] = s]
      BY <1>10, <2>3, <3>1 DEF LinkBreaks
    <3>3. \A s \in Cut(serving[a]) : s.files = <<>>
      <4>1. Len(serving[a].files) = 0
        BY <1>2, EmptySeq
      <4>2. \A k \in 0..0 : SubSeq(<<>>, 1, k) = <<>>
        OBVIOUS
      <4> QED BY <1>2, <4>1, <4>2 DEF Cut
    <3> QED BY <1>1, <1>2, <2>1, <3>2, <3>3
  <2> QED BY <1>1, <2>2, <2>3
<1>11. ASSUME NEW g \in Hosts, Crash(g)
       PROVE  Still /\ Bare
  <2>1. Still
    BY <1>2, <1>11 DEF Crash
  <2>2. CASE g = p
    <3>1. /\ inbox' = [inbox EXCEPT ![p] = <<>>]
          /\ overtaken' = [overtaken EXCEPT ![p] = <<>>]
          /\ serving' = [serving EXCEPT ![p] = NoSession]
      BY <1>2, <1>11, <2>2 DEF Crash
    <3> QED BY <1>1, <1>2, <2>1, <3>1
  <2>3. CASE g = a
    <3>1. inbox'[a] = <<>> /\ overtaken'[a] = <<>> /\ serving'[a] = NoSession
      BY <1>1, <1>11, <2>3 DEF Crash
    <3> QED BY <2>1, <3>1 DEF NoSession
  <2> QED BY <1>1, <2>2, <2>3
<1> QED BY <1>4, <1>5, <1>6, <1>7, <1>8, <1>9, <1>10, <1>11
        DEF Next, Environment, Main, Server

\* c has the first files of s.
Begins(c, s) ==
  Len(c.files) <= Len(s.files) /\ \A i \in 1..Len(c.files) : c.files[i] = s.files[i]

\* What a lost connection leaves of a session is its first files.
LEMMA CutIsPrefix ==
  ASSUME NEW n \in Nat, NEW s \in SessionUpTo(n), NEW c \in Cut(s)
  PROVE  c \in SessionUpTo(n) /\ Begins(c, s)
<1>1. PICK k \in 0..Len(s.files) : c = [files |-> SubSeq(s.files, 1, k), state |-> "broken"]
  BY DEF Cut
<1>2. s.files \in Seq(Item(n)) /\ Len(s.files) \in Nat
  BY LenProperties DEF SessionUpTo
<1>3. \A i \in 1..k : s.files[i] \in Item(n)
  BY <1>2, ElementOfSeq
<1>4. /\ Len(SubSeq(s.files, 1, k)) = k
      /\ \A i \in 1..k : SubSeq(s.files, 1, k)[i] = s.files[i]
  BY <1>2, <1>3, SubSeqProperties
<1> QED BY <1>1, <1>2, <1>4, CutIsSession DEF Begins

\* Steps that leave the files of the peer alone, and the versions on both
\* desktops: the line keeps rising if it rises over the same desktops.
LEMMA LineKept ==
  ASSUME Types, NEW p \in Hosts, desk' = desk,
         Rises(Current(p)', inbox'[p], desk[p], desk[Peer(p)])
  PROVE  Line(p)' /\ \A f \in Files : desk'[p][f] >= desk[p][f]
<1>1. \A f \in Files : desk[p][f] \in Nat
  BY DEF Types, DiskTypes
<1>2. \A f \in Files : desk'[p][f] >= desk[p][f]
  BY <1>1
<1> QED BY <1>2 DEF Line

\* The other machine sends a file, in the version on its desktop.
LEMMA LineSent ==
  ASSUME Types, NEW p \in Hosts, Line(p), Newer(p) \/ ~behind[p],
         UNCHANGED <<desk, edits, overtaken, behind>>,
         NEW f \in Files, desk[Peer(p)][f] > 0,
         SetLatest(p, [Latest(p) EXCEPT !.files =
                         Append(@, [file |-> f, ver |-> desk[Peer(p)][f]])])
  PROVE  Rises(Current(p)', inbox'[p], desk[p], desk[Peer(p)])
<1> DEFINE n == edits
           sv == Current(p)
           ib == inbox[p]
           tv == Current(p)'
           jb == inbox'[p]
           dp == desk[p]
           dh == desk[Peer(p)]
           x == [file |-> f, ver |-> desk[Peer(p)][f]]
           s == [Latest(p) EXCEPT !.files = Append(@, x)]
<1> USE DEF Types, SessionTypes, DiskTypes
<1>1. /\ n \in Nat /\ sv \in SessionUpTo(n) /\ ib \in Seq(SessionUpTo(n))
      /\ dp \in [Files -> Nat] /\ dh \in [Files -> Nat]
  BY TwoHosts, CurrentIsSession
<1>2. x \in Item(n) /\ x.ver = dh[x.file]
  <2>1. desk[Peer(p)][f] \in 0..n /\ n \in Nat
    BY TwoHosts
  <2>2. desk[Peer(p)][f] \in 1..n
    BY <2>1
  <2> QED BY <2>2 DEF Item
<1>3. Latest(p) \in SessionUpTo(n) /\ Latest(p).files = Part(sv, ib, Len(ib))
  BY LatestIsSession, LatestIsPart
<1>4. s \in SessionUpTo(n) /\ s.files = Append(Part(sv, ib, Len(ib)), x)
  <2>1. Latest(p).files \in Seq(Item(n))
    BY <1>3 DEF SessionUpTo
  <2>2. Append(Latest(p).files, x) \in Seq(Item(n))
    BY <1>2, <2>1, AppendProperties
  <2> HIDE DEF x
  <2> QED BY <1>3, <2>2 DEF SessionUpTo
<1>5. /\ tv \in SessionUpTo(n) /\ jb \in Seq(SessionUpTo(n))
      /\ Len(jb) = Len(ib)
      /\ Part(tv, jb, Len(ib)) = s.files
      /\ \A k \in 0..Len(ib) : k # Len(ib) => Part(tv, jb, k) = Part(sv, ib, k)
  <2>1. SetLatest(p, s)
    OBVIOUS
  <2> HIDE DEF s
  <2> QED BY <1>1, <1>4, <2>1, PartsWhenLatestSet
<1>6. Rises(sv, ib, dp, dh)
  BY DEF Line
<1> HIDE DEF n, sv, ib, tv, jb, dp, dh, x, s
<1>7. Rises(tv, jb, dp, dh)
  BY <1>1, <1>2, <1>4, <1>5, <1>6, RisesToSent
<1> QED BY <1>7 DEF tv, jb, dp, dh

\* It ends its session.
LEMMA LineClosed ==
  ASSUME Types, NEW p \in Hosts, Line(p), Newer(p) \/ ~behind[p],
         UNCHANGED <<edits, overtaken, behind>>,
         SetLatest(p, [Latest(p) EXCEPT !.state = "ended"])
  PROVE  Rises(Current(p)', inbox'[p], desk[p], desk[Peer(p)])
<1> DEFINE n == edits
           sv == Current(p)
           ib == inbox[p]
           tv == Current(p)'
           jb == inbox'[p]
           dp == desk[p]
           dh == desk[Peer(p)]
           s == [Latest(p) EXCEPT !.state = "ended"]
<1> USE DEF Types, SessionTypes, DiskTypes
<1>1. n \in Nat /\ sv \in SessionUpTo(n) /\ ib \in Seq(SessionUpTo(n))
  BY CurrentIsSession
<1>3. Latest(p) \in SessionUpTo(n) /\ Latest(p).files = Part(sv, ib, Len(ib))
  BY LatestIsSession, LatestIsPart
<1>4. s \in SessionUpTo(n) /\ s.files = Part(sv, ib, Len(ib))
  BY <1>3 DEF SessionUpTo, States
<1>5. /\ tv \in SessionUpTo(n) /\ jb \in Seq(SessionUpTo(n))
      /\ Len(jb) = Len(ib)
      /\ Part(tv, jb, Len(ib)) = s.files
      /\ \A k \in 0..Len(ib) : k # Len(ib) => Part(tv, jb, k) = Part(sv, ib, k)
  <2>1. SetLatest(p, s)
    OBVIOUS
  <2> HIDE DEF s
  <2> QED BY <1>1, <1>4, <2>1, PartsWhenLatestSet
<1>6. Rises(sv, ib, dp, dh)
  BY DEF Line
<1> HIDE DEF n, sv, ib, tv, jb, dp, dh, s
<1>7. \A k \in 0..Len(ib) : Part(tv, jb, k) = Part(sv, ib, k)
  BY <1>4, <1>5
<1>8. \A k \in 0..Len(ib) : Len(Part(sv, ib, k)) \in Nat
  BY <1>1, PartIs
<1>9. Cuts(tv, jb, sv, ib)
  BY <1>7, <1>8 DEF Cuts
<1>10. Rises(tv, jb, dp, dh)
  BY <1>1, <1>5, <1>6, <1>9, RisesCut
<1> QED BY <1>10 DEF tv, jb, dp, dh

\* A session of p's line is cut, or emptied.
LEMMA LineCut ==
  ASSUME Types, NEW p \in Hosts, Line(p),
         \/ Current(p)' \in Cut(Current(p)) /\ inbox'[p] = inbox[p]
         \/ Current(p)' = NoSession /\ inbox'[p] = inbox[p]
         \/ /\ Current(p)' = Current(p)
            /\ \E m \in 1..Len(inbox[p]) : \E s \in Cut(inbox[p][m]) :
                 inbox'[p] = [inbox[p] EXCEPT ![m] = s]
  PROVE  Rises(Current(p)', inbox'[p], desk[p], desk[Peer(p)])
<1> DEFINE n == edits
           sv == Current(p)
           ib == inbox[p]
           tv == Current(p)'
           jb == inbox'[p]
           dp == desk[p]
           dh == desk[Peer(p)]
<1> USE DEF Types, SessionTypes, DiskTypes
<1>0. SUFFICES Rises(tv, jb, dp, dh)
  OBVIOUS
<1>1. n \in Nat /\ sv \in SessionUpTo(n) /\ ib \in Seq(SessionUpTo(n))
  BY CurrentIsSession
<1>2. Rises(sv, ib, dp, dh)
  BY DEF Line
<1>3. \/ tv \in Cut(sv) /\ jb = ib
      \/ tv = NoSession /\ jb = ib
      \/ tv = sv /\ \E m \in 1..Len(ib) : \E s \in Cut(ib[m]) : Replaced(ib, m, s, jb)
  BY DEF Replaced
<1> HIDE DEF n, sv, ib, tv, jb, dp, dh
<1>4. \A k \in 0..Len(ib) : Len(Part(sv, ib, k)) \in Nat
  BY <1>1, PartIs
<1>5. ASSUME jb = ib, tv \in SessionUpTo(n), Begins(tv, sv)
      PROVE  Rises(tv, jb, dp, dh)
  <2>1. Cuts(tv, jb, sv, ib)
    <3> SUFFICES ASSUME NEW k \in 0..Len(ib)
                 PROVE  /\ Len(Part(tv, jb, k)) <= Len(Part(sv, ib, k))
                        /\ \A i \in 1..Len(Part(tv, jb, k)) : Part(tv, jb, k)[i] = Part(sv, ib, k)[i]
      BY DEF Cuts
    <3>1. CASE k = 0
      BY <1>5, <3>1 DEF Part, Begins
    <3>2. CASE k # 0
      BY <1>4, <1>5, <3>2 DEF Part
    <3> QED BY <3>1, <3>2
  <2> QED BY <1>1, <1>2, <1>5, <2>1, RisesCut
<1>6. CASE tv \in Cut(sv) /\ jb = ib
  BY <1>1, <1>5, <1>6, CutIsPrefix
<1>7. CASE tv = NoSession /\ jb = ib
  <2>1. tv \in SessionUpTo(n) /\ Len(tv.files) = 0
    BY <1>1, <1>7, FreshSessions, EmptySeq DEF NoSession
  <2>2. Len(sv.files) \in Nat
    BY <1>1, LenProperties DEF SessionUpTo
  <2>3. Begins(tv, sv)
    BY <2>1, <2>2 DEF Begins
  <2> QED BY <1>5, <1>7, <2>1, <2>3
<1>8. ASSUME tv = sv, \E m \in 1..Len(ib) : \E s \in Cut(ib[m]) : Replaced(ib, m, s, jb)
      PROVE  Rises(tv, jb, dp, dh)
  <2>0. PICK m \in 1..Len(ib) : \E s \in Cut(ib[m]) : Replaced(ib, m, s, jb)
    BY <1>8
  <2>00. PICK s \in Cut(ib[m]) : Replaced(ib, m, s, jb)
    BY <2>0
  <2>1. ib[m] \in SessionUpTo(n) /\ m # 0 /\ m \in 0..Len(ib)
    BY <1>1, ElementOfSeq
  <2>2. s \in SessionUpTo(n) /\ Begins(s, ib[m])
    BY <1>1, <2>1, CutIsPrefix
  <2>3. /\ jb \in Seq(SessionUpTo(n)) /\ Len(jb) = Len(ib)
        /\ Part(sv, jb, m) = s.files
        /\ \A k \in 0..Len(ib) : k # m => Part(sv, jb, k) = Part(sv, ib, k)
    BY <1>1, <2>00, <2>2, PartsWhenReplaced
  <2>4. Part(sv, ib, m) = ib[m].files
    BY <2>1 DEF Part
  <2>5. Cuts(sv, jb, sv, ib)
    <3> SUFFICES ASSUME NEW k \in 0..Len(ib)
                 PROVE  /\ Len(Part(sv, jb, k)) <= Len(Part(sv, ib, k))
                        /\ \A i \in 1..Len(Part(sv, jb, k)) : Part(sv, jb, k)[i] = Part(sv, ib, k)[i]
      BY DEF Cuts
    <3>1. CASE k = m
      BY <2>2, <2>3, <2>4, <3>1 DEF Begins
    <3>2. CASE k # m
      BY <1>4, <2>3, <3>2
    <3> QED BY <3>1, <3>2
  <2> QED BY <1>1, <1>2, <1>8, <2>3, <2>5, RisesCut
<1> QED BY <1>3, <1>6, <1>7, <1>8

\* A file is written, whole or in part, or its writing fails.
LEMMA LineTaken ==
  ASSUME Types, NEW p \in Hosts, Line(p), Stale(p), TakeFile(p)
  PROVE  /\ Line(p)'
         /\ \A f \in Files : \/ desk'[p][f] >= desk[p][f]
                             \/ behind[p] \/ desk'[p][f] = Partial
<1> DEFINE n == edits
           sv == serving[p]
           cv == Current(p)
           ib == inbox[p]
           tv == serving'[p]
           dp == desk[p]
           dq == desk'[p]
           dh == desk[Peer(p)]
           y == Head(sv.files)
           Good == /\ Line(p)'
                   /\ \A f \in Files : \/ desk'[p][f] >= desk[p][f]
                                       \/ behind[p] \/ desk'[p][f] = Partial
<1> USE DEF Types, SessionTypes, DiskTypes
<1>1. /\ n \in Nat /\ sv \in SessionUpTo(n) /\ ib \in Seq(SessionUpTo(n))
      /\ dp \in [Files -> Nat] /\ dh \in [Files -> Nat] /\ Rises(cv, ib, dp, dh)
      /\ cv \in SessionUpTo(n)
  BY TwoHosts, CurrentIsSession DEF Line
<1>2. sv.files \in Seq(Item(n)) /\ sv.files # <<>>
  BY <1>1 DEF TakeFile, SessionUpTo
<1>3. y \in Item(n) /\ Tail(sv.files) \in Seq(Item(n))
  BY <1>2, HeadTailProperties
<1>4. y.file \in Files /\ y.ver \in Nat /\ y.ver >= 1
  <2> HIDE DEF y, n
  <2> QED BY <1>1, <1>3 DEF Item
<1>5. tv = [sv EXCEPT !.files = Tail(@)] /\ inbox'[p] = ib /\ behind' = behind
  BY DEF TakeFile
<1>6. tv \in SessionUpTo(n) /\ tv.files = Tail(sv.files)
  BY <1>1, <1>3, <1>5 DEF SessionUpTo
<1>7. Peer(p) \in Hosts /\ Peer(p) # p
  BY TwoHosts
\* The file that comes next is on the line, or was overtaken.
<1>8. /\ y.ver <= dh[y.file]
      /\ behind[p] => \A z \in Ahead(p) : z.file = y.file => y.ver <= z.ver
  <2>1. Len(sv.files) \in Nat \ {0} /\ 1 \in 1..Len(sv.files) /\ y = sv.files[1]
    <3>1. Len(sv.files) \in Nat \ {0} /\ y = sv.files[1]
      BY <1>2, EmptySeq, LenProperties, HeadTailProperties
    <3> QED BY <3>1
  <2>2. CASE behind[p]
    <3>1. y \in Late(p)
      BY <2>1, <2>2 DEF Late, Items
    <3> QED BY <3>1 DEF Stale, Below
  <2>3. CASE ~behind[p]
    <3>1. Part(cv, ib, 0) = sv.files /\ 0 \in 0..Len(ib)
      BY <1>1, <2>3, LenProperties DEF Part, Current
    <3> QED BY <1>1, <2>1, <2>3, <3>1 DEF Rises
  <2> QED BY <2>2, <2>3
\* What remains of the line.
<1>9. Rises(Current(p)', ib, dp, dh) /\ Current(p)' \in SessionUpTo(n)
  <2>1. CASE behind[p]
    BY <1>1, <1>5, <2>1 DEF Current
  <2>2. CASE ~behind[p]
    <3>1. cv = sv /\ Current(p)' = tv
      BY <1>5, <2>2 DEF Current
    <3> DEFINE dt == [f \in Files |-> IF f = y.file THEN y.ver ELSE dp[f]]
    <3>2. dt \in [Files -> Nat] /\ \A f \in Files : dt[f] = IF f = y.file THEN y.ver ELSE dp[f]
      <4> HIDE DEF dp, y
      <4> QED BY <1>1, <1>4
    <3>3. Rises(tv, ib, dp, dh)
      <4> HIDE DEF n, sv, cv, ib, tv, dp, dt, dh
      <4> QED BY <1>1, <1>2, <1>6, <3>1, <3>2, RisesToTaken
    <3> QED BY <1>6, <3>1, <3>3
  <2> QED BY <2>1, <2>2
<1>10. CASE desk' = desk
  <2>1. \A f \in Files : desk[p][f] \in Nat
    BY <1>1
  <2> QED BY <1>5, <1>9, <1>10, <2>1 DEF Line
<1>11. CASE desk' = [desk EXCEPT ![p][y.file] = y.ver] /\ ~behind[p]
  <2>1. desk'[Peer(p)] = dh /\ cv = sv /\ Current(p)' = tv
    BY <1>5, <1>7, <1>11 DEF Current
  <2>2. dq = [dp EXCEPT ![y.file] = y.ver]
    BY <1>11
  <2>3. dq \in [Files -> Nat] /\ \A f \in Files : dq[f] = IF f = y.file THEN y.ver ELSE dp[f]
    <3> HIDE DEF dp, dq, y
    <3> QED BY <1>1, <1>4, <2>2
  <2>4. Rises(tv, ib, dq, dh) /\ \A f \in Files : dq[f] >= dp[f]
    <3> HIDE DEF n, sv, cv, ib, tv, dp, dq, dh
    <3> QED BY <1>1, <1>2, <1>6, <2>1, <2>3, RisesToTaken
  <2> QED BY <1>5, <2>1, <2>4 DEF Line
<1>12. ASSUME NEW v \in Nat, desk' = [desk EXCEPT ![p][y.file] = v], v <= dh[y.file],
              \A k \in 0..Len(ib) : \A i \in 1..Len(Part(Current(p)', ib, k)) :
                Part(Current(p)', ib, k)[i].file = y.file
                  => v <= Part(Current(p)', ib, k)[i].ver,
              behind[p] \/ v = Partial
       PROVE  Good
  <2>1. desk'[Peer(p)] = dh /\ dq = [dp EXCEPT ![y.file] = v]
    BY <1>7, <1>12
  <2> DEFINE nv == Current(p)'
  <2>2. Rises(nv, ib, dq, dh)
    <3>1. Rises(nv, ib, dp, dh) /\ nv \in SessionUpTo(n)
      BY <1>9
    <3>2. \A k \in 0..Len(ib) : \A i \in 1..Len(Part(nv, ib, k)) :
            Part(nv, ib, k)[i].file = y.file => v <= Part(nv, ib, k)[i].ver
      BY <1>12
    <3>3. v \in Nat /\ v <= dh[y.file] /\ dq = [dp EXCEPT ![y.file] = v]
      BY <1>12, <2>1
    <3> DEFINE g == y.file
    <3>4. g \in Files /\ v <= dh[g] /\ dq = [dp EXCEPT ![g] = v]
          /\ \A k \in 0..Len(ib) : \A i \in 1..Len(Part(nv, ib, k)) :
               Part(nv, ib, k)[i].file = g => v <= Part(nv, ib, k)[i].ver
      BY <1>4, <3>2, <3>3
    <3> HIDE DEF n, nv, ib, dp, dq, dh, g
    <3> QED BY <1>1, <3>1, <3>3, <3>4, RisesWhenWritten
  <2>3. \A f \in Files : f # y.file => dq[f] = dp[f]
    BY <1>1, <2>1
  <2>4. \A f \in Files : dq[f] >= dp[f] \/ behind[p] \/ dq[f] = Partial
    <3>1. dq[y.file] = v
      BY <1>1, <1>4, <2>1
    <3>2. \A f \in Files : dp[f] \in Nat
      BY <1>1
    <3>3. behind[p] \/ v = Partial
      BY <1>12
    <3> HIDE DEF dp, dq
    <3>4. \A f \in Files : f # y.file => dq[f] >= dp[f]
      BY <2>3, <3>2
    <3> HIDE DEF y
    <3> QED BY <3>1, <3>3, <3>4
  <2> QED BY <1>5, <2>1, <2>2, <2>4 DEF Line
<1>13. ASSUME NEW k \in 0..Len(ib), NEW i \in 1..Len(Part(Current(p)', ib, k))
       PROVE  /\ Part(Current(p)', ib, k)[i].ver >= 1
              /\ behind[p] => Part(Current(p)', ib, k)[i] \in Ahead(p)
  <2> DEFINE nv == Current(p)'
  <2>1. Part(nv, ib, k) \in Seq(Item(n))
    <3> HIDE DEF n, nv, ib
    <3> QED BY <1>1, <1>9, PartIs DEF nv
  <2>2. Part(nv, ib, k)[i] \in Item(n)
    <3> DEFINE fs == Part(nv, ib, k)
    <3>1. fs \in Seq(Item(n)) /\ i \in 1..Len(fs)
      BY <2>1
    <3> HIDE DEF fs, n
    <3>2. fs[i] \in Item(n)
      BY <3>1, ElementOfSeq
    <3> QED BY <3>2 DEF fs
  <2>3. Part(nv, ib, k)[i].ver >= 1
    <3> HIDE DEF nv, ib, n
    <3> QED BY <1>1, <2>2 DEF Item
  <2>4. ASSUME behind[p]
        PROVE  Part(nv, ib, k)[i] \in Ahead(p)
    <3>1. nv = NoSession
      BY <1>5, <2>4 DEF Current
    <3>2. Len(nv.files) = 0
      BY <3>1, EmptySeq DEF NoSession
    <3>3. k # 0
      BY <3>2 DEF Part
    <3>4. k \in 1..Len(ib) /\ Part(nv, ib, k) = ib[k].files
      BY <1>1, <3>3, LenProperties DEF Part
    <3>5. Part(nv, ib, k)[i] \in Items(ib[k])
      BY <3>4 DEF Items
    <3> QED BY <3>4, <3>5 DEF Ahead, QueueItems
  <2> QED BY <2>3, <2>4
<1>14. CASE desk' = [desk EXCEPT ![p][y.file] = y.ver] /\ behind[p]
  <2>1. \A k \in 0..Len(ib) : \A i \in 1..Len(Part(Current(p)', ib, k)) :
          Part(Current(p)', ib, k)[i].file = y.file
            => y.ver <= Part(Current(p)', ib, k)[i].ver
    BY <1>8, <1>13, <1>14
  <2> DEFINE v == y.ver
  <2>2. v \in Nat /\ v <= dh[y.file]
    BY <1>4, <1>8
  <2>3. desk' = [desk EXCEPT ![p][y.file] = v] /\ (behind[p] \/ v = Partial)
    BY <1>14
  <2>4. \A k \in 0..Len(ib) : \A i \in 1..Len(Part(Current(p)', ib, k)) :
          Part(Current(p)', ib, k)[i].file = y.file
            => v <= Part(Current(p)', ib, k)[i].ver
    BY <2>1
  <2> HIDE DEF v
  <2> QED BY <1>12, <2>2, <2>3, <2>4
<1>15. CASE desk' = [desk EXCEPT ![p][y.file] = Partial]
  <2>1. 1 <= dh[y.file] /\ 1 \in Nat
    <3>1. dh[y.file] \in Nat
      BY <1>1, <1>4
    <3> HIDE DEF y, dh
    <3> QED BY <1>4, <1>8, <3>1
  <2>2. \A k \in 0..Len(ib) : \A i \in 1..Len(Part(Current(p)', ib, k)) :
          Part(Current(p)', ib, k)[i].file = y.file
            => 1 <= Part(Current(p)', ib, k)[i].ver
    <3>1. \A k \in 0..Len(ib) : \A i \in 1..Len(Part(Current(p)', ib, k)) :
            Part(Current(p)', ib, k)[i].ver \in Nat
      <4> DEFINE nv == Current(p)'
      <4>1. nv \in SessionUpTo(n)
        BY <1>9
      <4> HIDE DEF n, nv, ib
      <4>2. \A k \in 0..Len(ib) : \A i \in 1..Len(Part(nv, ib, k)) :
              Part(nv, ib, k)[i].ver \in Nat
        BY <1>1, <4>1, PartIs
      <4> QED BY <4>2 DEF nv
    <3>2. \A k \in 0..Len(ib) : \A i \in 1..Len(Part(Current(p)', ib, k)) :
            Part(Current(p)', ib, k)[i].ver >= 1
      BY <1>13
    <3> HIDE DEF ib, y
    <3> QED BY <3>1, <3>2
  <2> DEFINE v == 1
  <2>3. v \in Nat /\ v <= dh[y.file]
    BY <2>1
  <2>4. desk' = [desk EXCEPT ![p][y.file] = v] /\ (behind[p] \/ v = Partial)
    BY <1>15 DEF Partial
  <2>5. \A k \in 0..Len(ib) : \A i \in 1..Len(Part(Current(p)', ib, k)) :
          Part(Current(p)', ib, k)[i].file = y.file
            => v <= Part(Current(p)', ib, k)[i].ver
    BY <2>2
  <2> HIDE DEF v
  <2> QED BY <1>12, <2>3, <2>4, <2>5
<1> HIDE DEF Good, y
<1> QED BY <1>10, <1>11, <1>14, <1>15 DEF TakeFile, diskVars, Good, y

\* What sessions and queues of them hold.
LEMMA ItemsAre ==
  ASSUME NEW n \in Nat, NEW s \in SessionUpTo(n)
  PROVE  Items(s) \subseteq Item(n)
<1>1. s.files \in Seq(Item(n))
  BY DEF SessionUpTo
<1>2. \A i \in 1..Len(s.files) : s.files[i] \in Item(n)
  BY <1>1, ElementOfSeq
<1> QED BY <1>2 DEF Items

LEMMA QueueItemsAre ==
  ASSUME NEW n \in Nat, NEW q \in Seq(SessionUpTo(n))
  PROVE  QueueItems(q) \subseteq Item(n)
<1>1. \A k \in 1..Len(q) : q[k] \in SessionUpTo(n)
  BY ElementOfSeq
<1>2. \A k \in 1..Len(q) : Items(q[k]) \subseteq Item(n)
  BY <1>1, ItemsAre
<1> QED BY <1>2 DEF QueueItems

LEMMA ItemsNone ==
  ASSUME NEW s, s.files = <<>>
  PROVE  Items(s) = {}
<1>1. Len(s.files) = 0
  BY EmptySeq
<1> QED BY <1>1 DEF Items

LEMMA ItemsCut ==
  ASSUME NEW n \in Nat, NEW s \in SessionUpTo(n), NEW c \in Cut(s)
  PROVE  Items(c) \subseteq Items(s)
<1>1. Begins(c, s) /\ c \in SessionUpTo(n)
  BY CutIsPrefix
<1>2. Len(c.files) \in Nat /\ Len(s.files) \in Nat
  BY <1>1, LenProperties DEF SessionUpTo
<1>3. \A i \in 1..Len(c.files) : i \in 1..Len(s.files) /\ c.files[i] = s.files[i]
  BY <1>1, <1>2 DEF Begins
<1> QED BY <1>3 DEF Items

\* A queue that holds no more, except for what is in W.
LEMMA QueueWithin ==
  ASSUME NEW q, NEW r, NEW W,
         \A k \in 1..Len(r) : Items(r[k]) \subseteq W
                              \/ \E m \in 1..Len(q) : Items(r[k]) \subseteq Items(q[m]) \cup W
  PROVE  QueueItems(r) \subseteq QueueItems(q) \cup W
<1> SUFFICES ASSUME NEW k \in 1..Len(r), NEW z \in Items(r[k])
             PROVE  z \in QueueItems(q) \cup W
  BY DEF QueueItems
<1>1. CASE Items(r[k]) \subseteq W
  BY <1>1
<1>2. ASSUME NEW m \in 1..Len(q), Items(r[k]) \subseteq Items(q[m]) \cup W
      PROVE  z \in QueueItems(q) \cup W
  BY <1>2 DEF QueueItems
<1> QED BY <1>1, <1>2

LEMMA QueueReplaced ==
  ASSUME NEW n \in Nat, NEW q \in Seq(SessionUpTo(n)), NEW m \in 1..Len(q),
         NEW s \in SessionUpTo(n), NEW W, Items(s) \subseteq Items(q[m]) \cup W
  PROVE  QueueItems([q EXCEPT ![m] = s]) \subseteq QueueItems(q) \cup W
<1> DEFINE r == [q EXCEPT ![m] = s]
<1>1. Len(r) = Len(q) /\ r[m] = s /\ \A k \in 1..Len(q) : k # m => r[k] = q[k]
  <2>1. r \in Seq(SessionUpTo(n))
    BY ExceptSeq
  <2> QED BY <2>1
<1> HIDE DEF r
<1>2. \A k \in 1..Len(r) : \E j \in 1..Len(q) : Items(r[k]) \subseteq Items(q[j]) \cup W
  BY <1>1
<1>3. QueueItems(r) \subseteq QueueItems(q) \cup W
  BY <1>2, QueueWithin
<1> QED BY <1>3 DEF r

LEMMA QueueNone == QueueItems(<<>>) = {}
<1>1. Len(<<>>) = 0
  BY EmptySeq
<1> QED BY <1>1 DEF QueueItems

\* Files that were overtaken stay below those that are to come.
LEMMA StaleOn ==
  ASSUME Types, NEW p \in Hosts, Line(p), Stale(p),
         Late(p)' \subseteq Late(p) \cup (IF Ahead(p)' = {} THEN Ahead(p) ELSE {}),
         \A z \in Ahead(p)' : \/ z \in Ahead(p)
                              \/ z.file \in Files /\ z.ver = desk[Peer(p)][z.file],
         desk'[Peer(p)] \in [Files -> Nat],
         \A f \in Files : desk[Peer(p)][f] <= desk'[Peer(p)][f]
  PROVE  Stale(p)'
<1> DEFINE n == edits
           dh == desk[Peer(p)]
           dg == desk'[Peer(p)]
<1>1. /\ n \in Nat /\ serving[p] \in SessionUpTo(n)
      /\ inbox[p] \in Seq(SessionUpTo(n)) /\ overtaken[p] \in Seq(SessionUpTo(n))
      /\ dh \in [Files -> Nat] /\ dg \in [Files -> Nat]
  BY TwoHosts DEF Types, SessionTypes, DiskTypes
<1>2. Late(p) \cup Ahead(p) \subseteq Item(n)
  BY <1>1, ItemsAre, QueueItemsAre DEF Late, Ahead
<1>3. \A x \in Late(p) \cup Ahead(p) : x.file \in Files /\ x.ver \in Nat
  BY <1>1, <1>2 DEF Item
<1>4. \A x \in Ahead(p) : x.ver <= dh[x.file]
  <2> SUFFICES ASSUME NEW k \in 1..Len(inbox[p]), NEW i \in 1..Len(inbox[p][k].files)
               PROVE  inbox[p][k].files[i].ver <= dh[inbox[p][k].files[i].file]
    BY DEF Ahead, QueueItems, Items
  <2>1. k \in 0..Len(inbox[p]) /\ Part(Current(p), inbox[p], k) = inbox[p][k].files
    BY <1>1, LenProperties DEF Part
  <2> QED BY <2>1 DEF Line, Rises
<1>5. \A x \in Late(p) : x.ver <= dh[x.file] /\ \A z \in Ahead(p) : z.file = x.file => x.ver <= z.ver
  BY DEF Stale, Below
<1> HIDE DEF n, dh, dg
<1>6. \A f \in Files : dh[f] \in Nat /\ dg[f] \in Nat /\ dh[f] <= dg[f]
  BY <1>1 DEF dh, dg
<1>7. ASSUME NEW x \in Late(p)'
      PROVE  x.ver <= dg[x.file] /\ \A z \in Ahead(p)' : z.file = x.file => x.ver <= z.ver
  <2>1. x \in Late(p) \/ (x \in Ahead(p) /\ Ahead(p)' = {})
    OBVIOUS
  <2>2. x.ver <= dh[x.file] /\ x.file \in Files /\ x.ver \in Nat
    BY <1>3, <1>4, <1>5, <2>1
  <2>3. x.ver <= dg[x.file]
    BY <1>6, <2>2
  <2>4. ASSUME NEW z \in Ahead(p)', z.file = x.file
        PROVE  x.ver <= z.ver
    <3>1. x \in Late(p)
      BY <2>1, <2>4
    <3>2. CASE z \in Ahead(p)
      BY <1>5, <2>4, <3>1, <3>2
    <3>3. CASE z.ver = dh[z.file]
      BY <2>2, <2>4, <3>3
    <3> QED BY <3>2, <3>3 DEF dh
  <2> QED BY <2>3, <2>4
<1> QED BY <1>7 DEF Stale, Below, dg

\* What is overtaken on its way to a machine that sends nothing: it was already,
\* or it waited and nothing newer waits now.  What joins the line is as on the
\* desktop it comes from.
LEMMA OvertakenStep ==
  ASSUME Types, LineInv, [Next]_vars, NEW p \in Hosts, Silent(p)
  PROVE  /\ Late(p)' \subseteq Late(p) \cup (IF Ahead(p)' = {} THEN Ahead(p) ELSE {})
         /\ \A z \in Ahead(p)' : \/ z \in Ahead(p)
                                 \/ z.file \in Files /\ z.ver = desk[Peer(p)][z.file]
<1> DEFINE a == Peer(p)
           n == edits
           ib == inbox[p]
           ov == overtaken[p]
           sv == serving[p]
           Good == /\ Late(p)' \subseteq Late(p) \cup (IF Ahead(p)' = {} THEN Ahead(p) ELSE {})
                   /\ \A z \in Ahead(p)' : \/ z \in Ahead(p)
                                           \/ z.file \in Files /\ z.ver = desk[a][z.file]
<1> USE DEF Types, ThreadTypes, SessionTypes, DiskTypes
<1>1. /\ a \in Hosts /\ p # a /\ Peer(a) = p /\ \A g \in Hosts : g = a \/ g = p
      /\ n \in Nat /\ ib \in Seq(SessionUpTo(n)) /\ ov \in Seq(SessionUpTo(n))
      /\ sv \in SessionUpTo(n)
  BY TwoHosts
<1>2. /\ main[p] \in {"off", "shake", "paired", "wait"} /\ ~event[p] /\ ~up[p]
      /\ inbox[a] = <<>> /\ overtaken[a] = <<>> /\ serving[a].files = <<>>
  BY DEF Silent
<1>3. ASSUME serving'[p] = serving[p], inbox'[p] = inbox[p],
             overtaken'[p] = overtaken[p], behind'[p] = behind[p]
      PROVE  Good
  BY <1>3 DEF Late, Ahead
<1>4. CASE Pair \/ Tick \/ UNCHANGED vars
  BY <1>3, <1>4 DEF Pair, Tick, vars, serverVars
<1>5. ASSUME NEW g \in Hosts, Click(g) \/ \E f \in Files : Edit(g, f)
      PROVE  Good
  BY <1>3, <1>5 DEF Click, Edit, serverVars
<1>6. ASSUME NEW g \in Hosts,
             \/ Start(g) \/ HandshakeFails(g) \/ Serve(g) \/ Wait(g) \/ Reset(g)
             \/ ConnectFails(g) \/ Collect(g) \/ SendFails(g) \/ AllSent(g) \/ Stamp(g)
             \/ Update(g) \/ Wake(g)
      PROVE  Good
  BY <1>3, <1>6 DEF Start, HandshakeFails, Serve, Wait, Reset, ConnectFails, Collect,
     SendFails, AllSent, Stamp, Update, Wake, serverVars
\* The latest session is replaced.
<1>7. ASSUME NEW s, SetLatest(p, s), s \in SessionUpTo(n), up[a], NEW W,
             Items(s) \subseteq Items(Latest(p)) \cup W,
             \A z \in W : z.file \in Files /\ z.ver = desk[a][z.file],
             UNCHANGED <<overtaken, behind>>
      PROVE  Good
  <2>1. Newer(p) \/ ~behind[p]
    BY <1>1, <1>7, UpIsLatest
  <2>2. CASE Newer(p)
    <3>1. Len(ib) \in 1..Len(ib) /\ Latest(p) = ib[Len(ib)]
      BY <1>1, <2>2, LatestIsSession DEF Latest
    <3>2. inbox'[p] = [ib EXCEPT ![Len(ib)] = s] /\ serving' = serving
      BY <1>7, <2>2 DEF SetLatest
    <3>3. QueueItems(inbox'[p]) \subseteq QueueItems(ib) \cup W
      <4> DEFINE m == Len(ib)
      <4>1. m \in 1..Len(ib) /\ Items(s) \subseteq Items(ib[m]) \cup W
        BY <1>7, <3>1
      <4> HIDE DEF m, n, ib
      <4>2. QueueItems([ib EXCEPT ![m] = s]) \subseteq QueueItems(ib) \cup W
        BY <1>1, <1>7, <4>1, QueueReplaced
      <4> QED BY <3>2, <4>2 DEF m
    <3>4. Late(p)' = Late(p)
      BY <1>7, <3>2 DEF Late
    <3> QED BY <1>7, <3>3, <3>4 DEF Ahead
  <2>3. CASE ~Newer(p)
    <3>1. inbox'[p] = inbox[p] /\ ~behind[p]
      BY <1>7, <2>1, <2>3 DEF SetLatest
    <3>2. Late(p)' = Late(p)
      BY <1>7, <3>1 DEF Late
    <3> QED BY <3>1, <3>2 DEF Ahead
  <2> QED BY <2>2, <2>3
<1>8. ASSUME NEW g \in Hosts, Connect(g) \/ SendFile(g) \/ Close(g)
      PROVE  Good
  <2>1. g = a
    BY <1>1, <1>2, <1>8 DEF Connect, SendFile, Close
  <2>2. CASE Connect(a)
    <3> DEFINE jb == inbox'[p]
    <3>1. /\ UNCHANGED <<serving, overtaken, behind>>
          /\ \A k \in 1..Len(jb) : \/ k \in 1..Len(ib) /\ jb[k] = ib[k]
                                  \/ jb[k].files = <<>>
      <4> HIDE DEF a, n
      <4> QED BY <1>1, <2>2, ConnectDoes
    <3> HIDE DEF jb, ib
    <3>2. \A k \in 1..Len(jb) : Items(jb[k]) \subseteq {}
                                \/ \E m \in 1..Len(ib) : Items(jb[k]) \subseteq Items(ib[m]) \cup {}
      BY <3>1, ItemsNone
    <3>3. QueueItems(jb) \subseteq QueueItems(ib) \cup {}
      BY <3>2, QueueWithin
    <3>4. Late(p)' = Late(p)
      BY <3>1 DEF Late
    <3> QED BY <3>3, <3>4 DEF Ahead, jb, ib
  <2>3. Latest(p) \in SessionUpTo(n)
    BY LatestIsSession
  <2>4. CASE SendFile(a)
    <3>1. PICK f \in todo[a] :
            SetLatest(p, [Latest(p) EXCEPT !.files =
                            Append(@, [file |-> f, ver |-> desk[a][f]])])
      BY <1>1, <2>4 DEF SendFile
    <3>2. f \in Files /\ desk[a][f] > 0 /\ desk[a][f] \in 0..n
      BY <1>1
    <3> DEFINE x == [file |-> f, ver |-> desk[a][f]]
               fs == Latest(p).files
               s == [Latest(p) EXCEPT !.files = Append(fs, x)]
    <3>3. x \in Item(n)
      <4>1. desk[a][f] \in 1..n
        <5> DEFINE v == desk[a][f]
        <5>1. v > 0 /\ v \in 0..n /\ n \in Nat
          BY <1>1, <3>2
        <5> HIDE DEF v, n
        <5>2. v \in 1..n
          BY <5>1
        <5> QED BY <5>2 DEF v
      <4> QED BY <3>2, <4>1 DEF Item
    <3>4. fs \in Seq(Item(n))
      BY <2>3 DEF SessionUpTo
    <3>5. /\ Append(fs, x) \in Seq(Item(n)) /\ Len(Append(fs, x)) = Len(fs) + 1
          /\ Append(fs, x)[Len(fs) + 1] = x /\ \A i \in 1..Len(fs) : Append(fs, x)[i] = fs[i]
          /\ Len(fs) \in Nat
      <4> HIDE DEF x, fs, n
      <4> QED BY <3>3, <3>4, AppendProperties, LenProperties
    <3>6. s \in SessionUpTo(n) /\ s.files = Append(fs, x)
      <4> HIDE DEF x
      <4> QED BY <2>3, <3>5 DEF SessionUpTo
    <3>7. Items(s) \subseteq Items(Latest(p)) \cup {x}
      <4>1. ASSUME NEW i \in 1..(Len(fs) + 1)
            PROVE  Append(fs, x)[i] \in {fs[j] : j \in 1..Len(fs)} \cup {x}
        <5>0. \A m \in Nat : \A j \in 1..(m + 1) : j \in 1..m \/ j = m + 1
          OBVIOUS
        <5>1. i \in 1..Len(fs) \/ i = Len(fs) + 1
          BY <3>5, <5>0
        <5> HIDE DEF x, fs
        <5> QED BY <3>5, <5>1
      <4> HIDE DEF x, s
      <4> QED BY <3>5, <3>6, <4>1 DEF Items
    <3>8. x.file \in Files /\ x.ver = desk[a][x.file]
      BY <3>2
    <3>9. SetLatest(p, s) /\ up[a] /\ UNCHANGED <<overtaken, behind>>
      BY <2>4, <3>1 DEF SendFile
    <3> DEFINE W == {x}
    <3>10. /\ s \in SessionUpTo(n) /\ Items(s) \subseteq Items(Latest(p)) \cup W
           /\ \A z \in W : z.file \in Files /\ z.ver = desk[a][z.file]
      BY <3>6, <3>7, <3>8
    <3> HIDE DEF s, n, Good, a, W
    <3> QED BY <1>7, <3>9, <3>10
  <2>5. CASE Close(a)
    <3> DEFINE s == [Latest(p) EXCEPT !.state = "ended"]
               W == {}
    <3>0. s \in SessionUpTo(n) /\ s.files = Latest(p).files
      <4> HIDE DEF n
      <4> QED BY <2>3 DEF SessionUpTo, States
    <3>1. /\ s \in SessionUpTo(n) /\ Items(s) \subseteq Items(Latest(p)) \cup W
          /\ \A z \in W : z.file \in Files /\ z.ver = desk[a][z.file]
      <4> HIDE DEF s, n
      <4> QED BY <3>0 DEF Items
    <3>2. CASE up[a]
      <4>1. SetLatest(p, s) /\ UNCHANGED <<overtaken, behind>>
        BY <1>1, <2>5, <3>2 DEF Close
      <4> HIDE DEF s, n, Good, a, W
      <4> QED BY <1>7, <3>1, <3>2, <4>1
    <3>3. CASE ~up[a]
      BY <1>3, <2>5, <3>3 DEF Close
    <3> QED BY <3>2, <3>3
  <2> QED BY <1>8, <2>1, <2>2, <2>4, <2>5
<1>9. ASSUME NEW g \in Hosts, Accept(g)
      PROVE  Good
  <2>1. g = p
    BY <1>1, <1>2, <1>9 DEF Accept, AcceptNewest, AcceptOvertaken, Newer
  <2>2. CASE AcceptNewest(p)
    <3> DEFINE q == SubSeq(ib, 1, Len(ib) - 1)
    <3>1. /\ inbox'[p] = <<>> /\ ~behind'[p] /\ overtaken'[p] = ov \o q /\ ib # <<>>
      BY <2>2 DEF AcceptNewest, Newer
    <3>2. /\ Len(ib) \in Nat \ {0} /\ q \in Seq(SessionUpTo(n)) /\ Len(q) = Len(ib) - 1
          /\ \A i \in 1..(Len(ib) - 1) : q[i] = ib[i]
      BY <1>1, <3>1, LastOfQueue
    <3>3. QueueItems(q) \subseteq QueueItems(ib) \cup {}
      <4>0. \A i \in 1..(Len(ib) - 1) : i \in 1..Len(ib)
        BY <3>2
      <4>1. \A k \in 1..Len(q) : \E m \in 1..Len(ib) : Items(q[k]) \subseteq Items(ib[m]) \cup {}
        BY <3>2, <4>0
      <4> HIDE DEF q, ib
      <4> QED BY <4>1, QueueWithin
    <3>4. QueueItems(ov \o q) \subseteq QueueItems(ov) \cup QueueItems(q)
      <4> DEFINE r == ov \o q
      <4>1. /\ Len(ov) \in Nat /\ Len(q) \in Nat /\ Len(r) = Len(ov) + Len(q)
            /\ \A k \in 1..(Len(ov) + Len(q)) : r[k] = IF k <= Len(ov) THEN ov[k] ELSE q[k - Len(ov)]
        <5> HIDE DEF q, ov, ib, n
        <5>1. ov \in Seq(SessionUpTo(n)) /\ q \in Seq(SessionUpTo(n))
          BY <1>1, <3>2
        <5>2. /\ Len(ov) \in Nat /\ Len(q) \in Nat /\ Len(ov \o q) = Len(ov) + Len(q)
              /\ \A k \in 1..(Len(ov) + Len(q)) :
                   (ov \o q)[k] = IF k <= Len(ov) THEN ov[k] ELSE q[k - Len(ov)]
          BY <5>1, ConcatProperties, LenProperties
        <5> QED BY <5>2
      <4>2. ASSUME NEW k \in 1..Len(r)
            PROVE  \/ Items(r[k]) \subseteq QueueItems(q)
                   \/ \E m \in 1..Len(ov) : Items(r[k]) \subseteq Items(ov[m]) \cup QueueItems(q)
        <5> HIDE DEF q, ov, r
        <5>1. CASE k <= Len(ov)
          <6>1. k \in 1..Len(ov) /\ r[k] = ov[k]
            BY <4>1, <5>1
          <6> QED BY <6>1
        <5>2. CASE ~(k <= Len(ov))
          <6>1. k - Len(ov) \in 1..Len(q) /\ r[k] = q[k - Len(ov)]
            BY <4>1, <5>2
          <6> QED BY <6>1 DEF QueueItems
        <5> QED BY <5>1, <5>2
      <4> HIDE DEF q, ov, r
      <4>3. QueueItems(r) \subseteq QueueItems(ov) \cup QueueItems(q)
        BY <4>2, QueueWithin
      <4> QED BY <4>3 DEF r
    <3>5. Ahead(p)' = {}
      BY <3>1, QueueNone DEF Ahead
    <3>6. Late(p)' \subseteq QueueItems(ov) \cup QueueItems(ib)
      BY <3>1, <3>3, <3>4 DEF Late
    <3> QED BY <3>5, <3>6 DEF Late, Ahead
  <2>3. CASE AcceptOvertaken(p)
    <3> DEFINE m == Len(ov)
               q == SubSeq(ov, 1, m - 1)
    <3>1. /\ inbox'[p] = ib /\ overtaken'[p] = q /\ serving'[p] = ov[m] /\ ov # <<>>
      BY <2>3 DEF AcceptOvertaken
    <3>2. /\ m \in Nat \ {0} /\ m \in 1..m /\ Len(q) = m - 1
          /\ \A i \in 1..(m - 1) : q[i] = ov[i]
      BY <1>1, <3>1, LastOfQueue
    <3>3. QueueItems(q) \subseteq QueueItems(ov) \cup {}
      <4>0. \A i \in 1..(m - 1) : i \in 1..Len(ov)
        <5> HIDE DEF ov
        <5> QED BY <3>2
      <4>1. \A k \in 1..Len(q) : \E j \in 1..Len(ov) : Items(q[k]) \subseteq Items(ov[j]) \cup {}
        BY <3>2, <4>0
      <4> HIDE DEF q, ov
      <4> QED BY <4>1, QueueWithin
    <3>4. Items(ov[m]) \subseteq QueueItems(ov)
      BY <3>2 DEF QueueItems
    <3>5. Late(p)' \subseteq Late(p)
      BY <3>1, <3>3, <3>4 DEF Late
    <3> QED BY <3>1, <3>5 DEF Ahead
  <2> QED BY <1>9, <2>1, <2>2, <2>3 DEF Accept
<1>10. ASSUME NEW g \in Hosts, TakeFile(g)
       PROVE  Good
  <2>1. g = p
    BY <1>1, <1>2, <1>10 DEF TakeFile
  <2>2. /\ inbox' = inbox /\ overtaken' = overtaken /\ behind' = behind
        /\ serving'[p].files = Tail(sv.files) /\ sv.files # <<>>
    BY <1>10, <2>1 DEF TakeFile, SessionUpTo
  <2>3. sv.files \in Seq(Item(n))
    BY <1>1 DEF SessionUpTo
  <2>4. Items(serving'[p]) \subseteq Items(sv)
    <3> DEFINE fs == sv.files
               gs == serving'[p].files
    <3>1. /\ Len(gs) = Len(fs) - 1 /\ Len(fs) \in Nat
          /\ \A i \in 1..Len(gs) : gs[i] = fs[i + 1]
      <4>1. gs = Tail(fs) /\ fs # <<>> /\ fs \in Seq(Item(n))
        BY <2>2, <2>3
      <4> HIDE DEF fs, gs, n
      <4> QED BY <4>1, HeadTailProperties, LenProperties
    <3>2. \A i \in 1..Len(gs) : i + 1 \in 1..Len(fs)
      <4> HIDE DEF fs, gs
      <4> QED BY <3>1
    <3>3. \A i \in 1..Len(gs) : gs[i] \in {fs[j] : j \in 1..Len(fs)}
      <4> HIDE DEF fs, gs
      <4> QED BY <3>1, <3>2
    <3> QED BY <3>3 DEF Items
  <2> QED BY <2>2, <2>4 DEF Late, Ahead
<1>11. ASSUME NEW g \in Hosts, SessionEnds(g)
       PROVE  Good
  <2>1. CASE g = p
    <3>1. inbox' = inbox /\ overtaken' = overtaken /\ ~behind'[p]
      BY <1>11, <2>1 DEF SessionEnds
    <3> QED BY <3>1 DEF Late, Ahead
  <2>2. CASE g # p
    BY <1>3, <1>11, <2>2 DEF SessionEnds
  <2> QED BY <2>1, <2>2
<1>12. ASSUME NEW g \in Hosts, LinkBreaks(g)
       PROVE  Good
  <2>0. behind' = behind
    BY <1>12 DEF LinkBreaks
  <2>1. CASE g # p
    <3>1. serving'[p] = serving[p] /\ inbox'[p] = inbox[p] /\ overtaken'[p] = overtaken[p]
      BY <1>12, <2>1 DEF LinkBreaks
    <3> QED BY <1>3, <2>0, <3>1
  <2>2. ASSUME NEW s \in Cut(sv), serving' = [serving EXCEPT ![p] = s],
               UNCHANGED <<inbox, overtaken>>
        PROVE  Good
    <3>1. Items(serving'[p]) \subseteq Items(sv)
      BY <1>1, <2>2, ItemsCut
    <3> QED BY <2>0, <2>2, <3>1 DEF Late, Ahead
  <2>3. ASSUME NEW q \in Seq(SessionUpTo(n)), NEW k \in 1..Len(q), NEW s \in Cut(q[k])
        PROVE  QueueItems([q EXCEPT ![k] = s]) \subseteq QueueItems(q)
    <3> HIDE DEF n
    <3>1. q[k] \in SessionUpTo(n)
      BY ElementOfSeq
    <3>2. Items(s) \subseteq Items(q[k]) \cup {} /\ s \in SessionUpTo(n)
      BY <1>1, <3>1, ItemsCut, CutIsSession
    <3>3. QueueItems([q EXCEPT ![k] = s]) \subseteq QueueItems(q) \cup {}
      BY <1>1, <3>2, QueueReplaced
    <3> QED BY <3>3
  <2>4. ASSUME NEW k \in 1..Len(ib), NEW s \in Cut(ib[k]),
               inbox' = [inbox EXCEPT ![p][k] = s], UNCHANGED <<serving, overtaken>>
        PROVE  Good
    <3>1. QueueItems(inbox'[p]) \subseteq QueueItems(ib)
      <4>1. inbox'[p] = [ib EXCEPT ![k] = s]
        BY <2>4
      <4>2. QueueItems([ib EXCEPT ![k] = s]) \subseteq QueueItems(ib)
        <5> HIDE DEF ib, n
        <5> QED BY <1>1, <2>3
      <4> QED BY <4>1, <4>2
    <3> QED BY <2>0, <2>4, <3>1 DEF Late, Ahead
  <2>5. ASSUME NEW k \in 1..Len(ov), NEW s \in Cut(ov[k]),
               overtaken' = [overtaken EXCEPT ![p][k] = s], UNCHANGED <<serving, inbox>>
        PROVE  Good
    <3>1. QueueItems(overtaken'[p]) \subseteq QueueItems(ov)
      <4>1. overtaken'[p] = [ov EXCEPT ![k] = s]
        BY <2>5
      <4>2. QueueItems([ov EXCEPT ![k] = s]) \subseteq QueueItems(ov)
        <5> HIDE DEF ov, n
        <5> QED BY <1>1, <2>3
      <4> QED BY <4>1, <4>2
    <3> QED BY <2>0, <2>5, <3>1 DEF Late, Ahead
  <2>6. CASE g = p
    <3>1. \/ \E s \in Cut(sv) : serving' = [serving EXCEPT ![p] = s] /\ UNCHANGED <<inbox, overtaken>>
          \/ \E k \in 1..Len(ib) : \E s \in Cut(ib[k]) :
               inbox' = [inbox EXCEPT ![p][k] = s] /\ UNCHANGED <<serving, overtaken>>
          \/ \E k \in 1..Len(ov) : \E s \in Cut(ov[k]) :
               overtaken' = [overtaken EXCEPT ![p][k] = s] /\ UNCHANGED <<serving, inbox>>
      BY <1>12, <2>6 DEF LinkBreaks
    <3> HIDE DEF Good, ib, ov, sv
    <3> QED BY <2>2, <2>4, <2>5, <3>1
  <2> QED BY <2>1, <2>6
<1>13. ASSUME NEW g \in Hosts, Crash(g)
       PROVE  Good
  <2>1. CASE g = p
    <3>1. inbox'[p] = <<>> /\ overtaken'[p] = <<>> /\ ~behind'[p]
      BY <1>2, <1>13, <2>1 DEF Crash
    <3> QED BY <3>1, QueueNone DEF Late, Ahead
  <2>2. CASE g = a
    <3>0. overtaken'[p] = overtaken[p] /\ behind'[p] = behind[p]
      BY <1>1, <1>13, <2>2 DEF Crash
    <3>1. CASE up[a] /\ Newer(p)
      <4>1. Len(ib) \in 1..Len(ib) /\ Latest(p) = ib[Len(ib)]
        BY <1>1, <3>1, LatestIsSession DEF Latest
      <4>2. PICK s \in Cut(Latest(p)) :
              /\ inbox' = [inbox EXCEPT ![a] = <<>>, ![p][Len(inbox[p])] = s]
              /\ serving' = [serving EXCEPT ![a] = NoSession]
        BY <1>1, <1>13, <2>2, <3>1 DEF Crash
      <4>3. inbox'[p] = [ib EXCEPT ![Len(ib)] = s] /\ serving'[p] = serving[p]
        BY <1>1, <4>2
      <4>4. Items(s) \subseteq Items(ib[Len(ib)]) \cup {} /\ s \in SessionUpTo(n)
        <5>1. Latest(p) \in SessionUpTo(n)
          BY LatestIsSession
        <5> HIDE DEF n, ib
        <5> QED BY <1>1, <4>1, <4>2, <5>1, ItemsCut, CutIsSession
      <4>5. QueueItems([ib EXCEPT ![Len(ib)] = s]) \subseteq QueueItems(ib) \cup {}
        <5> HIDE DEF n, ib
        <5> QED BY <1>1, <4>1, <4>4, QueueReplaced
      <4>6. QueueItems(inbox'[p]) \subseteq QueueItems(ib)
        BY <4>3, <4>5
      <4> QED BY <3>0, <4>3, <4>6 DEF Late, Ahead
    <3>2. CASE up[a] /\ ~Newer(p)
      <4>1. ~behind[p]
        BY <1>1, <3>2, UpIsLatest
      <4>2. inbox'[p] = inbox[p]
        BY <1>1, <1>13, <2>2, <3>2 DEF Crash
      <4> QED BY <3>0, <4>1, <4>2 DEF Late, Ahead
    <3>3. CASE ~up[a]
      <4>1. serving'[p] = serving[p] /\ inbox'[p] = inbox[p]
        BY <1>1, <1>13, <2>2, <3>3 DEF Crash
      <4> QED BY <1>3, <3>0, <4>1
    <3> QED BY <3>1, <3>2, <3>3
  <2> QED BY <1>1, <2>1, <2>2
<1> QED BY <1>4, <1>5, <1>6, <1>8, <1>9, <1>10, <1>11, <1>12, <1>13
        DEF Next, Environment, Main, Server

\* An edit makes the highest version of all.
LEMMA NewestIsHighest ==
  ASSUME NEW n \in Nat, NEW dh \in [Files -> 0..n], NEW f \in Files,
         NEW dg, dg = [dh EXCEPT ![f] = n + 1]
  PROVE  dg \in [Files -> Nat] /\ \A k \in Files : dh[k] <= dg[k]
<1>1. \A k \in Files : dh[k] \in Nat /\ dh[k] <= n
  OBVIOUS
<1>2. \A k \in Files : dg[k] = IF k = f THEN n + 1 ELSE dh[k]
  OBVIOUS
<1>3. dg = [k \in Files |-> dg[k]]
  OBVIOUS
<1>4. \A k \in Files : dg[k] \in Nat /\ dh[k] <= dg[k]
  BY <1>1, <1>2
<1> QED BY <1>3, <1>4

\* One machine uploads: what the other one has, and what is on its way there
\* without having been overtaken, rises.
LEMMA FollowStep ==
  ASSUME Types, LineInv, [Next]_vars, NEW p \in Hosts,
         Editors \subseteq {Peer(p)}, Silent(p), Line(p), Stale(p)
  PROVE  /\ Line(p)'
         /\ \A f \in Files : \/ desk'[p][f] >= desk[p][f]
                             \/ behind[p] \/ desk'[p][f] = Partial
<1> DEFINE a == Peer(p)
           Good == /\ Line(p)'
                   /\ \A f \in Files : \/ desk'[p][f] >= desk[p][f]
                                       \/ behind[p] \/ desk'[p][f] = Partial
<1> USE DEF Types, ThreadTypes, SessionTypes, DiskTypes
<1>1. /\ a \in Hosts /\ p # a /\ Peer(a) = p /\ \A g \in Hosts : g = a \/ g = p
      /\ SessionTypes
  BY TwoHosts
<1>2. /\ main[p] \in {"off", "shake", "paired", "wait"} /\ ~event[p] /\ ~up[p]
      /\ inbox[a] = <<>> /\ overtaken[a] = <<>> /\ serving[a].files = <<>>
  BY DEF Silent
<1>3. ASSUME desk' = desk, serving'[p] = serving[p], inbox'[p] = inbox[p],
             behind'[p] = behind[p]
      PROVE  Good
  BY <1>3, LineKept DEF Line, Current
<1>4. CASE Pair \/ Tick \/ UNCHANGED vars
  BY <1>3, <1>4 DEF Pair, Tick, vars, serverVars, diskVars
<1>5. ASSUME NEW g \in Hosts, Click(g)
      PROVE  Good
  BY <1>3, <1>5 DEF Click, serverVars, diskVars
<1>6. ASSUME NEW g \in Hosts, NEW f \in Files, Edit(g, f)
      PROVE  Good
  <2>1. g = a
    BY <1>1, <1>6 DEF Edit
  <2>2. /\ UNCHANGED <<serving, inbox, behind>>
        /\ desk' = [desk EXCEPT ![a][f] = edits + 1]
    BY <1>6, <2>1 DEF Edit, serverVars
  <2>3. desk'[p] = desk[p] /\ desk'[a] = [desk[a] EXCEPT ![f] = edits + 1]
    BY <1>1, <2>2
  <2> DEFINE n == edits
             sv == Current(p)
             ib == inbox[p]
             dp == desk[p]
             dh == desk[a]
             dg == desk'[a]
  <2>4. n \in Nat /\ sv \in SessionUpTo(n) /\ ib \in Seq(SessionUpTo(n))
    BY CurrentIsSession
  <2>5. dp \in [Files -> Nat] /\ dh \in [Files -> 0..n] /\ dh \in [Files -> Nat]
    <3>1. dp \in [Files -> 0..n] /\ dh \in [Files -> 0..n]
      BY <1>1
    <3> HIDE DEF dp, dh, n
    <3> QED BY <2>4, <3>1
  <2>6. dg \in [Files -> Nat] /\ \A k \in Files : dh[k] <= dg[k]
    <3> HIDE DEF n, dh, dg
    <3>1. dg = [dh EXCEPT ![f] = n + 1]
      BY <2>3 DEF n, dh, dg
    <3> QED BY <2>4, <2>5, <3>1, NewestIsHighest
  <2>7. Rises(sv, ib, dp, dh)
    BY DEF Line
  <2>8. Rises(sv, ib, dp, dg)
    <3> HIDE DEF n, sv, ib, dp, dh, dg
    <3> QED BY <2>4, <2>5, <2>6, <2>7, RisesToNew
  <2>9. \A k \in Files : desk'[p][k] >= desk[p][k]
    BY <2>3, <2>5
  <2>10. Current(p)' = Current(p) /\ inbox'[p] = inbox[p]
    BY <2>2 DEF Current
  <2> QED BY <2>3, <2>8, <2>9, <2>10 DEF Line
<1>7. ASSUME NEW g \in Hosts,
             \/ Start(g) \/ HandshakeFails(g) \/ Serve(g) \/ Wait(g) \/ Reset(g)
             \/ ConnectFails(g) \/ Collect(g) \/ SendFails(g) \/ AllSent(g) \/ Stamp(g)
             \/ Update(g) \/ Wake(g)
      PROVE  Good
  <2>1. UNCHANGED <<desk, inbox, serving, behind>>
    BY <1>7 DEF Start, HandshakeFails, Serve, Wait, Reset, ConnectFails, Collect,
         SendFails, AllSent, Stamp, Update, Wake, serverVars, diskVars
  <2> QED BY <1>3, <2>1
<1>8. ASSUME NEW g \in Hosts, Connect(g) \/ SendFile(g) \/ Close(g)
      PROVE  Good
  <2>1. g = a
    BY <1>1, <1>2, <1>8 DEF Connect, SendFile, Close
  <2>2. desk' = desk /\ edits' = edits
    BY <1>8 DEF Connect, SendFile, Close, diskVars, counters
  <2>3. CASE Connect(a)
    <3> DEFINE new == [files |-> <<>>, state |-> "open"]
               n == edits
               sv == Current(p)
               ib == inbox[p]
    <3>1. Current(p)' = sv /\ inbox'[p] = Append(ib, new)
      BY <1>1, <2>3 DEF Connect, Current
    <3>2. new \in SessionUpTo(n) /\ new.files = <<>>
      BY FreshSessions
    <3>3. n \in Nat /\ sv \in SessionUpTo(n) /\ ib \in Seq(SessionUpTo(n))
      BY CurrentIsSession
    <3>4. Rises(sv, ib, desk[p], desk[a])
      BY DEF Line
    <3> HIDE DEF new, n, sv, ib
    <3>5. Rises(sv, Append(ib, new), desk[p], desk[a])
      BY <3>2, <3>3, <3>4, RisesWhenJoined
    <3> QED BY <2>2, <3>1, <3>5, LineKept
  <2>4. CASE SendFile(a)
    <3>1. PICK f \in todo[a] :
            SetLatest(p, [Latest(p) EXCEPT !.files =
                            Append(@, [file |-> f, ver |-> desk[a][f]])])
      BY <1>1, <2>4 DEF SendFile
    <3>2. f \in Files /\ desk[a][f] > 0
      BY <1>1
    <3>3. up[a] /\ UNCHANGED <<overtaken, behind>>
      BY <2>4 DEF SendFile
    <3>4. Newer(p) \/ ~behind[p]
      BY <1>1, <3>3, UpIsLatest
    <3>5. Rises(Current(p)', inbox'[p], desk[p], desk[a])
      BY <2>2, <3>1, <3>2, <3>3, <3>4, LineSent
    <3> QED BY <2>2, <3>5, LineKept
  <2>5. CASE Close(a)
    <3>1. CASE up[a]
      <4>1. /\ SetLatest(p, [Latest(p) EXCEPT !.state = "ended"])
            /\ UNCHANGED <<overtaken, behind>>
        BY <1>1, <2>5, <3>1 DEF Close
      <4>2. Newer(p) \/ ~behind[p]
        BY <1>1, <3>1, UpIsLatest
      <4>3. Rises(Current(p)', inbox'[p], desk[p], desk[a])
        BY <2>2, <4>1, <4>2, LineClosed
      <4> QED BY <2>2, <4>3, LineKept
    <3>2. CASE ~up[a]
      BY <1>3, <2>2, <2>5, <3>2 DEF Close
    <3> QED BY <3>1, <3>2
  <2> QED BY <1>8, <2>1, <2>3, <2>4, <2>5
<1>9. ASSUME NEW g \in Hosts, Accept(g)
      PROVE  Good
  <2>1. g = p /\ desk' = desk
    BY <1>1, <1>2, <1>9 DEF Accept, AcceptNewest, AcceptOvertaken, Newer, diskVars
  <2>2. CASE AcceptNewest(p)
    <3> DEFINE n == edits
               sv == Current(p)
               ib == inbox[p]
    <3>1. ib # <<>> /\ inbox'[p] = <<>> /\ Current(p)' = ib[Len(ib)]
      BY <2>2 DEF AcceptNewest, Newer, Current
    <3>2. n \in Nat /\ sv \in SessionUpTo(n) /\ ib \in Seq(SessionUpTo(n))
      BY CurrentIsSession
    <3>3. Rises(sv, ib, desk[p], desk[a])
      BY DEF Line
    <3>4. Rises(ib[Len(ib)], <<>>, desk[p], desk[a])
      <4> HIDE DEF n, sv, ib
      <4> QED BY <3>1, <3>2, <3>3, RisesWhenAccepted
    <3>5. Rises(Current(p)', inbox'[p], desk[p], desk[a])
      BY <3>1, <3>4
    <3> QED BY <2>1, <3>5, LineKept
  <2>3. CASE AcceptOvertaken(p)
    <3>1. Current(p)' = NoSession /\ inbox'[p] = inbox[p]
      BY <2>3 DEF AcceptOvertaken, Current
    <3>2. Rises(Current(p)', inbox'[p], desk[p], desk[a])
      BY <3>1, LineCut
    <3> QED BY <2>1, <3>2, LineKept
  <2> QED BY <1>9, <2>1, <2>2, <2>3 DEF Accept
<1>10. ASSUME NEW g \in Hosts, TakeFile(g)
       PROVE  Good
  <2>1. g = p
    BY <1>1, <1>2, <1>10 DEF TakeFile
  <2> QED BY <1>10, <2>1, LineTaken
<1>11. ASSUME NEW g \in Hosts, SessionEnds(g)
       PROVE  Good
  <2>1. /\ desk' = desk /\ inbox' = inbox
        /\ serving' = [serving EXCEPT ![g] = NoSession]
        /\ behind' = [behind EXCEPT ![g] = FALSE]
    BY <1>11 DEF SessionEnds, diskVars
  <2>2. CASE g = p
    <3>1. Current(p)' = NoSession /\ inbox'[p] = inbox[p]
      BY <2>1, <2>2 DEF Current
    <3>2. Rises(Current(p)', inbox'[p], desk[p], desk[a])
      BY <3>1, LineCut
    <3> QED BY <2>1, <3>2, LineKept
  <2>3. CASE g # p
    BY <1>3, <2>1, <2>3
  <2> QED BY <2>2, <2>3
<1>12. ASSUME NEW g \in Hosts, LinkBreaks(g)
       PROVE  Good
  <2>1. desk' = desk /\ behind' = behind
    BY <1>12 DEF LinkBreaks, diskVars
  <2>2. ASSUME NEW s \in Cut(serving[p]), serving' = [serving EXCEPT ![p] = s],
               inbox' = inbox
        PROVE  Good
    <3>1. CASE behind[p]
      <4>1. Current(p)' = Current(p) /\ inbox'[p] = inbox[p]
        BY <2>1, <2>2, <3>1 DEF Current
      <4> QED BY <2>1, <4>1, LineKept DEF Line
    <3>2. CASE ~behind[p]
      <4>1. Current(p)' \in Cut(Current(p)) /\ inbox'[p] = inbox[p]
        BY <2>1, <2>2, <3>2 DEF Current
      <4>2. Rises(Current(p)', inbox'[p], desk[p], desk[a])
        BY <4>1, LineCut
      <4> QED BY <2>1, <4>2, LineKept
    <3> QED BY <3>1, <3>2
  <2>3. ASSUME NEW m \in 1..Len(inbox[p]), NEW s \in Cut(inbox[p][m]),
               inbox' = [inbox EXCEPT ![p][m] = s], serving' = serving
        PROVE  Good
    <3>1. inbox'[p] = [inbox[p] EXCEPT ![m] = s] /\ Current(p)' = Current(p)
      BY <2>1, <2>3 DEF Current
    <3>2. Rises(Current(p)', inbox'[p], desk[p], desk[a])
      BY <3>1, LineCut
    <3> QED BY <2>1, <3>2, LineKept
  <2>4. CASE g = p
    <3>1. \/ \E s \in Cut(serving[p]) : serving' = [serving EXCEPT ![p] = s] /\ inbox' = inbox
          \/ \E k \in 1..Len(inbox[p]) : \E s \in Cut(inbox[p][k]) :
               inbox' = [inbox EXCEPT ![p][k] = s] /\ serving' = serving
          \/ serving' = serving /\ inbox' = inbox
      BY <1>12, <2>4 DEF LinkBreaks
    <3>2. serving' = serving /\ inbox' = inbox => Good
      BY <1>3, <2>1
    <3> HIDE DEF Good
    <3> QED BY <2>2, <2>3, <3>1, <3>2
  <2>5. CASE g # p
    <3>1. serving'[p] = serving[p] /\ inbox'[p] = inbox[p]
      BY <1>12, <2>5 DEF LinkBreaks
    <3> QED BY <1>3, <2>1, <3>1
  <2> QED BY <2>4, <2>5
<1>13. ASSUME NEW g \in Hosts, Crash(g)
       PROVE  Good
  <2>1. desk' = desk
    BY <1>13 DEF Crash, diskVars
  <2>2. CASE g = p
    <3>1. Current(p)' = NoSession /\ inbox'[p] = <<>>
      BY <1>2, <1>13, <2>2 DEF Crash, Current
    <3>2. \A f \in Files : desk[p][f] <= desk[a][f]
      BY DEF Line, Rises
    <3>3. Rises(NoSession, <<>>, desk[p], desk[a])
      BY <3>2, RisesWhenEmpty
    <3>4. Rises(Current(p)', inbox'[p], desk[p], desk[a])
      BY <3>1, <3>3
    <3> QED BY <2>1, <3>4, LineKept
  <2>3. CASE g = a
    <3>0. behind'[p] = behind[p]
      BY <1>1, <1>13, <2>3 DEF Crash
    <3>1. CASE up[a] /\ Newer(p)
      <4>1. Len(inbox[p]) \in 1..Len(inbox[p]) /\ Latest(p) = inbox[p][Len(inbox[p])]
        BY <1>1, <3>1, LatestIsSession DEF Latest
      <4>2. PICK s \in Cut(Latest(p)) :
              /\ inbox' = [inbox EXCEPT ![a] = <<>>, ![p][Len(inbox[p])] = s]
              /\ serving' = [serving EXCEPT ![a] = NoSession]
        BY <1>1, <1>13, <2>3, <3>1 DEF Crash
      <4>3. inbox'[p] = [inbox[p] EXCEPT ![Len(inbox[p])] = s] /\ Current(p)' = Current(p)
        BY <1>1, <3>0, <4>2 DEF Current
      <4>4. Rises(Current(p)', inbox'[p], desk[p], desk[a])
        BY <4>1, <4>3, LineCut
      <4> QED BY <2>1, <4>4, LineKept
    <3>2. CASE up[a] /\ ~Newer(p)
      <4>1. PICK s \in Cut(Latest(p)) :
              /\ serving' = [serving EXCEPT ![a] = NoSession, ![p] = s]
              /\ inbox' = [inbox EXCEPT ![a] = <<>>]
        BY <1>1, <1>13, <2>3, <3>2 DEF Crash
      <4>2. ~behind[p]
        BY <1>1, <3>2, UpIsLatest
      <4>3. Current(p)' \in Cut(Current(p)) /\ inbox'[p] = inbox[p]
        BY <1>1, <3>0, <3>2, <4>1, <4>2 DEF Latest, Current
      <4>4. Rises(Current(p)', inbox'[p], desk[p], desk[a])
        BY <4>3, LineCut
      <4> QED BY <2>1, <4>4, LineKept
    <3>3. CASE ~up[a]
      <4>1. serving'[p] = serving[p] /\ inbox'[p] = inbox[p]
        BY <1>1, <1>13, <2>3, <3>3 DEF Crash
      <4> QED BY <1>3, <2>1, <3>0, <4>1
    <3> QED BY <3>1, <3>2, <3>3
  <2> QED BY <1>1, <2>2, <2>3
<1> QED BY <1>4, <1>5, <1>6, <1>7, <1>8, <1>9, <1>10, <1>11, <1>12, <1>13
        DEF Next, Environment, Main, Server

\* The desktop a machine uploads from changes by its user's hand alone.
LEMMA LeaderStep ==
  ASSUME Types, [Next]_vars, NEW p \in Hosts, Silent(p)
  PROVE  \/ desk'[Peer(p)] = desk[Peer(p)]
         \/ /\ Peer(p) \in Editors
            /\ \E f \in Files : desk'[Peer(p)] = [desk[Peer(p)] EXCEPT ![f] = edits + 1]
<1> DEFINE a == Peer(p)
           Good == \/ desk'[a] = desk[a]
                   \/ /\ a \in Editors
                      /\ \E f \in Files : desk'[a] = [desk[a] EXCEPT ![f] = edits + 1]
<1> USE DEF Types, DiskTypes
<1>1. a \in Hosts /\ serving[a].files = <<>>
  BY TwoHosts DEF Silent
<1>2. CASE Pair \/ Tick \/ UNCHANGED vars
  BY <1>2 DEF Pair, Tick, vars, diskVars
<1>3. ASSUME NEW g \in Hosts, NEW f \in Files, Edit(g, f)
      PROVE  Good
  <2>1. g \in Editors /\ desk' = [desk EXCEPT ![g][f] = edits + 1]
    BY <1>3 DEF Edit
  <2>2. CASE g = a
    <3>1. desk'[a] = [desk[a] EXCEPT ![f] = edits + 1]
      BY <1>1, <2>1, <2>2
    <3> QED BY <2>1, <2>2, <3>1
  <2>3. CASE g # a
    BY <1>1, <2>1, <2>3
  <2> QED BY <2>2, <2>3
<1>4. ASSUME NEW g \in Hosts, TakeFile(g)
      PROVE  Good
  <2>1. g # a
    BY <1>1, <1>4 DEF TakeFile
  <2>2. desk' = desk \/ \E f, v : desk' = [desk EXCEPT ![g][f] = v]
    BY <1>4 DEF TakeFile, diskVars
  <2> QED BY <1>1, <2>1, <2>2
<1>5. ASSUME NEW g \in Hosts,
             \/ Start(g) \/ HandshakeFails(g) \/ Click(g) \/ LinkBreaks(g) \/ Crash(g)
             \/ Accept(g) \/ SessionEnds(g) \/ Main(g)
      PROVE  Good
  <2>1. desk' = desk
    BY <1>5 DEF Start, HandshakeFails, Click, LinkBreaks, Crash, Accept, SessionEnds, Main,
       Serve, Wait, Reset, Connect, ConnectFails, Collect, SendFile, SendFails, AllSent,
       Close, Stamp, Update, Wake, diskVars
  <2> QED BY <2>1
<1> QED BY <1>2, <1>3, <1>4, <1>5 DEF Next, Environment, Server

\* What was overtaken stays below what is to come.
LEMMA StaleStep ==
  ASSUME Types, LineInv, [Next]_vars, NEW p \in Hosts, Silent(p), Line(p), Stale(p)
  PROVE  Stale(p)'
<1> DEFINE n == edits
           dh == desk[Peer(p)]
           dg == desk'[Peer(p)]
<1>1. n \in Nat /\ dh \in [Files -> 0..n] /\ dh \in [Files -> Nat]
  BY TwoHosts DEF Types, DiskTypes
<1>2. dg = dh \/ \E f \in Files : dg = [dh EXCEPT ![f] = n + 1]
  BY LeaderStep
<1> HIDE DEF n, dh, dg
<1>3. dg \in [Files -> Nat] /\ \A f \in Files : dh[f] <= dg[f]
  <2>1. CASE dg = dh
    BY <1>1, <2>1
  <2>2. ASSUME NEW f \in Files, dg = [dh EXCEPT ![f] = n + 1]
        PROVE  dg \in [Files -> Nat] /\ \A k \in Files : dh[k] <= dg[k]
    BY <1>1, <2>2, NewestIsHighest
  <2> QED BY <1>2, <2>1, <2>2
<1> QED BY <1>3, OvertakenStep, StaleOn DEF dh, dg

\* At the start both desktops are equal and nothing is on its way.
LEMMA FollowInit ==
  ASSUME NEW p \in Hosts, Init
  PROVE  Silent(p) /\ Line(p) /\ Stale(p)
<1>1. Peer(p) \in Hosts
  BY TwoHosts
<1>2. Silent(p)
  BY <1>1 DEF Init, Silent, NoSession
<1>3. \A f \in Files : desk[p][f] = Old /\ desk[Peer(p)][f] = Old
  BY <1>1 DEF Init
<1>4. \A f \in Files : desk[p][f] <= desk[Peer(p)][f]
  BY <1>3, BoundsAssumption
<1>5. Current(p) = NoSession /\ inbox[p] = <<>> /\ overtaken[p] = <<>> /\ ~behind[p]
  BY DEF Init, Current
<1>6. Stale(p)
  BY <1>5, QueueNone DEF Stale, Below, Late
<1> QED BY <1>2, <1>4, <1>5, <1>6, RisesWhenEmpty DEF Line

\* When one user alone edits and clicks, a file of the other machine goes back to
\* an earlier version only through an upload that a later one has overtaken, or
\* to a part of one by a write that fails, whatever breaks, crashes or starts
\* again: a file is read from the sender's desktop as it is sent
\* (sync_dll.cpp:281), a lost connection takes away the end of a session, and
\* what is accepted newest first (src/udt4/src/api.cpp:678) leaves the follower
\* with versions below all that are still to come.  A follower that clicks is
\* left out: it may send an old version back.
THEOREM FollowerGoesBackOnlyIfOvertaken ==
  ASSUME NEW a \in Hosts, Editors \subseteq {a}, Clickers \subseteq {a}
  PROVE  Spec => GoesBackOnlyIfOvertaken
<1> DEFINE p == Peer(a)
           Follows == LineInv /\ Silent(p) /\ Line(p) /\ Stale(p)
           Onward == \A h \in Hosts \ Editors : \A f \in Files :
                       desk'[h][f] < desk[h][f] => behind[h] \/ desk'[h][f] = Partial
<1>1. p \in Hosts /\ Peer(p) = a /\ \A h \in Hosts : h = a \/ h = p
  BY TwoHosts
<1>2. Init => Follows
  <2> HIDE DEF p
  <2> QED BY <1>1, FollowInit, LineInit
<1>3. ASSUME Types, Follows, [Next]_vars
      PROVE  Follows'
  <2> HIDE DEF p
  <2>1. Editors \subseteq {Peer(p)} /\ Clickers \subseteq {Peer(p)}
    BY <1>1
  <2> QED BY <1>1, <1>3, <2>1, LineStep, SilentStep, FollowStep, StaleStep
<1>4. ASSUME Types, Follows, [Next]_vars
      PROVE  Onward
  <2> HIDE DEF p
  <2>1. Editors \subseteq {Peer(p)}
    BY <1>1
  <2>2. \A f \in Files : desk'[p][f] >= desk[p][f] \/ behind[p] \/ desk'[p][f] = Partial
    BY <1>1, <1>4, <2>1, FollowStep
  <2>3. DiskTypes'
    BY <1>4, DiskStep
  <2>4. \A h \in Hosts : \A f \in Files : desk[h][f] \in Nat /\ desk'[h][f] \in Nat
    <3>1. DiskTypes
      BY <1>4 DEF Types
    <3>2. \A h \in Hosts : \A f \in Files : desk[h][f] \in Nat
      BY <3>1 DEF DiskTypes
    <3>3. \A h \in Hosts : \A f \in Files : desk'[h][f] \in Nat
      BY <2>3 DEF DiskTypes
    <3> QED BY <3>2, <3>3
  <2>5. a \notin Editors => desk'[a] = desk[a]
    BY <1>1, <1>4, LeaderStep
  <2>6. \A f \in Files : desk'[p][f] < desk[p][f] => behind[p] \/ desk'[p][f] = Partial
    BY <1>1, <2>2, <2>4
  <2>7. a \notin Editors => \A f \in Files : ~(desk'[a][f] < desk[a][f])
    BY <1>1, <2>4, <2>5
  <2> QED BY <1>1, <2>6, <2>7
<1>5. Types /\ Follows /\ [Next]_vars => Follows'
  BY <1>3
<1>6. Types /\ Follows /\ [Next]_vars => [Onward]_vars
  BY <1>4
<1> HIDE DEF p, Follows, Onward
<1>7. Spec => []Types
  BY TypesInvariant
<1>8. Spec => [][Onward]_vars
  BY <1>2, <1>5, <1>6, <1>7, PTL DEF Spec
<1> QED BY <1>8 DEF GoesBackOnlyIfOvertaken, Onward
=============================================================================
