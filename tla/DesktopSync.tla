---------------------------- MODULE DesktopSync ----------------------------
(***************************************************************************)
(* Two machines running the whole program: wmain of                        *)
(* src/src/desktopsync_main.cpp on each of them, the receiving thread and  *)
(* the uploads of src/src/sync_dll.cpp between them, the desktops, the     *)
(* clicks and the tray icon.                                               *)
(*                                                                         *)
(* One upload is modelled file by file; SyncTransfer has what happens      *)
(* inside a file, P2PHandshake how the machines find each other.  A user   *)
(* may edit files and click at any time, on either machine; the program    *)
(* may be killed and started again.                                        *)
(***************************************************************************)
EXTENDS Naturals, Sequences, FiniteSets

CONSTANTS
  Hosts,      \* the two machines
  Files,      \* file names
  Clickers,   \* machines whose user clicks
  Editors,    \* machines whose user edits files
  NoHost,     \* no machine
  FileEpoch,  \* how far the clock of file times is ahead of that of NowSec
  Window,     \* files the transport accepts beyond what the receiver took
  Old,        \* version every file has, on both machines, to begin with
  MaxClock,   \* bound: readings of the clock
  MaxEdits,   \* bound: edits
  MaxClicks,  \* bound: clicks, both machines together
  MaxStarts,  \* bound: starts of the program on each machine
  MaxFaults   \* bound: things that go wrong

ASSUME HostsAssumption ==
  /\ \E a, b \in Hosts : a # b /\ Hosts = {a, b}
  /\ NoHost \notin Hosts
  /\ Clickers \subseteq Hosts
  /\ Editors \subseteq Hosts

\* last_write_time() counts from 1601 in the runtime the program is built with
\* (.github/workflows/build.yml), NowSec() from 1970.
ASSUME ClockAssumption ==
  /\ MaxClock \in Nat
  /\ FileEpoch \in Nat
  /\ FileEpoch > MaxClock

ASSUME BoundsAssumption ==
  /\ Window \in Nat \ {0}
  /\ Old \in Nat \ {1}
  /\ MaxEdits \in Nat
  /\ MaxClicks \in Nat
  /\ MaxStarts \in Nat
  /\ MaxFaults \in Nat

VARIABLES
  main,      \* main[h]: where the main thread is
  ok,        \* ok[h]: what SyncUploadOnce returned
  event,     \* event[h]: g_triggerEvent is set
  todo,      \* todo[h]: files of the upload under way not sent yet
  up,        \* up[h]: the connection of that upload is usable
  server,    \* server[h]: "off", "accept" or "serve"
  serving,   \* serving[h]: the session being served, if any
  overtaken, \* overtaken[h]: sessions waiting that are older than one accepted
  inbox,     \* inbox[h]: the other sessions waiting; both in order of connecting
  behind,    \* behind[h]: the session being served was overtaken
  tray,      \* tray[h]: what UpdateTray was last told
  desk,      \* desk[h][f]: version of f, 0 when there is none, Partial for a
             \* file that a failed write left empty or cut
  mtime,     \* mtime[h][f]: when f was last written
  lastSync,  \* lastSync[h]: cfg.lastSync
  ini,       \* ini[h]: last_sync in desktopsync.ini
  clock,     \* what NowSec() returns
  edits,     \* the highest version so far
  clicks, starts, faults,   \* counters, for the bounds
  owed,      \* owed[h]: a click that no attempt to upload followed yet
  solo,      \* the machine whose latest upload nothing interfered with
  wanted     \* wanted[h][f]: version of f at the latest click on h

mainVars == <<main, ok, event, todo, up>>
serverVars == <<server, serving, overtaken, inbox, behind>>
diskVars == <<desk, mtime>>
syncVars == <<lastSync, ini>>
history == <<owed, solo, wanted>>
counters == <<clock, edits, clicks, starts, faults>>
vars == <<mainVars, serverVars, tray, diskVars, syncVars, counters, history>>

Partial == 1

Peer(h) == CHOOSE p \in Hosts : p # h

TrayStates == {"Disconnected", "ConnectedIdle", "Uploading", "Downloading",
               "Error", "Completed"}

\* A session: the files on their way, in order, and whether more will come.
Session == [files : Seq([file : Files, ver : Nat]),
            state : {"open", "ended", "broken"}]
NoSession == [files |-> <<>>, state |-> "broken"]

Looping(h) == main[h] \notin {"off", "shake", "paired"}

Report(h, s) == tray' = [tray EXCEPT ![h] = s]
Goto(h, l) == main' = [main EXCEPT ![h] = l]

\* Something goes wrong; then no upload counts as undisturbed.
Fault == faults < MaxFaults /\ faults' = faults + 1 /\ solo' = NoHost
NoFault == UNCHANGED <<faults, solo>>

Init ==
  /\ main = [h \in Hosts |-> "off"]
  /\ ok = [h \in Hosts |-> FALSE]
  /\ event = [h \in Hosts |-> FALSE]
  /\ todo = [h \in Hosts |-> {}]
  /\ up = [h \in Hosts |-> FALSE]
  /\ server = [h \in Hosts |-> "off"]
  /\ serving = [h \in Hosts |-> NoSession]
  /\ overtaken = [h \in Hosts |-> <<>>]
  /\ inbox = [h \in Hosts |-> <<>>]
  /\ behind = [h \in Hosts |-> FALSE]
  /\ tray = [h \in Hosts |-> "Disconnected"]
  /\ desk = [h \in Hosts |-> [f \in Files |-> Old]]
  /\ mtime = [h \in Hosts |-> [f \in Files |-> 0]]
  /\ lastSync = [h \in Hosts |-> 0]
  /\ ini = [h \in Hosts |-> 0]
  /\ clock = 0
  /\ edits = Old + 1
  /\ clicks = 0
  /\ starts = [h \in Hosts |-> 0]
  /\ faults = 0
  /\ owed = [h \in Hosts |-> FALSE]
  /\ solo = NoHost
  /\ wanted = [h \in Hosts |-> [f \in Files |-> 0]]

-----------------------------------------------------------------------------
(* The session h's upload goes through is the latest one of its peer: the  *)
(* last one waiting, or the one being served when none is newer.           *)

Newer(p) == inbox[p] # <<>>
Latest(p) == IF Newer(p) THEN inbox[p][Len(inbox[p])]
             ELSE IF behind[p] THEN NoSession ELSE serving[p]

SetLatest(p, s) ==
  IF Newer(p)
  THEN inbox' = [inbox EXCEPT ![p][Len(inbox[p])] = s] /\ UNCHANGED serving
  ELSE serving' = [serving EXCEPT ![p] = s] /\ UNCHANGED inbox

\* Parts of a session that arrive when the connection is lost.
Cut(s) == {[files |-> SubSeq(s.files, 1, n), state |-> "broken"] :
             n \in 0..Len(s.files)}

-----------------------------------------------------------------------------
(* wmain up to its loop *)

\* LoadOrInitConfig reads last_sync, or resets it together with the layout.
Start(h) ==
  /\ main[h] = "off"
  /\ starts[h] < MaxStarts
  /\ starts' = [starts EXCEPT ![h] = @ + 1]
  /\ Goto(h, "shake")
  /\ \E t \in {ini[h], 0} : /\ lastSync' = [lastSync EXCEPT ![h] = t]
                           /\ ini' = [ini EXCEPT ![h] = t]
  /\ UNCHANGED <<ok, event, todo, up, serverVars, tray, diskVars, clock, edits,
                 clicks, faults, history>>

\* RunP2PHandshake settles who the two are when both are at it: a machine that
\* is in its loop, or gone, answers no HELLO.
Pair ==
  /\ \A h \in Hosts : main[h] = "shake"
  /\ main' = [h \in Hosts |-> "paired"]
  /\ UNCHANGED <<ok, event, todo, up, serverVars, tray, diskVars, syncVars,
                 counters, history>>

\* The handshake runs out of time, or the last ACK is lost: wmain returns.
HandshakeFails(h) ==
  /\ main[h] \in {"shake", "paired"}
  /\ Fault
  /\ Goto(h, "off")
  /\ UNCHANGED <<ok, event, todo, up, serverVars, tray, diskVars, syncVars,
                 clock, edits, clicks, starts, owed, wanted>>

\* The event and the tray icon are made and the receiving thread started.
Serve(h) ==
  /\ main[h] = "paired"
  /\ Goto(h, "wait")
  /\ event' = [event EXCEPT ![h] = FALSE]
  /\ server' = [server EXCEPT ![h] = "accept"]
  /\ Report(h, "ConnectedIdle")
  /\ UNCHANGED <<ok, todo, up, serving, overtaken, inbox, behind, diskVars,
                 syncVars, counters, history>>

-----------------------------------------------------------------------------
(* The loop of wmain, SyncUploadOnce included *)

Wait(h) ==
  /\ main[h] = "wait"
  /\ event[h]
  /\ Goto(h, "reset")
  /\ UNCHANGED <<ok, event, todo, up, serverVars, tray, diskVars, syncVars,
                 counters, history>>

Reset(h) ==
  /\ main[h] = "reset"
  /\ event' = [event EXCEPT ![h] = FALSE]
  /\ Goto(h, "connect")
  /\ UNCHANGED <<ok, todo, up, serverVars, tray, diskVars, syncVars, counters,
                 history>>

\* UDT::connect.  The peer's transport answers before its thread accepts.
Connect(h) ==
  /\ main[h] = "connect"
  /\ server[Peer(h)] # "off"
  /\ inbox' = [inbox EXCEPT ![Peer(h)] =
                 Append(@, [files |-> <<>>, state |-> "open"])]
  /\ up' = [up EXCEPT ![h] = TRUE]
  /\ Goto(h, "collect")
  /\ UNCHANGED <<ok, event, todo, server, serving, overtaken, behind, tray,
                 diskVars, syncVars, counters, history>>

\* The attempt is over, reported, and the click with it.
ConnectFails(h) ==
  /\ main[h] = "connect"
  /\ \/ server[Peer(h)] = "off" /\ NoFault
     \/ server[Peer(h)] # "off" /\ Fault
  /\ ok' = [ok EXCEPT ![h] = FALSE]
  /\ owed' = [owed EXCEPT ![h] = FALSE]
  /\ Report(h, "Error")
  /\ Goto(h, "stamp")
  /\ UNCHANGED <<event, todo, up, serverVars, diskVars, syncVars, clock, edits,
                 clicks, starts, wanted>>

\* (mutant: file times and lastSync are readings of one clock)
FreshOneClock(h, f) ==
  /\ desk[h][f] > 0
  /\ lastSync[h] = 0 \/ mtime[h][f] > lastSync[h]

\* The filter of CollectFiles.
Fresh(h, f) ==
  /\ desk[h][f] > 0
  /\ lastSync[h] = 0 \/ mtime[h][f] + FileEpoch > lastSync[h]

\* No session is on its way to h, and h's is the only one to its peer.
Alone(h) ==
  /\ inbox[h] = <<>> /\ overtaken[h] = <<>>
  /\ serving[h] = NoSession
  /\ main[Peer(h)] \notin {"collect", "send", "close"}
  /\ overtaken[Peer(h)] = <<>>
  /\ \/ serving[Peer(h)] = NoSession /\ Len(inbox[Peer(h)]) = 1
     \/ inbox[Peer(h)] = <<>>

Collect(h) ==
  /\ main[h] = "collect"
  /\ todo' = [todo EXCEPT ![h] = {f \in Files : Fresh(h, f)}]
  /\ owed' = [owed EXCEPT ![h] = FALSE]
  /\ solo' = IF up[h] /\ Alone(h) THEN h ELSE NoHost
  /\ Report(h, "Uploading")
  /\ Goto(h, "send")
  /\ UNCHANGED <<ok, event, up, serverVars, diskVars, syncVars, counters, wanted>>

\* SendFilePacket, one file at a time; it blocks until the receiver has room.
SendFile(h) ==
  /\ main[h] = "send"
  /\ up[h]
  /\ Len(Latest(Peer(h)).files) < Window
  /\ \E f \in todo[h] :
       /\ todo' = [todo EXCEPT ![h] = @ \ {f}]
       /\ SetLatest(Peer(h), [Latest(Peer(h)) EXCEPT !.files =
                                Append(@, [file |-> f, ver |-> desk[h][f]])])
  /\ Report(h, "Uploading")
  /\ UNCHANGED <<main, ok, event, up, server, overtaken, behind, diskVars,
                 syncVars, counters, history>>

\* The connection is gone, or the file cannot be opened: no file is sent after.
SendFails(h) ==
  /\ main[h] = "send"
  /\ todo[h] # {}
  /\ \/ ~up[h] /\ NoFault
     \/ up[h] /\ Fault
  /\ Report(h, "Error")
  /\ Goto(h, "close")
  /\ UNCHANGED <<ok, event, todo, up, serverVars, diskVars, syncVars, clock,
                 edits, clicks, starts, owed, wanted>>

AllSent(h) ==
  /\ main[h] = "send"
  /\ todo[h] = {}
  /\ Goto(h, "close")
  /\ UNCHANGED <<ok, event, todo, up, serverVars, tray, diskVars, syncVars,
                 counters, history>>

\* SendEnd, UDT::close, and the report: an upload that failed half way is
\* reported as completed, and SyncUploadOnce returns true.
Close(h) ==
  /\ main[h] = "close"
  /\ IF up[h]
     THEN SetLatest(Peer(h), [Latest(Peer(h)) EXCEPT !.state = "ended"])
     ELSE UNCHANGED <<inbox, serving>>
  /\ up' = [up EXCEPT ![h] = FALSE]
  /\ ok' = [ok EXCEPT ![h] = TRUE]
  /\ Report(h, "Completed")
  /\ Goto(h, "stamp")
  /\ UNCHANGED <<event, todo, server, overtaken, behind, diskVars, syncVars,
                 counters, history>>

\* lastSync is set after every attempt, the failed ones too.
Stamp(h) ==
  /\ main[h] = "stamp"
  /\ lastSync' = [lastSync EXCEPT ![h] = clock]
  /\ Goto(h, "update")
  /\ UNCHANGED <<ok, event, todo, up, serverVars, tray, diskVars, ini, counters,
                 history>>

\* UpdateLastSync, and the tray.
Update(h) ==
  /\ main[h] = "update"
  /\ ini' = [ini EXCEPT ![h] = lastSync[h]]
  /\ IF ok[h] THEN Report(h, "Completed") /\ Goto(h, "sleep")
              ELSE Report(h, "Error") /\ Goto(h, "wait")
  /\ UNCHANGED <<ok, event, todo, up, serverVars, diskVars, lastSync, counters,
                 history>>

\* (mutant: clicks during the pause are dropped)
WakeDebounced(h) ==
  /\ main[h] = "sleep"
  /\ event' = [event EXCEPT ![h] = FALSE]
  /\ Report(h, "ConnectedIdle")
  /\ Goto(h, "wait")
  /\ UNCHANGED <<ok, todo, up, serverVars, diskVars, syncVars, counters, history>>

\* Sleep(5000) ends.
Wake(h) ==
  /\ main[h] = "sleep"
  /\ Report(h, "ConnectedIdle")
  /\ Goto(h, "wait")
  /\ UNCHANGED <<ok, event, todo, up, serverVars, diskVars, syncVars, counters,
                 history>>

Main(h) ==
  \/ Serve(h) \/ Wait(h) \/ Reset(h) \/ Connect(h) \/ ConnectFails(h)
  \/ Collect(h) \/ SendFile(h) \/ SendFails(h) \/ AllSent(h) \/ Close(h)
  \/ Stamp(h) \/ Update(h) \/ Wake(h)

-----------------------------------------------------------------------------
(* ServerRoutine: one session at a time, the newest first                  *)

\* UDT::accept takes the first of a set ordered by socket id, and ids count
\* down (CUDTUnited::accept, newSocket): the session that connected last.  The
\* others are overtaken.
AcceptNewest(h) ==
  /\ Newer(h)
  /\ LET n == Len(inbox[h]) IN
     /\ serving' = [serving EXCEPT ![h] = inbox[h][n]]
     /\ overtaken' = [overtaken EXCEPT ![h] = @ \o SubSeq(inbox[h], 1, n - 1)]
     /\ inbox' = [inbox EXCEPT ![h] = <<>>]
     /\ behind' = [behind EXCEPT ![h] = FALSE]

AcceptOvertaken(h) ==
  /\ ~Newer(h)
  /\ overtaken[h] # <<>>
  /\ LET n == Len(overtaken[h]) IN
     /\ serving' = [serving EXCEPT ![h] = overtaken[h][n]]
     /\ overtaken' = [overtaken EXCEPT ![h] = SubSeq(@, 1, n - 1)]
     /\ inbox' = inbox
     /\ behind' = [behind EXCEPT ![h] = TRUE]

\* (mutant: uploads and downloads take turns on one thread)
AcceptWhenIdle(h) ==
  /\ server[h] = "accept"
  /\ main[h] = "wait"
  /\ AcceptNewest(h) \/ AcceptOvertaken(h)
  /\ server' = [server EXCEPT ![h] = "serve"]
  /\ Report(h, "Downloading")
  /\ UNCHANGED <<mainVars, diskVars, syncVars, counters, history>>

Accept(h) ==
  /\ server[h] = "accept"
  /\ AcceptNewest(h) \/ AcceptOvertaken(h)
  /\ server' = [server EXCEPT ![h] = "serve"]
  /\ Report(h, "Downloading")
  /\ UNCHANGED <<mainVars, diskVars, syncVars, counters, history>>

\* (mutant: a file that changes is passed on at once)
TakeFilePassesOn(h) ==
  /\ server[h] = "serve"
  /\ serving[h].files # <<>>
  /\ serving' = [serving EXCEPT ![h].files = Tail(@)]
  /\ LET x == Head(serving[h].files) IN
     /\ desk' = [desk EXCEPT ![h][x.file] = x.ver]
     /\ mtime' = [mtime EXCEPT ![h][x.file] = clock]
     /\ inbox' = IF desk[h][x.file] = x.ver \/ server[Peer(h)] = "off" THEN inbox
                 ELSE [inbox EXCEPT ![Peer(h)] =
                         Append(@, [files |-> <<x>>, state |-> "ended"])]
  /\ NoFault
  /\ UNCHANGED <<mainVars, server, overtaken, behind, tray, syncVars, clock, edits,
                 clicks, starts, owed, wanted>>

\* HandleIncoming writes a file.  It does not notice when the file cannot be
\* opened, which leaves the old one, or cannot be written, which leaves it empty
\* or cut.
TakeFile(h) ==
  /\ server[h] = "serve"
  /\ serving[h].files # <<>>
  /\ serving' = [serving EXCEPT ![h].files = Tail(@)]
  /\ LET x == Head(serving[h].files)
         Write(v) == /\ desk' = [desk EXCEPT ![h][x.file] = v]
                     /\ mtime' = [mtime EXCEPT ![h][x.file] = clock]
     IN  \/ Write(x.ver) /\ NoFault
         \/ UNCHANGED diskVars /\ Fault
         \/ Write(Partial) /\ Fault
  /\ UNCHANGED <<mainVars, server, overtaken, inbox, behind, tray, syncVars, clock,
                 edits, clicks, starts, owed, wanted>>

\* (mutant: a session that breaks is not reported as over)
SessionEndsSilently(h) ==
  /\ server[h] = "serve"
  /\ serving[h].files = <<>>
  /\ serving[h].state # "open"
  /\ IF serving[h].state = "ended" THEN Report(h, "Completed") ELSE UNCHANGED tray
  /\ serving' = [serving EXCEPT ![h] = NoSession]
  /\ behind' = [behind EXCEPT ![h] = FALSE]
  /\ server' = [server EXCEPT ![h] = "accept"]
  /\ UNCHANGED <<mainVars, overtaken, inbox, diskVars, syncVars, counters, history>>

\* HandleIncoming returns: END was read, or the connection is gone.
SessionEnds(h) ==
  /\ server[h] = "serve"
  /\ serving[h].files = <<>>
  /\ serving[h].state # "open"
  /\ Report(h, "Completed")
  /\ serving' = [serving EXCEPT ![h] = NoSession]
  /\ behind' = [behind EXCEPT ![h] = FALSE]
  /\ server' = [server EXCEPT ![h] = "accept"]
  /\ UNCHANGED <<mainVars, overtaken, inbox, diskVars, syncVars, counters, history>>

Server(h) == Accept(h) \/ TakeFile(h) \/ SessionEnds(h)

-----------------------------------------------------------------------------
(* Users, time and misfortune *)

\* The desktop or the menu of the tray icon is clicked: TriggerFire.
Click(h) ==
  /\ h \in Clickers
  /\ Looping(h)
  /\ clicks < MaxClicks
  /\ clicks' = clicks + 1
  /\ event' = [event EXCEPT ![h] = TRUE]
  /\ owed' = [owed EXCEPT ![h] = TRUE]
  /\ wanted' = IF server[Peer(h)] = "off" THEN wanted
               ELSE [wanted EXCEPT ![h] = desk[h]]
  /\ UNCHANGED <<main, ok, todo, up, serverVars, tray, diskVars, syncVars, clock,
                 edits, starts, faults, solo>>

Edit(h, f) ==
  /\ h \in Editors
  /\ edits < MaxEdits
  /\ edits' = edits + 1
  /\ desk' = [desk EXCEPT ![h][f] = edits + 1]
  /\ mtime' = [mtime EXCEPT ![h][f] = clock]
  /\ solo' = NoHost
  /\ UNCHANGED <<mainVars, serverVars, tray, syncVars, clock, clicks, starts,
                 faults, owed, wanted>>

Tick ==
  /\ clock < MaxClock
  /\ clock' = clock + 1
  /\ UNCHANGED <<mainVars, serverVars, tray, diskVars, syncVars, edits, clicks,
                 starts, faults, history>>

\* A connection to h is lost, with any part of what is under way.
LinkBreaks(h) ==
  /\ Fault
  /\ \/ /\ server[h] = "serve"
        /\ serving[h].state # "broken"
        /\ \E s \in Cut(serving[h]) : serving' = [serving EXCEPT ![h] = s]
        /\ up' = [up EXCEPT ![Peer(h)] = IF Newer(h) \/ behind[h] THEN @ ELSE FALSE]
        /\ UNCHANGED <<inbox, overtaken>>
     \/ \E k \in 1..Len(inbox[h]) :
          /\ inbox[h][k].state # "broken"
          /\ \E s \in Cut(inbox[h][k]) : inbox' = [inbox EXCEPT ![h][k] = s]
          /\ up' = [up EXCEPT ![Peer(h)] = IF k = Len(inbox[h]) THEN FALSE ELSE @]
          /\ UNCHANGED <<serving, overtaken>>
     \/ \E k \in 1..Len(overtaken[h]) :
          /\ overtaken[h][k].state # "broken"
          /\ \E s \in Cut(overtaken[h][k]) :
               overtaken' = [overtaken EXCEPT ![h][k] = s]
          /\ UNCHANGED <<serving, inbox, up>>
  /\ UNCHANGED <<main, ok, event, todo, server, behind, tray, diskVars, syncVars,
                 clock, edits, clicks, starts, owed, wanted>>

\* The program is killed on h: its sessions are gone, those it was sending
\* break off for the peer.
Crash(h) ==
  /\ Looping(h)
  /\ Fault
  /\ Goto(h, "off")
  /\ event' = [event EXCEPT ![h] = FALSE]
  /\ ok' = [ok EXCEPT ![h] = FALSE]
  /\ todo' = [todo EXCEPT ![h] = {}]
  /\ up' = [k \in Hosts |-> FALSE]
  /\ server' = [server EXCEPT ![h] = "off"]
  /\ overtaken' = [overtaken EXCEPT ![h] = <<>>]
  /\ behind' = [behind EXCEPT ![h] = FALSE]
  /\ tray' = [tray EXCEPT ![h] = "Disconnected"]
  /\ owed' = [owed EXCEPT ![h] = FALSE]
  /\ wanted' = [wanted EXCEPT ![h] = [f \in Files |-> 0]]
  /\ LET p == Peer(h) IN
     IF up[h]
     THEN \E s \in Cut(Latest(p)) :
            IF Newer(p)
            THEN /\ inbox' = [inbox EXCEPT ![h] = <<>>, ![p][Len(inbox[p])] = s]
                 /\ serving' = [serving EXCEPT ![h] = NoSession]
            ELSE /\ serving' = [serving EXCEPT ![h] = NoSession, ![p] = s]
                 /\ inbox' = [inbox EXCEPT ![h] = <<>>]
     ELSE /\ inbox' = [inbox EXCEPT ![h] = <<>>]
          /\ serving' = [serving EXCEPT ![h] = NoSession]
  /\ UNCHANGED <<diskVars, syncVars, clock, edits, clicks, starts>>

Environment ==
  \/ Tick
  \/ \E h \in Hosts : \/ Start(h) \/ HandshakeFails(h) \/ Click(h)
                      \/ LinkBreaks(h) \/ Crash(h)
                      \/ \E f \in Files : Edit(h, f)

Next == Pair \/ Environment \/ \E h \in Hosts : Main(h) \/ Server(h)

Spec == Init /\ [][Next]_vars

\* The threads keep running: every blocking call of wmain but the wait for a
\* click returns, and so does every one of the receiving thread.  Nothing is
\* obliged to go wrong.
FairSpec ==
  /\ Spec
  /\ \A h \in Hosts : /\ WF_vars(Main(h) /\ UNCHANGED faults)
                      /\ WF_vars(Server(h) /\ UNCHANGED faults)

-----------------------------------------------------------------------------
(* Properties *)

TypeOK ==
  /\ main \in [Hosts -> {"off", "shake", "paired", "wait", "reset", "connect",
                         "collect", "send", "close", "stamp", "update", "sleep"}]
  /\ ok \in [Hosts -> BOOLEAN]
  /\ event \in [Hosts -> BOOLEAN]
  /\ todo \in [Hosts -> SUBSET Files]
  /\ up \in [Hosts -> BOOLEAN]
  /\ server \in [Hosts -> {"off", "accept", "serve"}]
  /\ serving \in [Hosts -> Session]
  /\ overtaken \in [Hosts -> Seq(Session)]
  /\ inbox \in [Hosts -> Seq(Session)]
  /\ behind \in [Hosts -> BOOLEAN]
  /\ tray \in [Hosts -> TrayStates]
  /\ desk \in [Hosts -> [Files -> 0..edits]]
  /\ mtime \in [Hosts -> [Files -> 0..clock]]
  /\ lastSync \in [Hosts -> 0..clock]
  /\ ini \in [Hosts -> 0..clock]
  /\ clock \in Nat
  /\ edits \in Nat
  /\ clicks \in Nat
  /\ starts \in [Hosts -> Nat]
  /\ faults \in Nat
  /\ owed \in [Hosts -> BOOLEAN]
  /\ solo \in Hosts \cup {NoHost}
  /\ wanted \in [Hosts -> [Files -> Nat]]

\* A click is not forgotten, whenever it comes: the event stays set until an
\* upload that collects files after the click is under way (the event is reset
\* before SyncUploadOnce, desktopsync_main.cpp:55-59).
ClickNotForgotten ==
  \A h \in Hosts :
    owed[h] => event[h] \/ main[h] \in {"reset", "connect", "collect"}

\* Two threads write the tray icon in any order, yet when both are at rest it
\* does not go on saying that files are moving.
TrayNotStuck ==
  \A h \in Hosts : main[h] = "wait" /\ server[h] = "accept" =>
    tray[h] \in {"ConnectedIdle", "Error", "Completed"}

\* An upload that nothing interfered with makes the peer's desktop agree with
\* the sender's, whatever earlier uploads failed, were cut off or raced with
\* edits: lastSync, set after each of them, hides no file.
SoloUploadEqualizes ==
  \A h \in Hosts :
    /\ solo = h
    /\ main[h] \in {"stamp", "update", "sleep", "wait"}
    /\ inbox[Peer(h)] = <<>> /\ overtaken[Peer(h)] = <<>>
    /\ server[Peer(h)] = "accept"
    => \A f \in Files : desk[h][f] > 0 => desk[Peer(h)][f] = desk[h][f]

\* When only one user edits and clicks, a file of the other machine goes back to
\* an earlier version that the user made only while an upload is served that a
\* later one has overtaken, which the order of accepting allows.  Between
\* uploads served in order versions rise, except that a failed write leaves part
\* of a file.
GoesBackOnlyIfOvertaken ==
  [][\A h \in Hosts \ Editors : \A f \in Files :
       desk'[h][f] < desk[h][f] => behind[h] \/ desk'[h][f] = Partial]_vars


\* A click is followed by an upload that ends, also when both machines upload
\* to each other and neither transport has room: no machine needs its own
\* upload to be over to take in the other's.
EveryClickServed ==
  \A h \in Hosts : event[h] ~> main[h] \in {"stamp", "off"}

\* When only one user edits and clicks, what the desktop held at a click
\* reaches the other machine, unless something breaks.  It need not stay there:
\* an upload that was overtaken may follow.
LatestArrives ==
  \A h \in Clickers : \A f \in Files : \A v \in 2..MaxEdits :
    owed[h] /\ wanted[h][f] = v ~> desk[Peer(h)][f] >= v \/ faults > 0
=============================================================================
