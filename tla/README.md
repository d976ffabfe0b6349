# desktopsync: specifications and proofs

TLA+ models of desktopsync, a Windows program that keeps two desktops in step:
two machines of one network find each other by UDP broadcasts, and when a user
clicks on the desktop (or on the tray icon) the files of that desktop are sent
to the other machine over a UDT connection. The code is `src/src/` (1300 lines,
one executable and four DLLs) and `src/udt4/`, the vendored UDT library it is
linked with. All references `file:line` below are to `src/src/` unless a path is
given. The build that matters is the one of `src/.github/workflows/build.yml`:
MSVC, x64.

## 1. The system

### Parts, their state and their operations

| Part | State | Operations | Modelled in |
|---|---|---|---|
| Peer discovery, `p2p_dll.cpp` | selfId, peerId, peerIp, sawHello, sawAck, havePeer, two clocks; a UDP socket | RunP2PHandshake: HELLO every second, read HELLO, read ACK, time out | `P2PHandshake`, abstractly `Pairing` |
| File transfer, `sync_dll.cpp` | the UDT stream; position in the file read and in the file received; g_cfg | SyncUploadOnce (CollectFiles, SendHello, SendFilePacket, SendEnd), ServerRoutine, HandleIncoming | `SyncTransfer` (one connection, byte by byte), `DesktopSync` (many, file by file) |
| Main program, `desktopsync_main.cpp` | trigger event, cfg.lastSync, last_sync in the ini file | start, handshake, loop: wait, reset, upload, stamp, report, pause | `DesktopSync` |
| Tray icon, `trayhook_dll.cpp` | g_state and its details under g_cs, g_hwnd, message queue, icon | StartTrayHook, UpdateTray, UiThread, WndProc, ApplyTray, LowLevelMouseProc | `TrayHook` |
| Configuration, `config_dll.cpp` | desktopsync.ini, screen layout | LoadOrInitConfig, SaveIni, SavePeerToIni, UpdateLastSync | `Config`; the effect of `last_sync` in `DesktopSync` |
| Helpers, `common.cpp` | none | NowSec, conversions, paths | NowSec is `clock` in `DesktopSync` |
| UDT, the stream, `core.cpp` | sequence numbers, windows, flags of one CUDT | send, recv, close, packData, processData, processCtrl, sendCtrl, checkTimers | `UdtStream`, abstractly `UdtPipe` |
| UDT, sockets, `api.cpp`, `core.cpp` | m_Sockets, m_ClosedSockets, m_mMultiplexer, queued and accepted sockets, instance count | startup, cleanup, socket, bind, listen, accept, connect, close, newConnection, garbageCollect | `UdtSockets` |
| UDT, loss lists, `list.cpp` | arrays of nodes that hold ranges | insert, remove, getLostSeq | `UdtLossLists` |
| UDT, buffers, `buffer.cpp`, `CUnitQueue` of `queue.cpp` | rings of blocks and of units | addBuffer, readData, ackData; addData, readBuffer, readMsg, increase | `UdtBuffers` |
| UDT, ACK window, `window.cpp` | ring of sent ACKs | store, acknowledge | `UdtAckWindow` |
| UDT, queues, `queue.cpp`, `CTimer` of `common.cpp` | heap of senders, list of receivers, hash of IDs | insert, remove, update, pop, lookup; the sender's worker | `UdtQueues` |
| UDT, sequence numbers, `common.h` | none | seqcmp, seqlen, seqoff, incseq, decseq | `UdtSeqNo` |
| UDT, epoll, `epoll.cpp` | sets of watched and ready sockets, m_sPollID | create, add_usock, remove_usock, update_events, wait, release | `UdtEpoll` |

### How they interact

`wmain` loads the configuration, runs the handshake (blocking, up to a minute),
then creates the trigger event, starts the UI thread and the receiving thread and
goes into its loop. From then on each machine has three threads:

* the UI thread turns clicks into `SetEvent`,
* the main thread waits for the event, uploads, and reports to the tray,
* the receiving thread accepts one connection after the other, writes what it
  brings to the desktop, and reports to the tray.

The main thread of one machine and the receiving thread of the other meet in a
UDT connection. On one machine the threads share the trigger event, the tray
state (under a lock) and the desktop itself, under no lock at all: the main
thread may be uploading a file that the receiving thread, or the user, is just
writing.

### What is hard, and what makes each part correct

* *Discovery*: any number of machines shout at once on a network that loses,
  duplicates and reorders; each run picks its peer by itself. Two runs must not
  succeed with the same third one, of two that can hear each other one must find
  the other, and every run must end.
* *Transfer*: the stream has no frames; a header announces a size that is no
  longer true when the file is read. The receiver must never make up a file, cut
  one short (unless its disk is full) or take a part for the whole, and neither end
  may wait forever.
* *Main loop*: clicks come at any moment; `lastSync` moves on after failed
  attempts too; two machines upload to each other at once; either may be killed.
* *Tray*: a message carries no state, the window may not be there yet, a menu
  runs a message loop inside a handler.

* *Configuration*: a file is written key by key while the program may be killed
  and the display may change; a file must not be mixed with another one's values
  unnoticed, nor look incomplete when it is not.
* *UDT, data structures*: arrays addressed by numbers that wrap, ranges that
  overlap in every way, rings read across their end, heap places remembered by
  the sockets, counters and wake-ups shared without a lock.
* *UDT, the stream*: what one end releases the other must have, although data,
  ACKs, light ACKs and reports overtake, repeat and lose each other, and the
  worker packs an old packet while an ACK releases it; a window that closed must
  open again; a late answer must not look like an attack.
* *UDT, sockets*: the receiver thread of a port, the program's threads and the
  collector meet at a socket without a common lock; requests are repeated,
  responses lost, ports shared and counted.

UDT has, per process, one collector, and per port (multiplexer) a thread that
sends and one that receives. The program's threads reach a socket through the
API, the others through the lists of the queues; `SyncTransfer` and
`DesktopSync` take from all this a stream that arrives whole up to some prefix
and then ends, which is what `UdtPipe` states and `UdtStream` implements.

`PROJECT.json` lists the hazards one by one, at their lines.

## 2. Modules

| Module | Kind | Contents |
|---|---|---|
| `Pairing` | abstract specification | runs choose one partner for good, and pair only with a partner that chose them |
| `P2PHandshake` | component | RunP2PHandshake on every machine, and the UDP network |
| `P2PHandshakeProofs` | proofs | type correctness, inductive invariant, five properties, refinement of `Pairing` |
| `SyncTransfer` | component | one upload: uploading thread, stream, receiving thread, both disks |
| `SyncTransferProofs` | proofs | type correctness, inductive invariant of stream and receiver, four properties |
| `DesktopSync` | composition | two machines: main loops, receiving threads, connections, clicks, edits, crashes |
| `DesktopSyncProofs` | proofs | type correctness, three properties, and what the time filter does |
| `TrayHook` | component | UI thread, the two callers of UpdateTray, the user |
| `TrayHookProofs` | proofs | type correctness and what the icon shows, for any number of threads |
| `Config` | component | desktopsync.ini: load, check, new layout, save key by key, changes of the display |
| `ConfigProofs` | proofs | what the program runs with, and what the next start finds |
| `UdtPipe` | abstract specification | one direction of a stream connection: got is a prefix of sent, an orderly end comes after everything |
| `UdtStream` | component | two connected sockets, sending and receiving end, their threads, and the network between |
| `UdtStreamProofs` | proofs | arithmetic of sequence numbers for any range of them; inductive invariant of both ends and all that is on the way, two properties, refinement of `UdtPipe` |
| `UdtSockets` | component | sockets and multiplexers of two hosts, handshake, accept queue, collector |
| `UdtSocketsProofs` | proofs | inductive invariants of sockets, multiplexers, receiver threads and collectors, and of the packets between the hosts; all four safety properties |
| `UdtSeqNo` | operators | arithmetic on wrapping sequence numbers |
| `UdtLossLists` | component | both loss lists, node by node, beside the sets they stand for |
| `UdtBuffers` | component | the sender's ring of blocks; units and the receiver's buffer, as stream and as messages |
| `UdtAckWindow` | component | the ring of ACKs beside the list it stands for |
| `UdtQueues` | component | heap, list and hash of sockets; the sender's worker and those who wake it |
| `UdtEpoll` | component | epoll sets, and the threads that report to them |
| `UdtStructuresProofs` | proofs | the ring of ACKs is the list, for any size; type correctness of `UdtEpoll` and the safety of its reports |
| `MC...` | instances | model values, symmetry, derived constants for TLC |

Operators whose comment begins with "(mutant:" are variants of the definition
after them with a plausible bug. Nothing uses them; they record which mistake
each property would notice.

### P2PHandshake

A run of the program is an identifier (`gen_id`); `HostOf` gives its machine, so
a machine may have several runs, at a time (`SO_REUSEADDR`, p2p_dll.cpp:78) or
one by one. Variables are the locals of RunP2PHandshake, one function per local.
`net` is the set of datagrams ever sent: since nothing is removed, a datagram may
be read any number of times, late, out of order or never. HELLOs reach everyone,
also their sender, an ACK whoever is on the machine it was sent to.

| Action | Code |
|---|---|
| `Start`, `SetupFails` | p2p_dll.cpp:63-122 |
| `LoopTop` (with `SendHello`, `Success`) | :124-134, and the return at :204-218 |
| `NothingToRead` | :135-154 |
| `RecvHello`, `RecvAck` (with `Adopt`) | :157-177, :178-197 |
| `Tick` | GetTickCount64 |

Identifiers are taken to be distinct (64 random bits) and nobody else is taken
to speak on the port.

### SyncTransfer

`stream` is everything sent over the connection, `rpos` how much of it the
receiver has taken. Bytes are units that know what they are: a header is one
unit with the fields followed by `HdrLen - 1` units without, then come a name
unit and data units that name file, version and position. This is what lets the
two ends get out of step as the real ones do: `RecvHeader` takes the next
`HdrLen` units, whatever they are, and only the test of the magic
(sync_dll.cpp:170) tells a header from file contents. File contents that happen
to contain a whole header with the magic are left out.

The uploading thread is `Connect`, `Collect`, `Measure`, `Pick`, `SendHeader`,
`SendName`, `OpenFile`, `ReadBlock`, `SendEnd`, `Close`, one action per call that
may block, fail or see a changed file; `Die` is the uncaught exception of
`file_size` (:131, :274). The receiving thread is `Accept`, `RecvHeader`,
`RecvName`, `RecvData`, `OpenTarget`, `WriteTarget`, `CloseClient`. A target that
cannot be opened stays as it is. One that was opened is empty, and a write that
fails leaves any part of the data in it, which the code does not look at
(sync_dll.cpp:196-198); `refused` keeps the names of both. RecvData
asks UDT for as many bytes as an int makes of a size_t (:185): of 2 GiB and more
it may be negative, and the receiver gives up (`PositiveAsInt`, with an int of
`IntMax`). That the vector for so many bytes cannot be allocated is left out. The
environment edits and deletes files (`EditFile`, `DeleteFile`) and breaks the
connection, which lets any prefix of what is under way arrive (`LinkBreaks`,
`ShutdownArrives`). `Window` is how far the sender may be ahead.

### DesktopSync

The same at the grain of files, for two machines and any number of uploads. A
session is one connection; `serving` is the one HandleIncoming works on. Those that
wait to be accepted are in `overtaken` and `inbox`, in the order in which they
connected: UDT's accept takes the first of a set ordered by socket ID, and IDs count
down, so it serves the newest first (`AcceptNewest`), those left behind are
overtaken, and served when nothing newer waits (`AcceptOvertaken`). `behind` says
that the session being served is one of these. `SyncTransfer` justifies the grain: a
file arrives whole or not at all, and is written in one go, unless the write fails
and leaves `Partial`, a version older than every other. What the receiver of a
session gives up (a file of 2 GiB or more) and what the collector drops of a closed
connection after some sixty passes although it has not been read (m_iBrokenCounter)
are cases of `LinkBreaks`: any prefix arrives. `main` follows wmain line by line.
`Fresh` is the filter of CollectFiles: a file time counts from 1601 and `lastSync`
from 1970, so the two are `FileEpoch` apart (assumed larger than any reading of the
clock, as it is until the year 2339). With it every upload sends every file, and
that is why the wholesale `lastSync = NowSec()` hides nothing: `FreshOneClock`, the
filter as it reads, loses edits made during an upload.

`owed`, `solo` and `wanted` are history variables: a click not yet followed by an
attempt, the machine whose latest upload nothing interfered with, the desktop at
the latest click.

### TrayHook

An update is known by its number; the variables stored under the lock are one
(`latest`), a critical section is one step. `PostUpdate` is a step of its own,
after the lock. `unseen` says that nobody was told of the latest update, which
happens when it comes before the window, or that the icon's file could not be
loaded. Messages beyond `QueueLimit` (10,000 in Windows) are dropped.

### Config

`ini` is the file, a value for each of its 29 keys; a key that is absent reads as
0, the default of every ReadInt and ReadDouble. `mem` is the IniState of the
running program. A start is `Load`, `Check`, and when the file is not good for
the display `Compute`, a `SaveKey` for each key in the order of SaveIni, and
`Saved`; `Stop` may come at any point. Layouts are computed as the code does, with
grid sizes in millionths (`%.6f`). `torn` and `kept` are history variables: the
file is the result of a save that was cut short, and what the next start must
find, if that is certain.

### UdtStream, UdtPipe

One direction of a connection. A packet's data is its position in what was
written. `sndVars` are the sender's: `sndBuf` and `sndBlock` are CSndBuffer (what
is not released; how much of it was packed), `sndLastAck`, `sndLastDataAck`,
`sndCurrSeqNo`, `flowWindow`, `sndLoss`, `listed` (on CSndUList), `packing` (the
number the worker took from the loss list and has not read from the buffer yet),
`updates` (calls of CSndUList::update still to come). `rcvVars` are the
receiver's: `rcvBuf` from `rcvLastAck` on, `ready` (acknowledged, not yet read),
`rcvLastAckAck`, `rcvCurrSeqNo`, `rcvLoss`, `got`. `toRcv` and `toSnd` are the
packets on the way; whoever takes one may leave it there, to come again.

| Action | Code (udt4/src/core.cpp) |
|---|---|
| `send`, `close`, `lingered` | send, close with its linger, setting of the shutdown |
| `update`, `pop`, `packLost`, `packNew` | CSndUList::update and pop, packData in its two halves |
| `hearAck`, `hearLiteAck`, `hearNak`, `expire` | processCtrl of ACK, light ACK and NAK; EXP of checkTimers |
| `processData`, `hearAck2`, `hearShutdown` | processData, processCtrl of ACK2 and shutdown |
| `sendAck`, `sendLiteAck`, `recv` | sendCtrl(2), recv |

ACK, NAK and EXP timers go off at any time, which only adds behaviours; an ACK2
whose round trip measures 0 is ignored by the code, and the model may leave any
ACK2 unsent by losing it. The congestion window starts at 16 and is not what
limits a few packets. The other direction of the connection, whose packets also
push the EXP timer back, is not there.

### UdtSockets

Two hosts, a listener on one, clients on the other, each client with a thread and a
port of its own. `sock` is a CUDTSocket with its CUDT (the table it is in, status,
flags, multiplexer, peer); `mux` a multiplexer with its receive queue (listener,
connectors, store of packets, new entries, list); `worker` the receiver thread of a
port and the request it works on; `gc` the collector; `app` the program's threads;
`hs` m_ConnReq and m_ConnRes; `late` is history. One action per stretch of code
under one lock, or that ends in a wait: `accept` looks at the backlog, unlocks,
waits and looks again in three, a request is looked up, made a connection, inserted
and queued in four, the collector removes a socket, joins the worker of its port and
ends its pass in three. Times are reduced to what the code asks of them (`age`: more
than one second, three seconds), and cookies to the minute they were made in. A
socket with unread data is passed over by the collector in as many passes as may be,
`unread` (api.cpp:1197-1200). Requests come at any time, also when the collector has
taken the listener out of the table or its host cleans up. `late` records that one
was taken up then, or was at work when cleanup began: it cuts nothing off, it says
from when on less can be promised (section 4). A host that is not `near` is not
followed; of it only packets come, any that are well formed, so that each host is
checked against whatever the other may do.

### UdtLossLists, UdtAckWindow, UdtBuffers, UdtQueues, UdtEpoll

Each keeps the arrays, places and pointers of the code beside a plain value they
stand for (`sndLost` and `rcvLost` are sets, `ackList` a list, `sndQueue` and
`taken` sequences, `onHash` the sockets heard of in order), and is driven by the
calls CUDT makes with the arguments it can make them with. `MCUdtStructures` puts
them side by side: a behaviour is about one of them, its `subject`, so one run
checks all without multiplying their states.

The loops of the buffers and the queues are recursive functions over the numbers
of their steps (`ReadUnit`, `SkipOne`, `TakeUnit`, `RiseOnce`, `SinkOnce`...), so
that they can be reasoned about; only the walks of `UdtLossLists` are RECURSIVE
operators. `SbSpec`, `RbSpec`, `HeapSpec`, `ListSpec`, `AckSpec` and `EpSpec` are the
specifications of single parts, which the theorems are about; a behaviour of
`MCUdtStructures` is one of theirs, with the other parts at rest.

* `UdtLossLists`: `SndInsert`, `SndRemove`, `RcvInsert` and `RcvRemove` go by the
  code's cases (before the head, on a node, inside one, between two; `Coalesce`
  merges the nodes that follow). getLossArray is left out: the one call of it, the
  periodic loss report, is commented out (core.cpp:2565-2574).
* `UdtBuffers`: the count of units in use may drift (`MaxRaces` lost updates)
  since two threads change it without a lock. The counts of what was acknowledged
  and read come from the arguments CUDT passes.
* `UdtQueues`: the heap is an array, `loc` the place each socket remembers. The
  sender's worker has a model of its own (`WorkerTop` to `WorkerWait`), with `sched`,
  the time CTimer sleeps to, which is written without a lock, and only the due
  times of the heap. A socket is put back for the time of its next packet, also when
  that has passed (queue.cpp:332-333; `MaxPuts` times at most).
* `UdtEpoll`: each access under m_EPollLock is a step; between what a thread
  finds in the buffers and what it tells there may be others. `missed` says that
  recv or send took an event back that had come again meanwhile, `torn` that
  close left ids behind a released one alone: two known gaps. Other sockets may be
  watched beside this one; they matter in the wait only (`WaitIsOver`, `alone`).

## 3. Runs

All bounds are constants of the `.cfg` files. CHECK_DEADLOCK is off where the
modelled program may stop: runs of the handshake end, an upload ends, users may
stop clicking, the program may stay off, a bounded number of packets is sent. It
is off in `UdtSockets` too, since cleanup may hang there (section 4); that the calls
of a program return otherwise is what `UdtSocketsLive` checks.

| Run | Question | Bounds |
|---|---|---|
| `P2PThree` | Is a successful run's peer one that chose it? Refinement of `Pairing`. Does every run end? Of two that hear what is sent while they run, does one succeed? | 3 machines, timeout 1, 2 ticks: three rivals, every datagram may be read before and after every timeout |
| `Transfer` | What does the receiver end up with? Do both ends come to an end? | 2 files of 0, 2 or 3 units, header of 2, an int that holds 2, one change, window 2: a file may be longer or shorter than announced by a header, and more than an int says |
| `SyncBothWays` | Clicks, icon, and what the next good upload repairs, over restarts | 1 file, 2 edits, 2 clicks, 1 fault (a crash, a broken or refused connection, a write that fails), 2 starts each, 2 readings of the clock |
| `SyncRoles` | One user edits and clicks: when does a file go back, and does a click deliver? Both click: do crossing uploads end? | 1 file, 2 edits, 2 uploads, 1 fault; or 2 files and window 1, so both senders block, 2 clicks, 1 fault |
| `AcceptOrder` | Is the connection that came first accepted first? Violated | 1 file, 3 uploads: one is served, two wait |
| `OneHost` | The ini file: what does the program run with, and what does a restart find? The tray: does the icon show the last update, does it get there, and does Exit end the thread? | 3 displays, of two sizes and two DPIs; 2 starts, 1 change of display, 1 write that fails, 1 upload; no desktop_layout.txt, or one that fits one of the displays. 3 updates by 2 threads, queue of 3, 1 menu |
| `UdtStructures` | Do UDT's data structures stand for what they should? Does the sender's worker serve every socket? Does epoll tell what there is? | 14 numbers that wrap, 5 of them in the window of losses; 4 ACKs of 7; 6 blocks; 4 slots and 6 packets of 2 bytes, of which 4 messages; 4 sockets in the heap and a hash of 2; 2 epolls |
| `UdtSockets` | Does anything refer to a deleted socket? Does a request make one connection? | 1 client that connects twice, 2 sockets to accept, backlog of 1, one change of the cookie's minute, requests at any time |
| `UdtSocketsLive` | Do accept, connect, cleanup and the collector come to an end? | 1 client, 1 connection |
| `CleanupReturns` | Does cleanup return whatever comes meanwhile? Violated | the same |
| `UdtStream` | Are two connected sockets a pipe, and do their buffers agree? | 3 packets whose numbers wrap, buffers of 2 and of 2 (3 slots), 2 packets on the way in each direction, 3 in all |
| `UdtStreamLive` | Is what was written read? | 3 packets, a receive buffer that holds 1 at a time, 1 packet on the way in each direction |

Two of the modules put two questions into one run, which does not multiply their
states: in `MCOneHost` a behaviour is about the ini file (`Config`) or the tray
(`TrayHook`), in `MCDesktopSyncRoles` about one way to share the work. Two starts are
enough for `Config`: a first one that computes and saves, and is killed or changed
anywhere, and one that finds what is left. Three updates are enough for `TrayHook`:
one that shows, one that overtakes it between lock and post, and one dropped by the
full queue. `RestartFindsAll`, `LayoutIsRight` and `IconIsRight` are proved for any
number of them.

Each property fails for the bug recorded beside it in `PROJECT.json`, so the
bounds are large enough for the cases the property is about.

### Fairness

* `P2PHandshake!FairSpec`: a started run goes on looping. `OneSucceeds` has what it
  needs of the network as its assumption (`HearsWhileRunning`): while a run goes on it
  repeats its HELLO every second and answers every HELLO of its peer, and of what is
  sent again and again so one datagram of either kind is read before it leaves.
  Nothing is assumed of the last ACK: it is sent once, and the socket is closed
  (p2p_dll.cpp:133, 173, 216), so that both succeed cannot be promised.
* `SyncTransfer!FairSpec`: both threads run, and the shutdown packet of a closed
  connection arrives, or its absence is noticed by UDT's timer, which is the same
  to the sender. Disks and users owe nothing.
* `DesktopSync!FairSpec`, and `MCDesktopSyncRoles!RolesSpec` likewise: the threads run;
  nothing is obliged to go wrong.
* `MCOneHost!HostSpec`: the UI thread and the threads that call UpdateTray run; the user
  may leave the menu open forever, and the program may stay off.
* `UdtSockets!FairSpec`: the program's threads, the receiver threads and the
  collectors run, and time passes. Strong fairness twice: for taking new entries
  into the receive list, which happens at the top of a loop that other packets
  keep entering, and for the growing age of a socket. Nobody has to close the
  listener, and no connection has to break or to be made.
* `UdtStream!FairSpec`: the threads run and time passes (strong fairness of the
  EXP timer: it goes off although ACKs come in between); the link is lossy but
  fair: a data packet that is on the way again and again is received in the end,
  and so is an ACK. Nobody has to write, to close or to give up.
* `MCUdtStructures!Spec`: the sender's worker runs and the clock moves; a call that has
  begun to watch a socket, recv or send, the receiver thread and the collector go on,
  each for itself. Nobody has to call wait again, or to read.

## 4. What the code does that one might not expect

Three times the code does other than a document of the repository says; they are the
findings in `PROJECT.json`, and two of them runs that TLC must find violated:

* *The newest connection is accepted first.* accept.htm:68-69: "An accept call
  retrieves the first connection in the queue". CUDTUnited::accept takes `begin()`
  of a std::set of IDs that count down (api.cpp:653, 678; api.h:77; api.cpp:285, 385).
  `AcceptOrder` shows three uploads of which the third is served before the second,
  whose older versions are then written over the newer ones.
  `GoesBackOnlyIfOvertaken` says that, beside a failed write, nothing else lets
  the files of a machine whose user does nothing go back.
* *cleanup may hang.* cleanup.htm:25-27: "In the current version, this method always
  succeed. All the remaining open connections will be closed." The collector holds
  m_ControlLock while, for the listener it removes, it joins a receiver thread that
  may be waiting for that lock in newConnection. `CleanupReturns` shows it. The
  three seconds for which a broken listener is kept (api.cpp:1193) make it unlikely
  outside cleanup, but a request may still come, or still be at work, when they are
  over, and in cleanup they are not waited for. From such a *late* request on
  (`late`), the receiver thread may work for a deleted listener, multiplexers may be
  counted wrongly and the backlog may name a socket that is gone:
  `DeletedIsForgotten`, `EveryUserCounted`, `BacklogIsSound`, `CallsReturn` and
  `ClosedIsDeleted` except, in the part concerned, what follows one, and TLC finds
  each of them violated without this exception. `PeersBelongTogether` holds in the
  run in spite of it. In this program the count of startups does not return to zero:
  the receiving thread calls startup once (sync_dll.cpp:205) and never gets to its
  own close and cleanup (:229-230), because nothing ends its loop; the cleanup of an
  upload (:266, :290) only lowers the count. So its listener is not closed and its
  collector does not get there.
* *epoll does not tell of the end of a connection.* epoll.htm:49 says that the set
  returned holds sockets "ready to write, or are broken", and :97 that exceptions
  are write events. add_usock knows IN and OUT only (epoll.cpp:101-104), a shutdown
  by the peer tells epoll nothing, and what EXP tells is taken back when recv reads
  its last packet. A wait for a broken socket ends when the collector takes the
  socket out of the epoll, if no other socket is watched there, with an exception
  (epoll.cpp:205-210) (`EndIsReturned`); beside another one it goes on. This finding
  has no run of its own; `WaitReturns` states what does hold. This program does not
  use epoll.

No comment or document we know of speaks of the following.

* A run of the handshake that succeeds leaves at once. The last ACK it sent is not
  repeated, and when it is lost the peer goes on until its timeout and fails, although
  the other took it for found (`OnlyAckMissing`, `OneSucceeds`).
* A disk that is full while a file is written leaves it empty or cut, and both threads
  go on as if it were there (`CutOnlyByDisk`); the next upload repairs it.
* A file of 2 GiB or more may make the receiver give up the connection, because its
  size is read as an int (sync_dll.cpp:185).
* Edits on both sides are not merged: crossing uploads swap two versions, and a
  received file is sent back by the next click and may overwrite a newer edit.
* An upload that fails after the connection was made is reported first as an
  error, then as completed, and SyncUploadOnce returns true (sync_dll.cpp:283,
  292-293). A download that breaks off is reported as completed (:226).
* The MD5 in the header is computed and never compared.
* A machine whose program is restarted alone cannot find its peer again: the
  peer, in its loop, no longer answers HELLOs.
* Exit ends the UI thread, not the program.
* A save of the ini file that is cut short leaves the size of the new display
  with the corner, grid or cells of the old one (or with cells at 0), and the next
  start takes that for complete: `LayoutIsWhole` holds only while `torn` is false.
* desktop_layout.txt has no DPI, and 96 is assumed: on a display of another DPI,
  or another size than the file's, every start begins anew and lastSync with it.

* UDT: when a socket is taken from the middle of CSndUList's heap, the last one
  takes its place and only sinks from there; it may be due earlier than the one now
  above it, and is then served later than it should. It is served.
* UDT: an attempt to connect that expires leaves its entry in the rendezvous queue
  (queue.cpp:847 clears m_bConnecting, so core.cpp:982 does not remove it), and a
  connect that was refused leaves the socket connected. This program connects each
  socket once.
* UDT: recv and send test and take back an event of epoll in two steps and may lose one,
  and close leaves a socket in the epolls behind one that is released meanwhile.
* UDT: data that is not read is thrown away some sixty passes of the collector after its
  connection broke (api.cpp:1197-1200); what follows arrives nowhere.
* UDT: two programs that both send keep each other's EXP timer from going off;
  what was lost is then repeated because of loss reports only.

## 5. Proofs

`P2PHandshakeProofs` proves, for any set of runs, any placement on machines, any
timeout and any number of datagrams:

* `TypeCorrect`, `Agreement` (`PeerAgreement`), `PeerOwedOnlyAck`
  (`OnlyAckMissing`), `AddressCorrect` (`PeerIpIsPeers`), `PeerIsStable`
  (`PeerNeverChanges`) and `Refinement` (`ImplementsPairing`).
* The inductive invariant is `IInv`: an ACK in the network is evidence that its
  sender settled on its addressee and had seen its HELLO (`NetInv`), and the
  flags of a run are backed by such evidence (`PeerInv`). `PeerAgreement` alone
  is not inductive: it says nothing of the ACKs under way. Evidence stays true
  because a choice is never changed (`AdoptFacts`).
* Assumptions: `IdsAssumption` and `TimeAssumption`, evaluated by TLC in every
  run of the module.

`SyncTransferProofs` proves, for any files, sizes, header length, window and
number of edits:

* `TypeCorrect`, `FilesCutOnlyByDisk` (`CutOnlyByDisk`) and `NoFileMadeUp`
  (`NothingMadeUp`).
* The inductive invariant has three parts beside the types. `StreamInv`: a FILE
  header is in the stream as a whole, and the unit behind it is a name, unless
  the sender is about to send the name or the connection is broken.
  `ReceiverInv`: a receiver that is about to read a name has just read such a
  header. `SenderInv`: the sender has a file in its hands, and connects once.
  `NothingMadeUp` is not inductive because it says nothing of the stream ahead of
  the receiver. Every step leaves the stream alone or appends a header, a name or
  a unit of data (`StreamStep`), and what was sent stays sent (`StreamGrows`).
* Assumptions: `SizesAssumption`.

The same module proves, with the same assumption:

* `FilesArriveIntact` (`ReceivedIntact`) and `EndIsEverything`
  (`EndMeansEverything`), both about uploads during which no file changes between
  the reading of its size and the end of its sending.
* `StructInv` holds whatever happens to the files: a header begins once, a version
  is not written twice, the name follows its header, and the receiver began the
  packet it is serving where a packet was announced.
* `LeftAlone` holds until a file being sent is disturbed. `PacketInv`: a packet
  that was begun is the one the sender is at work on, is complete, or the
  connection is broken behind it, and its units are those of one version.
  `EndInv`: END is sent when no file is left. `ServedInv`: the receiver has served
  every packet it has passed. The two properties alone say nothing of what is in
  the stream and not yet read.

`DesktopSyncProofs` proves, for any files and any number of edits, clicks, starts
and faults:

* `TypeCorrect`, by way of `Types`, which adds to `TypeOK` that the versions a
  session carries have been written and that the clock is within its bound.
* `FilterHidesNothing`: in every reachable state the filter of CollectFiles lets
  every existing file pass. It follows from `ClockAssumption`, that the epochs of
  the two clocks are further apart than any reading, and from `Types`.
* `NoClickForgotten` (`ClickNotForgotten`), with `ClickInv`, which adds that a
  machine outside its loop owes nothing (`Serve` makes a new event).
* `TrayComesToRest` (`TrayNotStuck`), with `TrayInv`: each state of the icon that
  speaks of work under way has a thread that is at it and will report again.
* `UploadEqualizes` (`SoloUploadEqualizes`): however the desktops came to differ,
  an upload that nothing interferes with leaves what it sent equal on both. The
  invariant is `LineInv` (the session of a connection that is up is the latest its
  peer was given, and open; a machine outside its loop serves nobody) and
  `SoloInv`: the session of the undisturbed upload is the last its peer was given,
  is open until END and cannot be cut off, the peer has nothing of its own under
  way (`QuietInv`), and each file of the sender is still to be sent, on its way in
  the version it has, or equal on both sides (`Agree`).
* `FollowerGoesBackOnlyIfOvertaken` (`GoesBackOnlyIfOvertaken`), for one user who
  alone edits and clicks, as in the run `SyncRoles`; a follower who clicks may send
  an old version back, and then the program promises nothing. `Silent`: nothing is
  ever under way from the follower. `Line`: the versions of a file never fall along
  the line from the follower's desktop, through the session it serves, if that was
  not overtaken, and those in `inbox` in their order, to the leader's desktop.
  `Stale`: what was overtaken is no newer than anything in `inbox` or on the
  leader's desktop. So a session that was overtaken, written late, makes the line
  begin lower, and the line still rises; and so does a failed write, `Partial` being
  below every version. The property alone says nothing of the files under way. A
  line may lose files or sessions (`RisesOn`, `RisesCut`: a connection that broke, a
  program that ended, sessions that are overtaken), gain a file at its end in the
  version the leader has (`RisesToSent`), and be taken from at its head
  (`RisesToTaken`).

`UdtStructuresProofs` proves `EpollIsRight` (`EpollTells`) for any number of epolls and
any size of buffers. `IInv` adds to the types and the two parts of `EpollTells`
what a call in progress has done already (`UserInv`) and that a poll that watches
the socket is known to it unless a call is about to enter or has just taken it out
(`PollInv`). The argument is the one of the comment in CUDT::removeEPoll: between
the two accesses of a removal the socket may still be told about, but no poll
watches it any more; and nothing is missed because whoever changes what there is
reports afterwards, and whoever enters a poll looks afterwards.

The same module proves `WindowIsAlwaysTheList` (`WindowIsTheList`) for any size of the
ring and any number of ACKs, confirmed in any order, repeatedly or never. `AckInv`:
the ring holds the last `Held(w)` ACKs that were sent, the k-th of them at
`Place(w, k)`, and the list is just these numbers (`LastOf`). Places are computed
without remainders, so that the solver can follow them round the end of the array
(`GoesRound`); no two are the same and none is the one store writes to
(`PlacesDiffer`). `StoreKeepsLast`, `AcknowledgeFinds` and `AcknowledgeMisses` say
what the two operations make of that. Assumption: `AckAssumption`.

And, for any sizes of the buffers, any sockets and any bounds:

* `SndBufferIsAlwaysTheQueue` (`SndBufferIsTheQueue`). `RingHolds`: the blocks of
  CSndBuffer are a ring, each block at one place of it (`IsRing`), and from the
  first block on they hold the packets of the queue, the current one where sending
  got to (`HoldsQueue`). The property is about walks along the links; the ring
  gives every block one place, so that a step can be said to touch the places
  before or behind another. `increase` links a new row of blocks in behind the last
  one, and what was a ring stays one.
* `UnitsAreAlwaysSound` (`UnitsAreSound`). `Sound`: the units in use are those
  in the slots of the receive buffer, each in one (`Placed`), the search stands in
  an entry that exists, and units not yet allocated are free (`IsUnits`). Nothing is
  said of the count, which the race may leave anywhere: a second call of
  getNextAvailUnit finds a unit in spite of it, because the first, when it fails,
  has looked at all the units it may give or the queue has grown.
* `WhatCameIsAlwaysRead` (`ReadIsWhatCame`), in two halves. `StreamIsAlwaysRead`
  (`StreamIsRead`) is about readBuffer. `StreamInv`: what it has delivered are the
  bytes of the packets in their order (`IsBytes`), up to the byte the first slot
  begins with, and each slot holds the packet of its place, or none (`IsStream`).
  The other half (`MessagesAreRead`) is about readMsg. `MsgInv`: each slot holds the
  packet of its place, or none, and its unit is marked exactly if the message was
  read; a packet behind the first place was read with its message, and a message
  read ahead of its turn is still in the buffer as a whole (`IsMessages`), so that
  none is read twice; a message sent in order is never read ahead of its turn
  (`LeftBehind`); what the application has are whole messages (`IsRead`). The first
  loop of scanMsg drops only packets of messages that were read (`SkipBadDrops`), so
  that what is acknowledged then begins with a first packet; the second one finds a
  whole message, and one that must keep the order only if it is all acknowledged.
* `QueuesAlwaysAgree` (`QueuesAgree`), of two specifications, `HeapSpec` and
  `ListSpec`. `IsHeap`: the nodes up to the last are sockets, each at the place it
  remembers, and no other socket remembers one; rising and sinking keep that
  (whichever of them come first). `IsList`: the links of CRcvUList, forwards and
  backwards, are one sequence, the one of the sockets heard of; `Hashes`: the
  buckets of CHash divide them by their number. A socket in the list or about to be
  is marked (`ListInv`).
* The loops end after as many steps as are counted, so what they compute is shown by
  taking the first step at which it would be wrong (the least of a set of numbers)
  instead of by induction over an operator.
* Assumptions: `BuffersAssumption` (a row of units is never used up before the
  queue grows: 32 and 90 % in the code), `QueuesAssumption`, and
  `MessagesAssumption`: messages are packets in a row, numbered upwards, of which the
  first and the last one say so and which agree about the order, as addBuffer makes
  them; the last message may be without its end.

`UdtStreamProofs` begins with `UdtSeqNo` and proves, for every range of numbers
and threshold the code may have (`SeqNoAssumption`), what the other modules rely on
without checking it: adding and measuring agree over the wrap (`OffsetOfSum`,
`SumOfOffset`), the comparison is an order within a window (`OrderInWindow`), a
range counts and holds what it should (`LengthOfRange`, `RangeInWindow`), and the
successor is undone by the predecessor (`NextAndBefore`).

It then proves, for any buffers, any first number and any range of
numbers, over a network that loses, repeats and reorders:

* `EndsAlwaysAgree` (`EndsAgree`), `NoEndIsAccused` (`NeverAccused`) and
  `SocketsAreAPipe` (`IsAPipe`): the two sockets implement `UdtPipe`.
* The numbers wrap, and the number before the first, `isn - 1`, may not be one.
  So the argument is about places: `At(isn, k)` is the number of place k, and the
  first lemmas show that comparing, measuring and stepping through numbers is the
  same as doing it with places (they rest on the theorems about `UdtSeqNo`).
* The inductive invariant `IInv` counts how far the stream got: `released` and
  `packed` at the sender, `acked` at the receiver, and c, the places the receiver
  knows of; `released <= acked <= c <= packed`. `SndInv` and `RcvInv` say what the
  buffers, numbers and loss lists of an end hold in terms of its counts. `ToRcvInv`
  and `ToSndInv` say of each packet on the way what was true when it was sent: a
  data packet was packed, an ACK is of something acknowledged, a lite ACK and a
  loss report are of places the receiver knew of. The counts only grow, so what a
  packet says stays true, and losing, repeating and reordering packets is harmless.
  `EndsAgree` alone is not inductive: it says nothing of what is on the way.
* That no end is accused is a consequence: an ACK is of a place up to `packed`, a
  loss report of places before it.
* Assumptions: `SeqNoAssumption` and `StreamAssumption`, which asks that fewer
  packets are written than the threshold of the comparison less a buffer. Beyond
  that a packet late by 2^30 numbers is taken for a new one, and a network that may
  delay a packet for ever makes it so; the code relies on packets not living that
  long.

`TrayHookProofs` proves `IconIsAlwaysRight` (`IconIsRight`) for any number of
threads, updates and menus.

`UdtSocketsProofs` proves `UsersAreCounted` (`EveryUserCounted`),
`BacklogIsAlwaysSound` (`BacklogIsSound`), `DeletedAreForgotten`
(`DeletedIsForgotten`) and `PeersAlwaysBelongTogether` (`PeersBelongTogether`), for
any number of clients, sockets, attempts and minutes and any backlog. Requests come
whenever they like. All four theorems speak of the time until one is taken up too
late (`late`, section 4), and say nothing of what follows; the run checks more,
since there only the parts that a late request does break are excused. `LateStays`:
what came too late stays so, and so an invariant that every step keeps until then is
kept under `late \/ ...`.


* The receiver thread of the listener is the only one that makes connections, in
  four steps between which every other thread may run. From its search for an
  earlier connection of the same request to the entry in the backlog the new socket
  is known to nobody who could close or accept it, and no second one with the same
  peer and number can appear (`MakingInv`).
* IDs are taken from the top, so of two sockets that answer the same request the
  older has the higher ID and is broken (`Descending`).
* The collector removes what it found closed, and nothing leaves the table of
  closed sockets meanwhile (`RemovingInv`); a multiplexer it waits for has no user
  and gets none, because its thread is idle and m_ControlLock is held.
* A socket uses a multiplexer from the moment its status leaves INIT until its
  object is deleted (`FirstUse`), which is what the count is of.
* Most steps change none of this: they keep the sockets that are listed
  (`KeepSockets`), the users (`KeepMuxes`), who waits (`KeepWaiting`) and what is
  being removed (`KeepRemoving`), and `KeepCore` serves them all.
* `IInv`, with these parts, gives the first two. `DInv`, on top of it, gives
  `DeletedIsForgotten`, which is not inductive because it says nothing of sockets
  about to be deleted. A receiver thread lists only sockets that are marked as
  listed (m_bOnList), and each once (`ListedInv`); what the collector has
  decided to remove is marked no more, and a listener among it is served by no
  thread (`TodoInv`, `RestInv`). A connecting client's socket is in the table, and
  not listed before its connection is there, so it does not come to a list after the
  collector looked (`TryInv`); and a host whose last program left has no client that
  could begin anew (`InsideInv`).
* `PeerInv` gives `PeersBelongTogether`. It is about both hosts at once: a response
  in the network that tells a client it is connected names a socket of the server
  that was made for this client and this attempt (`AnswersInv`), a response that
  waits in a receive queue came from the network and is for that client
  (`StoredInv`), and the client took its peer from one (`PairedInv`). Sockets keep
  peer and number for as long as they exist, deleted or not, so a response that
  comes late, twice or after a second attempt says nothing false.
* Assumptions: `SocketsAssumption`.

`ConfigProofs` proves `ConfigIsRight` (`LayoutIsRight`) and `NothingIsForgotten`
(`RestartFindsAll`), for any displays, any layouts in desktop_layout.txt, any
peers and any number of starts, changes of the display and failing writes:

* `IInv` says of memory that it copies the file until it is checked and holds a
  layout that belongs together while it is saved (`MemInv`); of the file that it
  holds such a layout or none, and during a save the keys before the next one as
  memory has them, unless a save was cut short (`FileInv`); and that what the next
  start must find is in the file and fits the display (`KeptInv`). The two
  properties speak of a running program and of a start only.
* `DefaultIsComplete` is what the second one rests on: a layout the program
  computed for a display is never incomplete for that display, so the next start
  does not compute it again.
* Assumptions: `ScreensAssumption`, `BoundsAssumption` and `TxtsAssumption`.

All assumptions are evaluated by TLC in the runs of the modules. Some theorems
state nothing a run checks, since single steps keep them true and they are there
for what rests on them: the three `TypeCorrect`, `AddressCorrect`, `PeerIsStable`
and those about `UdtSeqNo`.

Only model-checked: all liveness properties (`EveryRunEnds`, `OneSucceeds`,
`TransferEnds`, `LatestArrives`, `EveryClickServed`, `LatestIsShown`,
`ExitEndsUi`, `WorkerServes`, `WaitReturns`, `CallsReturn`, `ClosedIsDeleted`,
`Delivers`), which are out of the prover's reach; and `LossListsAreSets`, since the
walks of `UdtLossLists` along its nodes are RECURSIVE operators. Every other safety
property of the runs is a theorem.

## 6. Not modelled, and what is left to do

* UDT, `core.cpp`: sendmsg and recvmsg (the buffers' part of recvmsg is in
  `UdtBuffers`), time to live and the drop of late messages, sendfile and recvfile,
  rendezvous connections, keep-alive, the error signal, options, statistics and
  non-blocking sockets. Of these the program uses none but keep-alive, which
  repeats what EXP does when nothing is under way.
* UDT, `api.cpp`: select and the wrappers that set and return error codes.
* UDT, left out for good: congestion control, packet pairs and arrival speed (pace
  only), the cache (starting values of the pace only), the channel (a system call
  each way: it is the network of the models) and the packing of headers, MD5 (a
  cookie is equal or not), sample programs and documentation (not built).
* `TrayHook`: StopTrayHook, which wmain reaches only when the wait for its own
  event fails.
* Left out for good in `src/src`: the values of MD5 (never compared), text
  conversion and formatting (no property depends on them), p2pip.txt (never read),
  g_cfgMutex (guards one copy of a value that is set before the receiving thread
  starts).
