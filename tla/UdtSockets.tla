----------------------------- MODULE UdtSockets -----------------------------
(***************************************************************************)
(* The sockets of UDT and how two of them become connected: the table of   *)
(* sockets and multiplexers (api.cpp, CUDTUnited) with its garbage         *)
(* collector, the two halves of the handshake (core.cpp) and the receiver  *)
(* thread that serves them (queue.cpp, CRcvQueue::worker), over a network  *)
(* that loses, repeats and reorders.                                       *)
(*                                                                         *)
(* Two hosts: one listens, on the other every client has a socket, a       *)
(* thread and a multiplexer of its own.  Sockets block (UDT_RCVSYN), as    *)
(* all of this program's do, and carry no data here (see UdtStream).       *)
(* Times are reduced to what the code asks of them: age 1 is more than a   *)
(* second, age 2 at least three.                                           *)
(***************************************************************************)
EXTENDS Integers, FiniteSets, Sequences

CONSTANTS Clients,       \* the IDs of the clients' sockets
          Listener,      \* the ID of the listening socket
          Accepted,      \* the IDs left for accepted sockets, taken from the top
          Backlog,       \* m_uiBackLog
          Attempts,      \* bound: calls of connect per client
          Minutes,       \* bound: times the secret of the cookie changes
          StoreRoom      \* bound: responses kept for a waiting connect (17)

(* IDs are numbers of 30 bits; 0 and 1 name the threads of the listening   *)
(* host, and clients are named by their sockets.                           *)
ASSUME SocketsAssumption ==
  /\ Clients \subseteq Nat \ {0, 1} /\ Accepted \subseteq Nat /\ Listener \in Nat
  /\ IsFiniteSet(Clients) /\ IsFiniteSet(Accepted) /\ Accepted # {}
  /\ Clients \cap Accepted = {} /\ Listener \notin Clients \cup Accepted
  /\ Backlog \in Nat \ {0} /\ Attempts \in Nat \ {0} /\ Minutes \in Nat
  /\ StoreRoom \in Nat \ {0}

NoSocket == -1
Sockets == Clients \cup Accepted \cup {Listener}
Muxes == Clients \cup {Listener}
Hosts == {"server", "client"}
HostOf(s) == IF s \in Clients THEN "client" ELSE "server"
Other(h) == IF h = "client" THEN "server" ELSE "client"
SocketsOf(h) == {s \in Sockets : HostOf(s) = h}
Lowest(S) == CHOOSE s \in S : \A t \in S : s <= t
Highest(S) == CHOOSE s \in S : \A t \in S : t <= s

VARIABLES
  sock,     \* CUDTSocket and its CUDT, and the table that holds it
  queue,    \* m_pQueuedSockets of the listener
  taken,    \* m_pAcceptSockets of the listener
  event,    \* is m_AcceptCond set?
  mux,      \* the multiplexers with their receive queues
  worker,   \* the thread of each receive queue
  gc,       \* the garbage collector of each host
  count,    \* m_iInstanceCount
  app,      \* the threads of the program: one per client, "accepter", "main"
  hs,       \* m_ConnReq and m_ConnRes of each client
  net,      \* every packet ever sent
  minute,   \* the secret of the cookies
  expired,  \* the connection attempts whose three seconds are over
  late,     \* history: a connection was asked for too late to be served safely
  near      \* the hosts that are followed; of a far one only packets come

vars == <<sock, queue, taken, event, mux, worker, gc, count, app, hs, net,
          minute, expired, late, near>>

Threads == Clients \cup {0, 1}
Accepter == 0
Main == 1
ThreadHost(t) == IF t \in Clients THEN "client" ELSE "server"

Flags == {"opened", "listening", "connecting", "connected", "broken",
          "closing", "shutdown", "onList"}

NewSock == [where |-> "none", status |-> "INIT", flags |-> {},
            mux |-> NoSocket, peer |-> NoSocket, isn |-> 0, age |-> 0]

NoMux == [refs |-> 0, listener |-> NoSocket, connectors |-> {},
          store |-> <<>>, entries |-> {}, list |-> {}]

Idle == [pc |-> "idle", msg |-> {}, new |-> NoSocket]

Init ==
  /\ sock = [s \in Sockets |-> NewSock]
  /\ queue = {} /\ taken = {} /\ event = FALSE
  /\ mux = [m \in Muxes |-> NoMux]
  /\ worker = [m \in Muxes |-> Idle]
  /\ gc = [h \in Hosts |-> [pc |-> "off", todo |-> {}, join |-> NoSocket,
                            closing |-> FALSE, final |-> FALSE]]
  /\ count = [h \in Hosts |-> 0]
  /\ app = [t \in Threads |-> [pc |-> "out", sock |-> NoSocket,
                               result |-> "none"]]
  /\ hs = [c \in Clients |-> [isn |-> 0, type |-> 0, cookie |-> 0,
                              res |-> [type |-> 0, isn |-> 0]]]
  /\ net = {} /\ minute = 0 /\ expired = {} /\ late = FALSE
  /\ near \in SUBSET Hosts \ {{}}

(* m_ControlLock: only the collector keeps it from one step to the next.   *)
Free(h) == gc[h].pc \notin {"remove", "join"}

Is(s, f) == f \in sock[s].flags
Located(s) == sock[s].where = "sockets" /\ sock[s].status # "CLOSED"

Goto(t, pc) == app' = [app EXCEPT ![t].pc = pc]

(* Packets: those for a near host stay on the way for ever, so that they   *)
(* may come late, again, in any order, or never.                           *)
Request(c, r) == [kind |-> "request", at |-> "server", from |-> c,
                  isn |-> r.isn, type |-> r.type, cookie |-> r.cookie]
Response(c, isn, type, id) ==
  [kind |-> "response", at |-> "client", to |-> c, type |-> type, isn |-> isn,
   id |-> id, cookie |-> minute]
Shutdown(h, s) == [kind |-> "shutdown", at |-> h, to |-> s]

Send(P) == net' = net \cup {p \in P : p.at \in near}

(* Of a far host anything may come that such a host may send.              *)
Requests ==
  IF "client" \in near THEN {p \in net : p.kind = "request"}
  ELSE {Request(c, [isn |-> 1, type |-> t, cookie |-> minute]) :
          c \in Clients, t \in {1, -1}}

Responses(c) ==
  IF "server" \in near THEN {p \in net : p.kind = "response" /\ p.to = c}
  ELSE {Response(c, i, 1, c) : i \in 1..hs[c].isn}
         \cup {Response(c, i, -1, Lowest(Accepted)) : i \in 1..hs[c].isn}
         \cup {Response(c, i, 1002, c) : i \in 1..hs[c].isn}

Shutdowns == IF near = Hosts THEN {p \in net : p.kind = "shutdown"}
             ELSE {Shutdown(HostOf(s), s) : s \in Sockets}

(* Where both hosts are followed nobody closes anything: a bound.          *)
Ending == near # Hosts

-----------------------------------------------------------------------------
(***************************************************************************)
(* UDT::startup and UDT::cleanup count their callers; the first starts the *)
(* collector, the last waits for its end.                                  *)
(***************************************************************************)
startup(t) ==
  LET h == ThreadHost(t) IN
  /\ t # Accepter /\ app[t].pc = "out" /\ ~gc[h].closing /\ h \in near
  /\ t \in Clients /\ near = Hosts => app[Main].pc = "listening"
  /\ count' = [count EXCEPT ![h] = @ + 1]
  /\ gc' = [gc EXCEPT ![h].pc = IF @ = "off" THEN "sleep" ELSE @]
  /\ Goto(t, "ready")
  /\ UNCHANGED <<sock, queue, taken, event, mux, worker, hs, net, minute,
                 expired, late, near>>

(* A request for a connection that is at work when cleanup begins, or is   *)
(* taken up later (listenRequest), is a late one.                          *)
cleanup(t) ==
  LET h == ThreadHost(t)
      last == count[h] = 1
  IN
  /\ app[t].pc = "closed" /\ ~gc[h].closing
  /\ t = Main => app[Accepter].pc \in {"out", "over"}
  /\ count' = [count EXCEPT ![h] = @ - 1]
  /\ gc' = [gc EXCEPT ![h].closing = last]
  /\ Goto(t, IF last THEN "leaving" ELSE "over")
  /\ late' = (late \/ (last /\ h = "server" /\ worker[Listener].pc # "idle"))
  /\ UNCHANGED <<sock, queue, taken, event, mux, worker, hs, net, minute,
                 expired, near>>

(* The end of cleanup: the collector's thread has ended.                   *)
Left(t) ==
  LET h == ThreadHost(t) IN
  /\ app[t].pc = "leaving" /\ gc[h].pc = "off"
  /\ gc' = [gc EXCEPT ![h].closing = FALSE]
  /\ Goto(t, "over")
  /\ UNCHANGED <<sock, queue, taken, event, mux, worker, count, hs, net,
                 minute, expired, late, near>>

newSocket(t) ==
  LET s == IF t = Main THEN Listener ELSE t IN
  /\ t # Accepter /\ app[t].pc = "ready" /\ sock[s].where = "none"
  /\ Free(ThreadHost(t))
  /\ sock' = [sock EXCEPT ![s].where = "sockets"]
  /\ Goto(t, "socket")
  /\ UNCHANGED <<queue, taken, event, mux, worker, gc, count, hs, net, minute,
                 expired, late, near>>

(* updateMux for an address of the socket's own: a multiplexer with its    *)
(* two queues and their threads.                                           *)
OwnMux(s) == [mux EXCEPT ![s] = [NoMux EXCEPT !.refs = 1]]

bind ==
  /\ app[Main].pc = "socket" /\ Located(Listener)
  /\ sock[Listener].status = "INIT"
  /\ Free("server")
  /\ sock' = [sock EXCEPT ![Listener].status = "OPENED",
                          ![Listener].mux = Listener,
                          ![Listener].flags = {"opened"}]
  /\ mux' = OwnMux(Listener)
  /\ UNCHANGED <<queue, taken, event, worker, gc, count, app, hs, net, minute,
                 expired, late, near>>

listen ==
  /\ app[Main].pc = "socket" /\ Located(Listener)
  /\ sock[Listener].status = "OPENED"
  /\ mux[Listener].listener = NoSocket
  /\ mux' = [mux EXCEPT ![Listener].listener = Listener]
  /\ sock' = [sock EXCEPT ![Listener].status = "LISTENING",
                          ![Listener].flags = @ \cup {"listening"}]
  /\ app' = [app EXCEPT ![Main].pc = "listening",
                        ![Accepter].pc = "ready"]
  /\ UNCHANGED <<queue, taken, event, worker, gc, count, hs, net, minute,
                 expired, late, near>>

-----------------------------------------------------------------------------
(***************************************************************************)
(* UDT::connect: the request, the wait for the response, the end.          *)
(***************************************************************************)
(* The socket is free to try: CUDT::connect refuses one that is connecting *)
(* or connected (5002).                                                    *)
MayTry(c) == ~Is(c, "connecting") /\ ~Is(c, "connected")

connect(c) ==
  /\ app[c].pc \in {"socket", "failed"} /\ hs[c].isn < Attempts
  /\ Located(c) /\ sock[c].status \in {"INIT", "OPENED"} /\ Free("client")
  /\ LET opened == IF sock[c].status = "INIT"
                   THEN [sock[c] EXCEPT !.flags = {"opened"}, !.mux = c]
                   ELSE sock[c]
         first  == [hs[c] EXCEPT !.isn = @ + 1, !.type = 1]
         known  == IF sock[c].status = "INIT" THEN OwnMux(c) ELSE mux
     IN \/ /\ MayTry(c)
           /\ sock' = [sock EXCEPT ![c] = [opened EXCEPT
                         !.status = "CONNECTING",
                         !.flags = @ \cup {"connecting"}]]
           /\ hs' = [hs EXCEPT ![c] = first]
           /\ mux' = [known EXCEPT ![c].connectors =
                        @ \cup {<<c, first.isn>>}]
           /\ Send({Request(c, first)})
           /\ Goto(c, "connecting")
        \/ /\ ~MayTry(c)
           /\ sock' = [sock EXCEPT ![c].status = "OPENED"]
           /\ hs' = [hs EXCEPT ![c].isn = Attempts]
           /\ app' = [app EXCEPT ![c].pc = "failed", ![c].result = "busy"]
           /\ UNCHANGED <<mux, net>>
  /\ UNCHANGED <<queue, taken, event, worker, gc, count, minute, expired, late,
                 near>>

(* The request again, every 250 ms, from the waiting thread or from        *)
(* CRendezvousQueue::updateConnStatus.                                     *)
Resend(c) ==
  /\ \/ app[c].pc = "connecting"
     \/ mux[c].connectors \ expired # {} /\ Located(c)
  /\ Send({Request(c, hs[c])})
  /\ UNCHANGED <<sock, queue, taken, event, mux, worker, gc, count, app, hs,
                 minute, expired, late, near>>

ThreeSeconds(c) ==
  /\ \E k \in mux[c].connectors : k \notin expired
  /\ expired' = expired \cup mux[c].connectors
  /\ UNCHANGED <<sock, queue, taken, event, mux, worker, gc, count, app, hs,
                 net, minute, late, near>>

(* updateConnStatus gives an expired attempt up, and keeps its entry.      *)
GiveUp(c) ==
  /\ mux[c].connectors \cap expired # {} /\ Is(c, "connecting")
  /\ sock' = [sock EXCEPT ![c].flags = @ \ {"connecting"}]
  /\ UNCHANGED <<queue, taken, event, mux, worker, gc, count, app, hs, net,
                 minute, expired, late, near>>

Fail(c, r, why) ==
  /\ sock' = [sock EXCEPT ![c] = [r EXCEPT !.status = "OPENED"]]
  /\ app' = [app EXCEPT ![c].pc = "failed", ![c].result = why]

(* The time is looked at in every round, whether something came or not.    *)
TimeIsUp(c) == <<c, hs[c].isn>> \in expired

connectTimeout(c) ==
  /\ app[c].pc = "connecting" /\ TimeIsUp(c)
  /\ Fail(c, sock[c], "timeout")
  /\ UNCHANGED <<queue, taken, event, mux, worker, gc, count, hs, net, minute,
                 expired, late, near>>

(* removeConnector: the first entry of this ID, and the stored packets.    *)
Forget(x, c) ==
  LET own == {k \in x.connectors : k[1] = c} IN
  [x EXCEPT !.store = <<>>,
            !.connectors = @ \ {k \in own : \A l \in own : k[2] <= l[2]}]

(* Mutant: the security check on the initial sequence number is left out.  *)
VerdictTrusting(c, res) == IF res.type = 1002 THEN "rejected" ELSE "ok"

(* What CUDT::connect checks when its loop is over.                        *)
Verdict(c, res) == CASE res.type = 1002          -> "rejected"
                     [] res.isn # hs[c].isn      -> "insecure"
                     [] OTHER                    -> "ok"

Conclude(c, r, res) ==
  LET v == Verdict(c, res) IN
  IF v = "ok"
  THEN /\ sock' = [sock EXCEPT ![c] = r]
       /\ app' = [app EXCEPT ![c].pc = "connected", ![c].result = v]
  ELSE Fail(c, r, v)

(* A stored response is taken: CUDT::connect(response).                    *)
connectResponse(c) ==
  /\ app[c].pc = "connecting" /\ mux[c].store # <<>> /\ Free("client")
  /\ LET p   == Head(mux[c].store)
         res == [type |-> p.type, isn |-> p.isn]
         x   == [mux[c] EXCEPT !.store = Tail(@)]
         again == [hs[c] EXCEPT !.type = -1, !.cookie = p.cookie, !.res = res]
     IN \/ /\ ~Is(c, "connecting")
           /\ Conclude(c, sock[c], hs[c].res)
           /\ mux' = [mux EXCEPT ![c] = x]
           /\ UNCHANGED <<hs, net>>
        \/ /\ Is(c, "connecting") /\ p.type = 1
           /\ hs' = [hs EXCEPT ![c] = again]
           /\ Send({Request(c, again)})
           /\ mux' = [mux EXCEPT ![c] = x]
           /\ UNCHANGED <<sock, app>>
        \/ /\ Is(c, "connecting") /\ p.type # 1
           /\ Conclude(c, [sock[c] EXCEPT
                 !.status = "CONNECTED", !.peer = p.id,
                 !.flags = (@ \ {"connecting"}) \cup {"connected", "onList"}],
                 res)
           /\ mux' = [mux EXCEPT ![c] =
                        [Forget(x, c) EXCEPT !.entries = @ \cup {c}]]
           /\ hs' = [hs EXCEPT ![c].res = res]
           /\ UNCHANGED net
  /\ UNCHANGED <<queue, taken, event, worker, gc, count, minute, expired, late,
                 near>>

-----------------------------------------------------------------------------
(***************************************************************************)
(* The receiver thread of a multiplexer.                                   *)
(***************************************************************************)
(* A response for a socket that is connecting is stored for its thread.    *)
storePkt(c) ==
  /\ worker[c].pc = "idle" /\ c \notin mux[c].list
  /\ \E k \in mux[c].connectors : k[1] = c
  /\ Len(mux[c].store) < StoreRoom
  /\ \E p \in Responses(c) :
       mux' = [mux EXCEPT ![c].store = Append(@, p)]
  /\ UNCHANGED <<sock, queue, taken, event, worker, gc, count, app, hs, net,
                 minute, expired, late, near>>

(* The listener is in the table, open or in the three seconds that the     *)
(* collector gives to clients that are connecting (api.cpp:1193).          *)
Punctual == /\ sock[Listener].where = "sockets"
            /\ ~gc["server"].closing

Working(pc, p, ns) ==
  worker' = [worker EXCEPT ![Listener] = [pc |-> pc, msg |-> p, new |-> ns]]
Answer(p, type, id) ==
  /\ Send({Response(p.from, p.isn, type, id)})
  /\ worker' = [worker EXCEPT ![Listener] = Idle]

(* CUDT::listen: a first request gets a cookie, a second one must show it. *)
(* The cookie of the minute before is never accepted: it is computed over  *)
(* the text of both.                                                       *)
CookieHolds(p) == p.cookie = minute

listenRequest ==
  /\ worker[Listener].pc = "idle" /\ mux[Listener].listener # NoSocket
  /\ ~Is(Listener, "closing")
  /\ \E p \in Requests :
       \/ /\ p.type = 1
          /\ Answer(p, 1, p.from) /\ UNCHANGED late
       \/ /\ p.type = -1 /\ CookieHolds(p)
          /\ Working("locate", p, NoSocket) /\ UNCHANGED net
          /\ late' = (late \/ ~Punctual)
  /\ UNCHANGED <<sock, queue, taken, event, mux, gc, count, app, hs, minute,
                 expired, near>>

(* Mutant: every request is taken for a new one.                           *)
SameRequestNever(p) == {s \in Accepted : s = p.from}

(* CUDTUnited::locate(peer, id, isn)                                       *)
SameRequest(p) == {s \in Accepted : /\ sock[s].where = "sockets"
                                    /\ sock[s].peer = p.from
                                    /\ sock[s].isn = p.isn}

(* newConnection, up to the test of the backlog.                           *)
locateRequest ==
  LET p == worker[Listener].msg
      S == SameRequest(p)
      d == Lowest(S)
  IN
  /\ worker[Listener].pc = "locate" /\ Free("server")
  /\ \/ /\ ~Located(Listener) /\ Answer(p, 1002, p.from)
        /\ UNCHANGED <<sock, queue, taken>>
     \/ /\ Located(Listener) /\ S # {} /\ ~Is(d, "broken")
        /\ Answer(p, -1, d) /\ UNCHANGED <<sock, queue, taken>>
     \/ /\ Located(Listener) /\ S # {} /\ Is(d, "broken")
        /\ sock' = [sock EXCEPT ![d].status = "CLOSED", ![d].age = 0]
        /\ queue' = queue \ {d} /\ taken' = taken \ {d}
        /\ Working("create", p, NoSocket) /\ UNCHANGED net
     \/ /\ Located(Listener) /\ S = {}
        /\ Working("create", p, NoSocket) /\ UNCHANGED <<sock, queue, taken, net>>
  /\ UNCHANGED <<event, mux, gc, count, app, hs, minute, expired, late, near>>

Fresh == {s \in Accepted : sock[s].where = "none"}
Full == Cardinality(queue) >= Backlog

(* Mutant: the new user is not counted.                                    *)
SharedUncounted(x) == x

(* updateMux(ns, ls): a new socket uses the listener's multiplexer.        *)
Shared(x) == [x EXCEPT !.refs = @ + 1]

(* The new socket shares the listener's multiplexer and is connected at    *)
(* once; its response leaves before anybody can find it.  A socket that    *)
(* cannot be made is refused.                                              *)
createConnection ==
  LET p  == worker[Listener].msg
      ns == Highest(Fresh)
  IN
  /\ worker[Listener].pc = "create" /\ Free("server")
  /\ \/ /\ Full \/ Fresh = {}
        /\ Answer(p, 1002, p.from) /\ UNCHANGED <<sock, mux>>
     \/ /\ ~Full /\ Fresh # {}
        /\ sock' = [sock EXCEPT ![ns] =
             [where |-> "private", status |-> "CONNECTED", mux |-> Listener,
              flags |-> {"opened", "connected", "onList"},
              peer |-> p.from, isn |-> p.isn, age |-> 0]]
        /\ mux' = [mux EXCEPT ![Listener] =
                     [Shared(mux[Listener]) EXCEPT !.entries = @ \cup {ns}]]
        /\ Send({Response(p.from, p.isn, -1, ns)})
        /\ Working("insert", p, ns)
  /\ UNCHANGED <<queue, taken, event, gc, count, app, hs, minute, expired,
                 late, near>>

insertConnection ==
  LET w == worker[Listener] IN
  /\ w.pc = "insert" /\ Free("server")
  /\ sock' = [sock EXCEPT ![w.new].where = "sockets"]
  /\ Working("queue", w.msg, w.new)
  /\ UNCHANGED <<queue, taken, event, mux, gc, count, app, hs, net, minute,
                 expired, late, near>>

queueConnection ==
  /\ worker[Listener].pc = "queue"
  /\ queue' = queue \cup {worker[Listener].new} /\ event' = TRUE
  /\ worker' = [worker EXCEPT ![Listener] = Idle]
  /\ UNCHANGED <<sock, taken, mux, gc, count, app, hs, net, minute, expired,
                 late, near>>

(* The sockets that start to receive join the list and the hash table.     *)
takeEntries(m) ==
  /\ worker[m].pc = "idle" /\ mux[m].entries # {}
  /\ mux' = [mux EXCEPT ![m].list = @ \cup mux[m].entries, ![m].entries = {}]
  /\ UNCHANGED <<sock, queue, taken, event, worker, gc, count, app, hs, net,
                 minute, expired, late, near>>

Alive(s) == Is(s, "connected") /\ ~Is(s, "broken") /\ ~Is(s, "closing")

(* Mutant: the socket stays marked.                                        *)
OffListMarked(r) == r

(* TIMER_CHECK takes a socket that has ended off both.                     *)
OffList(r) == [r EXCEPT !.flags = @ \ {"onList"}]

dropEnded(m) ==
  /\ worker[m].pc = "idle"
  /\ \E s \in mux[m].list :
       /\ ~Alive(s)
       /\ mux' = [mux EXCEPT ![m].list = @ \ {s}]
       /\ sock' = [sock EXCEPT ![s] = OffList(@)]
  /\ UNCHANGED <<queue, taken, event, worker, gc, count, app, hs, net, minute,
                 expired, late, near>>

(* checkTimers: nothing was heard of the peer for too long.                *)
expire(m) ==
  /\ worker[m].pc = "idle" /\ Ending
  /\ \E s \in mux[m].list :
       /\ Alive(s)
       /\ sock' = [sock EXCEPT ![s].flags = @ \cup {"broken", "closing"}]
  /\ UNCHANGED <<queue, taken, event, mux, worker, gc, count, app, hs, net,
                 minute, expired, late, near>>

(* processCtrl: the peer has closed.                                       *)
hearShutdown(m) ==
  /\ worker[m].pc = "idle"
  /\ \E s \in mux[m].list :
       /\ Alive(s)
       /\ Shutdown(HostOf(s), s) \in Shutdowns
       /\ sock' = [sock EXCEPT ![s].flags =
                     @ \cup {"shutdown", "broken", "closing"}]
  /\ UNCHANGED <<queue, taken, event, mux, worker, gc, count, app, hs, net,
                 minute, expired, late, near>>

NewMinute ==
  /\ minute < Minutes /\ near = Hosts /\ minute' = minute + 1
  /\ UNCHANGED <<sock, queue, taken, event, mux, worker, gc, count, app, hs,
                 net, expired, late, near>>

-----------------------------------------------------------------------------
(***************************************************************************)
(* UDT::accept, as built for Windows.                                      *)
(***************************************************************************)
Gone == sock[Listener].status # "LISTENING" \/ Is(Listener, "broken")

accept ==
  /\ app[Accepter].pc = "ready" /\ Ending
  /\ Goto(Accepter, IF Located(Listener) THEN "look" ELSE "over")
  /\ UNCHANGED <<sock, queue, taken, event, mux, worker, gc, count, hs, net,
                 minute, expired, late, near>>

acceptLook ==
  /\ app[Accepter].pc = "look"
  /\ \/ /\ queue # {}
        /\ LET u == Lowest(queue) IN
             /\ queue' = queue \ {u} /\ taken' = taken \cup {u}
             /\ app' = [app EXCEPT ![Accepter].pc = "serving",
                                   ![Accepter].sock = u]
        /\ event' = (event \/ Gone)
     \/ /\ queue = {} /\ sock[Listener].status = "LISTENING"
        /\ Goto(Accepter, "wait") /\ UNCHANGED <<queue, taken, event>>
     \/ /\ queue = {} /\ sock[Listener].status # "LISTENING"
        /\ Goto(Accepter, "over") /\ event' = TRUE
        /\ UNCHANGED <<queue, taken>>
  /\ UNCHANGED <<sock, mux, worker, gc, count, hs, net, minute, expired, late,
                 near>>

(* The event resets itself; who finds the listener closed sets it again.   *)
acceptWoken ==
  /\ app[Accepter].pc = "wait" /\ event
  /\ event' = Gone
  /\ Goto(Accepter, IF Gone THEN "over" ELSE "look")
  /\ UNCHANGED <<sock, queue, taken, mux, worker, gc, count, hs, net, minute,
                 expired, late, near>>

-----------------------------------------------------------------------------
(***************************************************************************)
(* UDT::close.                                                             *)
(***************************************************************************)
(* CUDT::close of the sockets S: their new state, what their multiplexers  *)
(* forget and the shutdown messages they send.                             *)
Ended(r) ==
  IF "opened" \in r.flags
  THEN [r EXCEPT !.flags = (@ \ {"opened", "connected", "listening"})
                             \cup {"closing"}]
  ELSE r

Unheard(S) ==
  [m \in Muxes |->
     LET x == IF mux[m].listener \in S
              THEN [mux[m] EXCEPT !.listener = NoSocket] ELSE mux[m]
     IN IF m \in S /\ {"opened", "connecting"} \subseteq sock[m].flags
        THEN Forget(x, m) ELSE x]

Farewells(S) ==
  {Shutdown(Other(HostOf(s)), sock[s].peer) :
     s \in {t \in S : {"opened", "connected"} \subseteq sock[t].flags
                        /\ ~Is(t, "shutdown")}}

(* A socket the collector closes is broken first.                          *)
Shut(r) == Ended([r EXCEPT !.flags = @ \cup {"broken"}])

InTable(r) == [r EXCEPT !.where = "closed", !.status = "CLOSED", !.age = 0]

Held(t) == IF t = Accepter THEN app[t].sock ELSE t
AfterClose(t) == IF t = Accepter THEN "ready" ELSE "closed"

close(t) ==
  LET s == Held(t) IN
  /\ t # Main /\ app[t].pc \in {"connected", "failed", "serving"} /\ Ending
  /\ Free(ThreadHost(t))
  /\ \/ /\ Located(s)
        /\ sock' = [sock EXCEPT ![s] = Ended(@)]
        /\ mux' = Unheard({s}) /\ Send(Farewells({s}))
        /\ Goto(t, "closing")
     \/ /\ ~Located(s)
        /\ Goto(t, AfterClose(t)) /\ UNCHANGED <<sock, mux, net>>
  /\ UNCHANGED <<queue, taken, event, worker, gc, count, hs, minute, expired,
                 late, near>>

closed(t) ==
  LET s == Held(t) IN
  /\ app[t].pc = "closing" /\ Free(ThreadHost(t))
  /\ sock' = IF Located(s) THEN [sock EXCEPT ![s] = InTable(@)] ELSE sock
  /\ app' = [app EXCEPT ![t].pc = AfterClose(t),
                        ![t].sock = NoSocket]
  /\ UNCHANGED <<queue, taken, event, mux, worker, gc, count, hs, net, minute,
                 expired, late, near>>

(* Mutant: nobody is woken.                                                *)
WakeNobody(e) == e

(* A listener is marked broken, and those in accept are woken.             *)
Wake(e) == TRUE

closeListener ==
  /\ app[Main].pc = "listening" /\ Ending /\ Located(Listener) /\ Free("server")
  /\ sock' = [sock EXCEPT ![Listener].flags = @ \cup {"broken"},
                          ![Listener].age = 0]
  /\ event' = Wake(event)
  /\ Goto(Main, "closed")
  /\ UNCHANGED <<queue, taken, mux, worker, gc, count, hs, net, minute,
                 expired, late, near>>

-----------------------------------------------------------------------------
(***************************************************************************)
(* The garbage collector.                                                  *)
(***************************************************************************)
(* A call that is at work on a socket takes less than a second.            *)
Busy(s) ==
  \/ s \in {Listener, worker[Listener].new} /\ worker[Listener].pc # "idle"
  \/ s = Listener /\ app[Accepter].pc \in {"look", "wait"}
  \/ \E t \in Threads : t # Main /\ app[t].pc = "closing" /\ Held(t) = s

(* How old a socket has to become before the collector goes on.            *)
AgeAsked(s) == CASE sock[s].where = "closed" -> 1
                 [] sock[s].where = "sockets" /\ s = Listener
                      /\ Is(s, "broken")     -> 2
                 [] OTHER                    -> 0

Older(s) ==
  /\ sock[s].age < AgeAsked(s) /\ ~Busy(s)
  /\ sock' = [sock EXCEPT ![s].age = @ + 1]
  /\ UNCHANGED <<queue, taken, event, mux, worker, gc, count, app, hs, net,
                 minute, expired, late, near>>

ToBeClosed(h) == {s \in SocketsOf(h) :
  /\ sock[s].where = "sockets" /\ Is(s, "broken")
  /\ sock[s].status = "LISTENING" => sock[s].age = 2}

(* Mutant: a socket is removed while the receiver thread lists it.         *)
ToBeRemovedListed(h) == {s \in SocketsOf(h) :
  sock[s].where = "closed" /\ sock[s].age >= 1}

ToBeRemoved(h) == {s \in SocketsOf(h) :
  sock[s].where = "closed" /\ sock[s].age >= 1 /\ ~Is(s, "onList")}

(* unread: the sockets passed over while the program has not read all that *)
(* came for them, for some sixty passes (m_iBrokenCounter); here, for as   *)
(* long as it may be.                                                      *)
checkBrokenSockets(h) ==
  \E unread \in SUBSET (ToBeClosed(h) \ {Listener}) :
  LET tbc == ToBeClosed(h) \ unread
      tbr == ToBeRemoved(h)
  IN
  /\ gc[h].pc = "sleep" /\ (gc[h].closing => gc[h].final)
  /\ tbc \cup tbr # {}
  /\ sock' = [s \in Sockets |-> IF s \in tbc THEN InTable(sock[s]) ELSE sock[s]]
  /\ queue' = queue \ tbc /\ taken' = taken \ tbc
  /\ gc' = [gc EXCEPT ![h].pc = "remove", ![h].todo = tbr]
  /\ UNCHANGED <<event, mux, worker, count, app, hs, net, minute, expired,
                 late, near>>

(* removeSocket: a listener takes those nobody accepted with it; the last  *)
(* user of a multiplexer is followed by it.                                *)
removeSocket(h) ==
  LET u == Lowest(gc[h].todo)
      Q == IF u = Listener THEN queue ELSE {}
      m == sock[u].mux
      x == Unheard(Q \cup {u})
  IN
  /\ gc[h].pc = "remove" /\ gc[h].todo # {}
  /\ sock' = [s \in Sockets |->
       CASE s = u     -> [sock[s] EXCEPT !.where = "deleted", !.flags = {}]
         [] s \in Q   -> InTable(Shut(sock[s]))
         [] OTHER     -> sock[s]]
  /\ Send(Farewells(Q \cup {u}))
  /\ queue' = queue \ Q
  /\ taken' = IF u = Listener THEN {} ELSE taken
  /\ \/ /\ m = NoSocket /\ mux' = x
        /\ gc' = [gc EXCEPT ![h].todo = @ \ {u}]
     \/ /\ m # NoSocket
        /\ mux' = [x EXCEPT ![m].refs = @ - 1]
        /\ gc' = [gc EXCEPT ![h].todo = @ \ {u},
                    ![h].join = IF mux[m].refs = 1 THEN m ELSE NoSocket,
                    ![h].pc = IF mux[m].refs = 1 THEN "join" ELSE "remove"]
  /\ UNCHANGED <<event, worker, count, app, hs, minute, expired, late, near>>

(* ~CRcvQueue waits for its thread, with m_ControlLock held.               *)
joinWorker(h) ==
  /\ gc[h].pc = "join" /\ worker[gc[h].join].pc = "idle"
  /\ mux' = [mux EXCEPT ![gc[h].join] = NoMux]
  /\ gc' = [gc EXCEPT ![h].pc = "remove", ![h].join = NoSocket]
  /\ UNCHANGED <<sock, queue, taken, event, worker, count, app, hs, net,
                 minute, expired, late, near>>

endPass(h) ==
  /\ gc[h].pc = "remove" /\ gc[h].todo = {}
  /\ gc' = [gc EXCEPT ![h].pc = "sleep"]
  /\ UNCHANGED <<sock, queue, taken, event, mux, worker, count, app, hs, net,
                 minute, expired, late, near>>

(* cleanup was called: every socket is closed, and old enough at once.     *)
closeAll(h) ==
  LET S == {s \in SocketsOf(h) : sock[s].where = "sockets"} IN
  /\ gc[h].pc = "sleep" /\ gc[h].closing /\ ~gc[h].final
  /\ sock' = [s \in Sockets |->
       CASE s \in S -> [InTable(Shut(sock[s]))
                          EXCEPT !.age = 1]
         [] s \in SocketsOf(h) /\ sock[s].where = "closed"
                    -> [sock[s] EXCEPT !.age = 1]
         [] OTHER   -> sock[s]]
  /\ mux' = Unheard(S) /\ Send(Farewells(S))
  /\ queue' = queue \ S /\ taken' = taken \ S
  /\ gc' = [gc EXCEPT ![h].final = TRUE]
  /\ UNCHANGED <<event, worker, count, app, hs, minute, expired, late, near>>

endCollector(h) ==
  /\ gc[h].pc = "sleep" /\ gc[h].final
  /\ \A s \in SocketsOf(h) : sock[s].where # "closed"
  /\ gc' = [gc EXCEPT ![h].pc = "off", ![h].final = FALSE]
  /\ UNCHANGED <<sock, queue, taken, event, mux, worker, count, app, hs, net,
                 minute, expired, late, near>>

-----------------------------------------------------------------------------
AppStep ==
  \/ \E t \in Threads : startup(t) \/ cleanup(t) \/ Left(t) \/ newSocket(t)
                          \/ close(t) \/ closed(t)
  \/ bind \/ listen \/ accept \/ acceptLook \/ acceptWoken
  \/ \E c \in Clients : connect(c) \/ connectTimeout(c) \/ connectResponse(c)

WorkerStep ==
  \/ listenRequest \/ locateRequest \/ createConnection
  \/ insertConnection \/ queueConnection
  \/ \E m \in Muxes : takeEntries(m) \/ dropEnded(m) \/ hearShutdown(m)
  \/ \E c \in Clients : storePkt(c) \/ Resend(c) \/ GiveUp(c)

CollectorStep ==
  \E h \in Hosts : \/ checkBrokenSockets(h) \/ removeSocket(h) \/ joinWorker(h)
                   \/ endPass(h) \/ closeAll(h) \/ endCollector(h)

Clock == \/ \E c \in Clients : ThreeSeconds(c)
         \/ \E s \in Sockets : Older(s)

Faults == NewMinute \/ \E m \in Muxes : expire(m)

Over == /\ \A t \in Threads : app[t].pc = "over" \/ ThreadHost(t) \notin near
        /\ UNCHANGED vars

Next == AppStep \/ WorkerStep \/ CollectorStep \/ Clock \/ closeListener
          \/ Faults \/ Over

Spec == Init /\ [][Next]_vars

(* The threads run and time passes; packets that are sent again and again  *)
(* arrive.  Nobody has to close the listener, no connection has to break.  *)
Fairness ==
  /\ \A t \in Threads : WF_vars(startup(t) \/ cleanup(t) \/ Left(t)
                           \/ newSocket(t) \/ close(t) \/ closed(t))
  /\ WF_vars(bind \/ listen) /\ WF_vars(accept \/ acceptLook \/ acceptWoken)
  /\ \A c \in Clients : WF_vars(connect(c)) /\ WF_vars(connectTimeout(c))
                          /\ WF_vars(connectResponse(c)) /\ WF_vars(ThreeSeconds(c))
  /\ WF_vars(locateRequest \/ createConnection \/ insertConnection
             \/ queueConnection)
  /\ SF_vars(\E m \in Muxes : takeEntries(m) \/ dropEnded(m))
  /\ \A h \in Hosts : WF_vars(checkBrokenSockets(h)) /\ WF_vars(removeSocket(h)
                        \/ joinWorker(h) \/ endPass(h) \/ closeAll(h)
                        \/ endCollector(h))
  /\ SF_vars(\E s \in Sockets : Older(s))

FairSpec == Spec /\ Fairness

-----------------------------------------------------------------------------
(* The variables hold values of their kind.                                *)
TypeOK ==
  /\ sock \in [Sockets ->
       [where : {"none", "private", "sockets", "closed", "deleted"},
        status : {"INIT", "OPENED", "LISTENING", "CONNECTING", "CONNECTED",
                  "CLOSED"},
        flags : SUBSET Flags, mux : Muxes \cup {NoSocket},
        peer : Sockets \cup {NoSocket}, isn : 0..Attempts, age : 0..2]]
  /\ queue \subseteq Accepted /\ taken \subseteq Accepted
  /\ event \in BOOLEAN /\ late \in BOOLEAN /\ minute \in 0..Minutes
  /\ expired \subseteq Clients \X (1..Attempts)

(* A socket whose object is deleted is known to no receiver thread: it is  *)
(* on no receive list or about to join one, and is nobody's listener       *)
(* (checkBrokenSockets waits for a second and for m_bOnList).  No handler  *)
(* of a request still works for a deleted listener, unless it began when   *)
(* the three seconds of api.cpp:1193 were over or cleanup had begun, which *)
(* nothing prevents.                                                       *)
DeletedIsForgotten ==
  \A s \in Sockets : sock[s].where = "deleted" =>
    /\ \A m \in Muxes : s \notin mux[m].list \cup mux[m].entries
                                  \cup {mux[m].listener}
    /\ s = Listener => late \/ worker[Listener].pc = "idle"

(* A multiplexer counts exactly the sockets that use it, so that its       *)
(* queues outlive the last of them (updateMux, removeSocket), unless a     *)
(* connection was made too late.                                           *)
Counted ==
  \A m \in Muxes : mux[m].refs =
    Cardinality({s \in Sockets : sock[s].mux = m /\ sock[s].where # "deleted"})
EveryUserCounted == late \/ Counted

(* However often a request is repeated, it makes one living connection.    *)
OneForEachRequest ==
  \A s, t \in Accepted :
    /\ s # t /\ sock[s].peer = sock[t].peer /\ sock[s].isn = sock[t].isn
    /\ {s, t} \subseteq {u \in Accepted : sock[u].where = "sockets"}
    => Is(s, "broken") \/ Is(t, "broken")

(* At most Backlog connections wait to be accepted, none of which has been *)
(* accepted already.  All of them are in the table, where removeSocket of  *)
(* the listener dereferences them, unless one was made too late.           *)
QueueIsSound ==
  /\ Cardinality(queue) <= Backlog
  /\ queue \cap taken = {}
  /\ late \/ \A s \in queue : sock[s].where = "sockets"

(* When connect has succeeded and the socket is connected, its peer is a   *)
(* socket that the listening host made for this very attempt.              *)
PeersBelongTogether ==
  \A c \in Clients :
    near = Hosts /\ app[c].pc = "connected" /\ Is(c, "connected") =>
    /\ sock[c].peer \in Accepted
    /\ sock[sock[c].peer].peer = c
    /\ sock[sock[c].peer].isn = hs[c].isn

(* Who waits in accept returns once the listener is closed.                *)
AcceptReturns ==
  (app[Main].pc = "closed") ~> (app[Accepter].pc # "wait")

(* connect ends, if only because its three seconds are over.               *)
ConnectEnds ==
  \A c \in Clients : (app[c].pc = "connecting") ~> (app[c].pc # "connecting")

(* A closed socket is deleted in the end, unless the collector hangs.      *)
ClosedIsDeleted ==
  \A s \in Sockets :
    (sock[s].where = "closed") ~> (sock[s].where = "deleted" \/ late)

(* cleanup returns: the collector finds all sockets deleted one day.  It   *)
(* "always succeed[s]" (doc/cleanup.htm:26), but where a request is at     *)
(* work its receiver thread waits for m_ControlLock, and the collector,    *)
(* which holds it, for the thread.                                         *)
CleanupReturns ==
  \A t \in Threads : (app[t].pc = "leaving") ~> (app[t].pc = "over")

(* Without a late request it does return.                                  *)
PunctualCleanupReturns ==
  \A t \in Threads : (app[t].pc = "leaving") ~> (app[t].pc = "over" \/ late)

(* The backlog of the listener: one connection for each request, each      *)
(* waiting once, and values of their kind.                                 *)
BacklogIsSound == TypeOK /\ OneForEachRequest /\ QueueIsSound

(* The calls a program can wait in return.                                 *)
CallsReturn == AcceptReturns /\ ConnectEnds /\ PunctualCleanupReturns
=============================================================================
