-------------------------- MODULE UdtSocketsProofs --------------------------
(***************************************************************************)
(* Machine-checked proofs about UdtSockets, for any clients, any IDs and   *)
(* any length of the backlog, until a connection is asked for too late: a  *)
(* socket is accepted once and is in the table while it waits, a request   *)
(* makes one living connection, a multiplexer counts exactly its users,    *)
(* nothing refers to a deleted socket, and a connected client has the one  *)
(* socket of the server that was made for it.                              *)
(*                                                                         *)
(* The argument: the receiver thread of the listener is the only one that  *)
(* makes connections.  From the search for an earlier connection of the    *)
(* same request to the entry in the backlog, the new socket is known to    *)
(* nobody who could close it; the collector removes sockets that were      *)
(* closed before, which are in no backlog and on no list any more; and a   *)
(* response in the network names a socket made for the one it is for.      *)
(***************************************************************************)
EXTENDS UdtSockets, FiniteSetTheorems, WellFoundedInduction, TLAPS

-----------------------------------------------------------------------------
(* Types *)

Wheres == {"none", "private", "sockets", "closed", "deleted"}
Statuses == {"INIT", "OPENED", "LISTENING", "CONNECTING", "CONNECTED", "CLOSED"}
SockType == [where : Wheres, status : Statuses, flags : SUBSET Flags,
             mux : Muxes \cup {NoSocket}, peer : Sockets \cup {NoSocket},
             isn : 0..Attempts, age : 0..2]

RequestType == [kind : {"request"}, at : {"server"}, from : Clients,
                isn : 0..Attempts, type : {0, 1, -1}, cookie : 0..Minutes]
ResponseType == [kind : {"response"}, at : {"client"}, to : Clients,
                 type : {1, -1, 1002}, isn : 0..Attempts, id : Sockets,
                 cookie : 0..Minutes]
ShutdownType == [kind : {"shutdown"}, at : Hosts, to : Sockets \cup {NoSocket}]

MuxType == [refs : Int, listener : {NoSocket, Listener},
            connectors : SUBSET (Clients \X (1..Attempts)),
            store : Seq(ResponseType), entries : SUBSET Sockets,
            list : SUBSET Sockets]

ResType == [type : {0, 1, -1, 1002}, isn : 0..Attempts]
HsType == [isn : 0..Attempts, type : {0, 1, -1}, cookie : 0..Minutes, res : ResType]

GcType == [pc : {"off", "sleep", "remove", "join"}, todo : SUBSET Sockets,
           join : Muxes \cup {NoSocket}, closing : BOOLEAN, final : BOOLEAN]

WorkerType == [pc : {"idle", "locate", "create", "insert", "queue"},
               msg : RequestType \cup {{}}, new : Sockets \cup {NoSocket}]

AppPcs == {"out", "ready", "socket", "listening", "look", "wait", "serving",
           "connecting", "connected", "failed", "closing", "closed", "leaving",
           "over"}
AppType == [pc : AppPcs, sock : Sockets \cup {NoSocket},
            result : {"none", "ok", "busy", "timeout", "rejected", "insecure"}]

Types ==
  /\ sock \in [Sockets -> SockType]
  /\ queue \subseteq Accepted /\ taken \subseteq Accepted
  /\ event \in BOOLEAN /\ minute \in 0..Minutes
  /\ expired \subseteq Clients \X (1..Attempts)
  /\ mux \in [Muxes -> MuxType]
  /\ worker \in [Muxes -> WorkerType]
  /\ gc \in [Hosts -> GcType]
  /\ count \in [Hosts -> Int]
  /\ app \in [Threads -> AppType]
  /\ hs \in [Clients -> HsType]
  /\ net \subseteq RequestType \cup ResponseType \cup ShutdownType
  /\ near \subseteq Hosts

\* Who is where in the program of the listening host.
AppInv ==
  /\ app[Accepter].pc \in {"out", "ready", "look", "wait", "serving", "closing", "over"}
  /\ app[Accepter].pc \in {"serving", "closing"} => app[Accepter].sock \in Accepted
  /\ app[Main].pc # "closing"

-----------------------------------------------------------------------------
(* The inductive invariant *)

\* The only multiplexer a socket may use.
Own(s) == IF s \in Clients THEN s ELSE Listener

\* Sockets and multiplexers before they are first used.
FirstUse ==
  /\ \A s \in Sockets :
       /\ sock[s].mux \in {NoSocket, Own(s)}
       /\ s \in Accepted /\ sock[s].where = "none" => sock[s].status = "INIT"
       /\ sock[s].status = "INIT" => sock[s].mux = NoSocket
  /\ \A m \in Muxes : sock[m].status = "INIT" => mux[m].refs = 0
  /\ mux[Listener].listener # NoSocket => sock[Listener].status # "INIT"

\* The receiver threads, and what they list.
Threaded ==
  /\ \A c \in Clients : worker[c].pc = "idle" /\ mux[c].list \cup mux[c].entries \subseteq {c}
  /\ worker[Listener].pc # "idle" =>
       /\ sock[Listener].status # "INIT"
       /\ worker[Listener].msg \in RequestType
       /\ ~gc["server"].closing

\* The socket s answers request p.
Answers(s, p) == sock[s].peer = p.from /\ sock[s].isn = p.isn

\* The IDs of accepted sockets are taken from the top; of two sockets that
\* answer the same request, the older one is broken.
Descending ==
  /\ \A s, t \in Accepted : s < t /\ sock[s].where # "none" => sock[t].where # "none"
  /\ \A s, t \in Accepted :
       /\ s < t /\ sock[s].where = "sockets" /\ sock[t].where = "sockets"
       /\ sock[s].peer = sock[t].peer /\ sock[s].isn = sock[t].isn
       => Is(t, "broken")

\* The connection the receiver thread of the listener is making.
MakingInv ==
  LET w == worker[Listener] IN
  /\ w.pc \in {"create", "insert"} =>
       \A s \in Accepted : sock[s].where = "sockets" /\ Answers(s, w.msg) => Is(s, "broken")
  /\ w.pc \in {"insert", "queue"} =>
       /\ w.new \in Accepted
       /\ ~Is(w.new, "broken")
       /\ Cardinality(queue) < Backlog
  /\ w.pc = "insert" =>
       /\ sock[w.new].where = "private" /\ Answers(w.new, w.msg)
       /\ \A s \in Accepted : sock[s].where = "sockets" => w.new < s
  /\ w.pc = "queue" =>
       /\ sock[w.new].where = "sockets"
       /\ w.new \notin queue \cup taken \cup {app[Accepter].sock}

\* A connection has been given to the program, or was before.
Known(s) == s \in Accepted /\ sock[s].where \notin {"none", "private"}

WaitingInv ==
  /\ Cardinality(queue) <= Backlog
  /\ \A s \in queue : sock[s].where = "sockets" /\ s # app[Accepter].sock /\ s \notin taken
  /\ \A s \in taken : Known(s)
  /\ app[Accepter].sock # NoSocket => Known(app[Accepter].sock)

\* What the collector has decided to remove.
RemovingInv ==
  \A h \in Hosts :
    /\ gc[h].todo \subseteq SocketsOf(h)
    /\ \A s \in gc[h].todo : sock[s].where = "closed"
    /\ Free(h) => gc[h].todo = {}
    /\ gc[h].pc = "join" => /\ gc[h].join \in Muxes /\ HostOf(gc[h].join) = h
                            /\ mux[gc[h].join].refs = 0

Core == /\ FirstUse /\ Threaded /\ Descending /\ MakingInv /\ WaitingInv
        /\ RemovingInv /\ Counted

IInv == Types /\ AppInv /\ Core

-----------------------------------------------------------------------------
(* Numbers and sets *)

LEMMA LowestOf ==
  ASSUME NEW S, S \subseteq Nat, IsFiniteSet(S), S # {}
  PROVE  Lowest(S) \in S /\ \A t \in S : Lowest(S) <= t
<1> DEFINE Below(y) == {z \in S : z < y}
           T == {Below(y) : y \in S}
<1>1. T \subseteq FiniteSubsetsOf(S) /\ T # {}
  <2>1. \A y \in S : Below(y) \in SUBSET S /\ IsFiniteSet(Below(y))
    BY FS_Subset
  <2> HIDE DEF Below
  <2> QED BY <2>1 DEF FiniteSubsetsOf
<1>2. PICK B \in T : \A C \in T : <<C, B>> \notin StrictSubsetOrdering(S)
  <2> HIDE DEF T
  <2> QED BY <1>1, WFMin, FS_StrictSubsetOrderingWellFounded
<1>3. PICK y \in S : B = Below(y)
  OBVIOUS
<1>4. ASSUME NEW z \in S, z < y PROVE FALSE
  <2>1. z \in Nat /\ y \in Nat
    OBVIOUS
  <2>2. Below(z) \subseteq B
    <3>1. ASSUME NEW w \in Below(z) PROVE w \in S /\ w < y
      <4>1. w \in Nat /\ w \in S
        OBVIOUS
      <4> QED BY <1>4, <2>1, <4>1
    <3> QED BY <1>3, <3>1
  <2>3. z \in B /\ z \notin Below(z)
    BY <1>3, <1>4, <2>1
  <2>4. Below(z) \in SUBSET S /\ B \in SUBSET S
    BY <1>3
  <2>5. <<Below(z), B>> \in StrictSubsetOrdering(S)
    <3> HIDE DEF Below
    <3> QED BY <2>2, <2>3, <2>4 DEF StrictSubsetOrdering
  <2> QED BY <1>2, <2>5
<1>5. y \in S /\ \A t \in S : y <= t
  BY <1>4
<1> QED BY <1>5 DEF Lowest

LEMMA HighestOf ==
  ASSUME NEW S, S \subseteq Nat, IsFiniteSet(S), S # {}
  PROVE  Highest(S) \in S /\ \A t \in S : t <= Highest(S)
<1> DEFINE Above(y) == {z \in S : y < z}
           T == {Above(y) : y \in S}
<1>1. T \subseteq FiniteSubsetsOf(S) /\ T # {}
  <2>1. \A y \in S : Above(y) \in SUBSET S /\ IsFiniteSet(Above(y))
    BY FS_Subset
  <2> HIDE DEF Above
  <2> QED BY <2>1 DEF FiniteSubsetsOf
<1>2. PICK B \in T : \A C \in T : <<C, B>> \notin StrictSubsetOrdering(S)
  <2> HIDE DEF T
  <2> QED BY <1>1, WFMin, FS_StrictSubsetOrderingWellFounded
<1>3. PICK y \in S : B = Above(y)
  OBVIOUS
<1>4. ASSUME NEW z \in S, y < z PROVE FALSE
  <2>1. z \in Nat /\ y \in Nat
    OBVIOUS
  <2>2. Above(z) \subseteq B
    <3>1. ASSUME NEW w \in Above(z) PROVE w \in S /\ y < w
      <4>1. w \in Nat /\ w \in S
        OBVIOUS
      <4> QED BY <1>4, <2>1, <4>1
    <3> QED BY <1>3, <3>1
  <2>3. z \in B /\ z \notin Above(z)
    BY <1>3, <1>4, <2>1
  <2>4. Above(z) \in SUBSET S /\ B \in SUBSET S
    BY <1>3
  <2>5. <<Above(z), B>> \in StrictSubsetOrdering(S)
    <3> HIDE DEF Above
    <3> QED BY <2>2, <2>3, <2>4 DEF StrictSubsetOrdering
  <2> QED BY <1>2, <2>5
<1>5. y \in S /\ \A t \in S : t <= y
  BY <1>4
<1> QED BY <1>5 DEF Highest

LEMMA IdFacts ==
  /\ IsFiniteSet(Sockets) /\ Sockets \subseteq Nat
  /\ Listener \in Sockets /\ Listener \in Muxes /\ Listener \notin Accepted
  /\ Listener \notin Clients /\ Clients \cap Accepted = {}
  /\ NoSocket \notin Sockets /\ NoSocket \notin Muxes
  /\ Muxes \subseteq Sockets /\ Accepted \subseteq Sockets /\ Clients \subseteq Sockets
  /\ Accepter \notin Clients /\ Main \notin Clients /\ Accepter # Main
  /\ Accepter \in Threads /\ Main \in Threads /\ Clients \subseteq Threads
  /\ Accepted # {} /\ IsFiniteSet(Accepted)
<1>1. IsFiniteSet({Listener}) /\ IsFiniteSet(Clients \cup Accepted)
  BY SocketsAssumption, FS_Singleton, FS_Union
<1>2. Sockets = (Clients \cup Accepted) \cup {Listener}
  BY DEF Sockets
<1>3. IsFiniteSet(Sockets)
  BY <1>1, <1>2, FS_Union
<1>4. Sockets \subseteq Nat /\ NoSocket \notin Nat
  BY SocketsAssumption DEF Sockets, NoSocket
<1>5. /\ Accepter \notin Clients /\ Main \notin Clients /\ Accepter # Main
      /\ Accepter \in Threads /\ Main \in Threads /\ Clients \subseteq Threads
  BY SocketsAssumption DEF Threads, Accepter, Main
<1>6. /\ Listener \in Sockets /\ Listener \in Muxes
      /\ Muxes \subseteq Sockets /\ Accepted \subseteq Sockets /\ Clients \subseteq Sockets
  BY DEF Sockets, Muxes
<1>7. /\ Listener \notin Accepted /\ Listener \notin Clients
      /\ Clients \cap Accepted = {} /\ Accepted # {} /\ IsFiniteSet(Accepted)
  BY SocketsAssumption
<1> QED
  BY <1>3, <1>4, <1>5, <1>6, <1>7

LEMMA HostFacts ==
  /\ \A s \in Sockets : HostOf(s) \in Hosts /\ Own(s) \in Muxes
  /\ \A t \in Threads : ThreadHost(t) \in Hosts
  /\ HostOf(Listener) = "server" /\ ThreadHost(Accepter) = "server"
  /\ ThreadHost(Main) = "server"
  /\ \A c \in Clients : HostOf(c) = "client" /\ ThreadHost(c) = "client" /\ Own(c) = c
  /\ \A s \in Accepted : HostOf(s) = "server" /\ Own(s) = Listener
  /\ Own(Listener) = Listener
  /\ "server" \in Hosts /\ "client" \in Hosts
  BY IdFacts DEF HostOf, ThreadHost, Hosts, Own, Muxes, Sockets

LEMMA ExtremeIds ==
  /\ Lowest(Accepted) \in Accepted
  /\ \A S \in SUBSET Sockets : S # {} => /\ Lowest(S) \in S /\ \A t \in S : Lowest(S) <= t
                                         /\ Highest(S) \in S /\ \A t \in S : t <= Highest(S)
<1>1. ASSUME NEW S \in SUBSET Sockets, S # {}
      PROVE  /\ Lowest(S) \in S /\ \A t \in S : Lowest(S) <= t
             /\ Highest(S) \in S /\ \A t \in S : t <= Highest(S)
  <2>1. IsFiniteSet(S) /\ S \subseteq Nat
    BY IdFacts, FS_Subset
  <2> QED BY <1>1, <2>1, LowestOf, HighestOf
<1> QED BY <1>1, IdFacts

-----------------------------------------------------------------------------
(* Packets, and what the parts of an action do to a socket or multiplexer *)

Packets == RequestType \cup ResponseType \cup ShutdownType

LEMMA PacketKinds ==
  /\ \A p \in RequestType : p.kind = "request"
  /\ \A p \in ResponseType : p.kind = "response"
  /\ \A p \in ShutdownType : p.kind = "shutdown"
  BY DEF RequestType, ResponseType, ShutdownType

LEMMA RequestsType ==
  ASSUME Types
  PROVE  Requests \subseteq RequestType
<1>1. CASE "client" \in near
  <2>1. \A p \in net : p.kind = "request" => p \in RequestType
    BY PacketKinds DEF Types
  <2> QED BY <1>1, <2>1 DEF Requests
<1>2. CASE "client" \notin near
  <2>1. 1 \in 0..Attempts /\ minute \in 0..Minutes
    BY SocketsAssumption DEF Types
  <2>2. ASSUME NEW c \in Clients, NEW t \in {1, -1}
        PROVE  Request(c, [isn |-> 1, type |-> t, cookie |-> minute]) \in RequestType
    BY <2>1, <2>2 DEF Request, RequestType
  <2> QED BY <1>2, <2>2 DEF Requests
<1> QED BY <1>1, <1>2

LEMMA ResponsesType ==
  ASSUME Types, NEW c \in Clients
  PROVE  Responses(c) \subseteq ResponseType
<1>1. CASE "server" \in near
  <2>1. \A p \in net : p.kind = "response" => p \in ResponseType
    BY PacketKinds DEF Types
  <2> QED BY <1>1, <2>1 DEF Responses
<1>2. CASE "server" \notin near
  <2>1. hs[c].isn \in 0..Attempts /\ minute \in 0..Minutes /\ Attempts \in Nat
    BY SocketsAssumption DEF Types, HsType
  <2>2. \A i \in 1..hs[c].isn : i \in 0..Attempts
    BY <2>1
  <2>3. c \in Sockets /\ Lowest(Accepted) \in Sockets
    BY IdFacts, ExtremeIds
  <2>4. ASSUME NEW i \in 0..Attempts, NEW t \in {1, -1, 1002}, NEW d \in Sockets
        PROVE  Response(c, i, t, d) \in ResponseType
    BY <2>1 DEF Response, ResponseType
  <2>5. \A p \in Responses(c) : \E i \in 0..Attempts, t \in {1, -1, 1002}, d \in Sockets :
          p = Response(c, i, t, d)
    BY <1>2, <2>2, <2>3 DEF Responses
  <2> QED BY <2>4, <2>5
<1> QED BY <1>1, <1>2

LEMMA SendType ==
  ASSUME Types, NEW P, P \subseteq Packets, Send(P)
  PROVE  net' \subseteq Packets
  BY DEF Types, Packets, Send

LEMMA ForgetDoes ==
  ASSUME NEW x \in MuxType, NEW c
  PROVE  /\ Forget(x, c) \in MuxType
         /\ Forget(x, c).refs = x.refs /\ Forget(x, c).listener = x.listener
         /\ Forget(x, c).entries = x.entries /\ Forget(x, c).list = x.list
<1> DEFINE own == {k \in x.connectors : k[1] = c}
           D == {k \in own : \A l \in own : k[2] <= l[2]}
<1>1. Forget(x, c) = [x EXCEPT !.store = <<>>, !.connectors = @ \ D]
  BY DEF Forget
<1> HIDE DEF D
<1>2. <<>> \in Seq(ResponseType)
  OBVIOUS
<1> QED BY <1>1, <1>2 DEF MuxType

\* What closing does to a socket: it stays where it is, the socket it was, and
\* broken if it was.
Closing(r, q) ==
  /\ q \in SockType
  /\ q.where = r.where /\ q.mux = r.mux /\ q.peer = r.peer /\ q.isn = r.isn
  /\ q.status = r.status
  /\ "broken" \in r.flags => "broken" \in q.flags

LEMMA EndedDoes ==
  ASSUME NEW r \in SockType
  PROVE  /\ Closing(r, Ended(r))
         /\ Closing(r, Shut(r)) /\ "broken" \in Shut(r).flags
<1>1. ASSUME NEW q \in SockType
      PROVE  Closing(q, Ended(q))
  <2>1. CASE "opened" \in q.flags
    <3> DEFINE F == (q.flags \ {"opened", "connected", "listening"}) \cup {"closing"}
    <3>1. F \in SUBSET Flags /\ ("broken" \in q.flags => "broken" \in F)
      BY DEF SockType, Flags
    <3>2. Ended(q) = [q EXCEPT !.flags = F]
      BY <2>1 DEF Ended
    <3> HIDE DEF F
    <3> QED BY <3>1, <3>2 DEF Closing, SockType
  <2>2. CASE "opened" \notin q.flags
    BY <2>2 DEF Ended, Closing
  <2> QED BY <2>1, <2>2
<1> DEFINE B == r.flags \cup {"broken"}
           b == [r EXCEPT !.flags = B]
<1>2. B \in SUBSET Flags /\ "broken" \in B
  BY DEF SockType, Flags
<1>3. Shut(r) = Ended(b)
  BY DEF Shut
<1> HIDE DEF B
<1>4. /\ b \in SockType /\ b.flags = B
      /\ b.where = r.where /\ b.mux = r.mux /\ b.peer = r.peer /\ b.isn = r.isn
      /\ b.status = r.status
  BY <1>2 DEF SockType
<1> HIDE DEF b
<1> QED BY <1>1, <1>2, <1>3, <1>4 DEF Closing

LEMMA InTableDoes ==
  ASSUME NEW r \in SockType
  PROVE  /\ InTable(r) \in SockType
         /\ InTable(r).where = "closed" /\ InTable(r).status = "CLOSED"
         /\ InTable(r).mux = r.mux /\ InTable(r).flags = r.flags
         /\ InTable(r).peer = r.peer /\ InTable(r).isn = r.isn
<1>1. "closed" \in Wheres /\ "CLOSED" \in Statuses /\ 0 \in 0..2
  BY DEF Wheres, Statuses
<1>2. InTable(r) \in SockType
  BY <1>1 DEF InTable, SockType
<1>3. InTable(r).where = "closed" /\ InTable(r).status = "CLOSED"
  BY DEF InTable, SockType
<1>4. /\ InTable(r).mux = r.mux /\ InTable(r).flags = r.flags
      /\ InTable(r).peer = r.peer /\ InTable(r).isn = r.isn
  BY DEF InTable, SockType
<1> QED BY <1>2, <1>3, <1>4

LEMMA UnheardDoes ==
  ASSUME Types, NEW S
  PROVE  /\ Unheard(S) \in [Muxes -> MuxType]
         /\ \A m \in Muxes :
              /\ Unheard(S)[m].refs = mux[m].refs
              /\ Unheard(S)[m].entries = mux[m].entries
              /\ Unheard(S)[m].list = mux[m].list
              /\ Unheard(S)[m].listener \in {NoSocket, mux[m].listener}
<1>1. ASSUME NEW m \in Muxes
      PROVE  /\ Unheard(S)[m] \in MuxType
             /\ Unheard(S)[m].refs = mux[m].refs
             /\ Unheard(S)[m].entries = mux[m].entries
             /\ Unheard(S)[m].list = mux[m].list
             /\ Unheard(S)[m].listener \in {NoSocket, mux[m].listener}
  <2> DEFINE x == IF mux[m].listener \in S
                  THEN [mux[m] EXCEPT !.listener = NoSocket] ELSE mux[m]
  <2>1. mux[m] \in MuxType
    BY DEF Types
  <2>2. /\ x \in MuxType /\ x.refs = mux[m].refs /\ x.entries = mux[m].entries
        /\ x.list = mux[m].list /\ x.listener \in {NoSocket, mux[m].listener}
    <3>1. CASE mux[m].listener \in S
      BY <2>1, <3>1 DEF MuxType
    <3>2. CASE mux[m].listener \notin S
      BY <2>1, <3>2
    <3> QED BY <3>1, <3>2
  <2>3. Unheard(S)[m] = Forget(x, m) \/ Unheard(S)[m] = x
    BY DEF Unheard
  <2> HIDE DEF x
  <2>4. /\ Forget(x, m) \in MuxType
        /\ Forget(x, m).refs = x.refs /\ Forget(x, m).listener = x.listener
        /\ Forget(x, m).entries = x.entries /\ Forget(x, m).list = x.list
    BY <2>2, ForgetDoes
  <2> QED BY <2>2, <2>3, <2>4
<1>2. Unheard(S) = [m \in Muxes |-> Unheard(S)[m]]
  BY DEF Unheard
<1> QED BY <1>1, <1>2

LEMMA FarewellsType ==
  ASSUME Types, NEW S, S \subseteq Sockets
  PROVE  Farewells(S) \subseteq Packets
<1>1. ASSUME NEW s \in S
      PROVE  Shutdown(Other(HostOf(s)), sock[s].peer) \in ShutdownType
  <2>1. Other(HostOf(s)) \in Hosts
    BY HostFacts DEF Other, Hosts
  <2>2. sock[s].peer \in Sockets \cup {NoSocket}
    BY DEF Types, SockType
  <2> QED BY <2>1, <2>2 DEF Shutdown, ShutdownType
<1> QED BY <1>1 DEF Farewells, Packets

-----------------------------------------------------------------------------
(* Steps that leave the users of the multiplexers as they are *)

\* The socket s is the connection being made.
Making(s) == worker[Listener].pc \in {"insert", "queue"} /\ s = worker[Listener].new

\* A socket stays where it is, or is new and no accepted one, or is closed.
Moves(s) ==
  \/ sock'[s].where = sock[s].where
  \/ s \notin Accepted /\ sock[s].where = "none" /\ sock'[s].where = "sockets"
  \/ sock[s].where = "sockets" /\ sock'[s].where = "closed" /\ ~Making(s) /\ s \notin queue'

KeepSockets ==
  /\ \A s \in Sockets :
       /\ Moves(s)
       /\ sock'[s].mux = sock[s].mux
       /\ sock'[s].status = "INIT" => sock[s].status = "INIT"
       /\ s \in Accepted /\ sock'[s].where = "none" => sock'[s].status = sock[s].status
  /\ \A s \in Accepted :
       /\ sock'[s].peer = sock[s].peer /\ sock'[s].isn = sock[s].isn
       /\ Is(s, "broken") => Is(s, "broken")'
       /\ Making(s) => ~Is(s, "broken")'

KeepMuxes ==
  /\ \A m \in Muxes : mux'[m].refs = mux[m].refs
  /\ mux'[Listener].listener # NoSocket =>
       mux[Listener].listener # NoSocket \/ sock[Listener].status # "INIT"
  /\ \A c \in Clients : mux'[c].list \cup mux'[c].entries
                          \subseteq mux[c].list \cup mux[c].entries \cup {c}

KeepWaiting ==
  /\ queue' \subseteq queue /\ taken' \subseteq taken
  /\ app'[Accepter].sock \in {app[Accepter].sock, NoSocket}

LEMMA KeepCount ==
  ASSUME Counted, KeepSockets, KeepMuxes
  PROVE  Counted'
<1> DEFINE U(m) == {s \in Sockets : sock[s].mux = m /\ sock[s].where # "deleted"}
           V(m) == {s \in Sockets : sock'[s].mux = m /\ sock'[s].where # "deleted"}
<1>1. ASSUME NEW m \in Muxes PROVE V(m) = U(m)
  BY DEF KeepSockets, Moves
<1>2. \A m \in Muxes : mux'[m].refs = mux[m].refs /\ mux[m].refs = Cardinality(U(m))
  BY DEF KeepMuxes, Counted
<1>3. \A m \in Muxes : mux'[m].refs = Cardinality(V(m))
  <2> HIDE DEF U, V
  <2> QED BY <1>1, <1>2
<1> QED BY <1>3 DEF Counted

LEMMA KeepFirstUse ==
  ASSUME FirstUse, KeepSockets, KeepMuxes
  PROVE  FirstUse'
<1>1. ASSUME NEW s \in Sockets
      PROVE  /\ sock'[s].mux \in {NoSocket, Own(s)}
             /\ s \in Accepted /\ sock'[s].where = "none" => sock'[s].status = "INIT"
             /\ sock'[s].status = "INIT" => sock'[s].mux = NoSocket
  BY DEF FirstUse, KeepSockets, Moves
<1>2. ASSUME NEW m \in Muxes
      PROVE  sock'[m].status = "INIT" => mux'[m].refs = 0
  BY IdFacts DEF FirstUse, KeepSockets, KeepMuxes
<1>3. mux'[Listener].listener # NoSocket => sock'[Listener].status # "INIT"
  BY IdFacts DEF FirstUse, KeepSockets, KeepMuxes
<1> QED BY <1>1, <1>2, <1>3 DEF FirstUse, Own

LEMMA KeepDescending ==
  ASSUME Descending, KeepSockets
  PROVE  Descending'
<1>1. \A s \in Accepted : /\ sock'[s].where = "none" <=> sock[s].where = "none"
                          /\ sock'[s].where = "sockets" => sock[s].where = "sockets"
  BY IdFacts DEF KeepSockets, Moves
<1>2. \A s \in Accepted : /\ sock'[s].peer = sock[s].peer /\ sock'[s].isn = sock[s].isn
                          /\ Is(s, "broken") => Is(s, "broken")'
  BY DEF KeepSockets
<1> HIDE DEF Is
<1> QED BY <1>1, <1>2 DEF Descending

LEMMA KeepThreaded ==
  ASSUME Threaded, KeepSockets, KeepMuxes,
         \A m \in Muxes : worker'[m] = worker[m] \/ worker'[m].pc = "idle",
         gc'["server"].closing => gc["server"].closing \/ worker[Listener].pc = "idle"
  PROVE  Threaded'
<1>1. ASSUME NEW c \in Clients
      PROVE  worker'[c].pc = "idle" /\ mux'[c].list \cup mux'[c].entries \subseteq {c}
  BY DEF Threaded, KeepMuxes, Muxes
<1>2. ASSUME worker'[Listener].pc # "idle"
      PROVE  worker'[Listener] = worker[Listener] /\ worker[Listener].pc # "idle"
  BY <1>2, IdFacts
<1>3. worker'[Listener].pc # "idle" => ~gc'["server"].closing
  BY <1>2 DEF Threaded
<1>4. worker'[Listener].pc # "idle" =>
        sock'[Listener].status # "INIT" /\ worker'[Listener].msg \in RequestType
  BY <1>2, IdFacts DEF Threaded, KeepSockets
<1> QED BY <1>1, <1>3, <1>4 DEF Threaded

LEMMA SmallerQueue ==
  ASSUME NEW Q, Q \subseteq Accepted, NEW R, R \subseteq Q
  PROVE  /\ IsFiniteSet(Q) /\ Cardinality(Q) \in Nat /\ Cardinality(R) \in Nat
         /\ Cardinality(R) <= Cardinality(Q)
  BY IdFacts, FS_Subset, FS_CardinalityType

LEMMA KeepMaking ==
  ASSUME Types, MakingInv, KeepSockets, KeepWaiting,
         worker'[Listener] = worker[Listener] \/ worker'[Listener].pc = "idle"
  PROVE  MakingInv'
<1>1. CASE worker'[Listener].pc = "idle"
  BY <1>1 DEF MakingInv
<1>2. CASE worker'[Listener] = worker[Listener]
  <2>1. PICK w : w = worker[Listener] /\ worker'[Listener] = w
    BY <1>2
  <2>2. \A s \in Accepted :
          /\ sock'[s].where = "sockets" => sock[s].where = "sockets"
          /\ sock'[s].peer = sock[s].peer /\ sock'[s].isn = sock[s].isn
          /\ "broken" \in sock[s].flags => "broken" \in sock'[s].flags
    BY IdFacts DEF KeepSockets, Moves, Is
  <2>3. w.pc \in {"create", "insert"} =>
          \A s \in Accepted : /\ sock'[s].where = "sockets"
                             /\ sock'[s].peer = w.msg.from /\ sock'[s].isn = w.msg.isn
                             => "broken" \in sock'[s].flags
    BY <2>1, <2>2 DEF MakingInv, Answers, Is
  <2>4. w.pc \in {"insert", "queue"} =>
          /\ w.new \in Accepted /\ "broken" \notin sock'[w.new].flags
          /\ sock'[w.new].where = sock[w.new].where
          /\ sock'[w.new].peer = sock[w.new].peer /\ sock'[w.new].isn = sock[w.new].isn
    <3> SUFFICES ASSUME w.pc \in {"insert", "queue"} PROVE
          /\ w.new \in Accepted /\ "broken" \notin sock'[w.new].flags
          /\ sock'[w.new].where = sock[w.new].where
          /\ sock'[w.new].peer = sock[w.new].peer /\ sock'[w.new].isn = sock[w.new].isn
      OBVIOUS
    <3>1. w.new \in Accepted /\ w.new \in Sockets /\ Making(w.new)
          /\ sock[w.new].where \in {"private", "sockets"} /\ ~Is(w.new, "broken")
      BY <2>1, IdFacts DEF MakingInv, Making
    <3>2. "broken" \notin sock'[w.new].flags
          /\ sock'[w.new].peer = sock[w.new].peer /\ sock'[w.new].isn = sock[w.new].isn
      BY <3>1 DEF KeepSockets, Is
    <3>3. Moves(w.new)
      BY <3>1 DEF KeepSockets
    <3>4. sock'[w.new].where = sock[w.new].where
      BY <3>1, <3>3 DEF Moves
    <3> QED BY <3>1, <3>2, <3>4
  <2>5. w.pc \in {"insert", "queue"} => Cardinality(queue') < Backlog
    <3>1. Cardinality(queue') <= Cardinality(queue) /\ Cardinality(queue) \in Nat
          /\ Cardinality(queue') \in Nat
      BY SmallerQueue DEF Types, KeepWaiting
    <3>2. w.pc \in {"insert", "queue"} => Cardinality(queue) < Backlog
      BY <2>1 DEF MakingInv
    <3> QED BY <3>1, <3>2, SocketsAssumption
  <2>6. w.pc = "insert" =>
          /\ sock'[w.new].where = "private"
          /\ sock'[w.new].peer = w.msg.from /\ sock'[w.new].isn = w.msg.isn
          /\ \A s \in Accepted : sock'[s].where = "sockets" => w.new < s
    BY <2>1, <2>2, <2>4 DEF MakingInv, Answers
  <2>7. w.pc = "queue" =>
          /\ sock'[w.new].where = "sockets"
          /\ w.new \notin queue' \cup taken' \cup {app'[Accepter].sock}
    BY <2>1, <2>4, IdFacts DEF MakingInv, KeepWaiting
  <2> QED BY <2>1, <2>3, <2>4, <2>5, <2>6, <2>7 DEF MakingInv, Answers, Is
<1> QED BY <1>1, <1>2

LEMMA KeepWaitingInv ==
  ASSUME Types, WaitingInv, KeepSockets, KeepWaiting
  PROVE  WaitingInv'
<1>1. Cardinality(queue') <= Backlog
  <2>1. Cardinality(queue') <= Cardinality(queue) /\ Cardinality(queue) \in Nat
        /\ Cardinality(queue') \in Nat /\ Backlog \in Nat
    BY SmallerQueue, SocketsAssumption DEF Types, KeepWaiting
  <2> QED BY <2>1 DEF WaitingInv
<1>2. \A s \in Accepted : Known(s) => Known(s)'
  BY IdFacts DEF Known, KeepSockets, Moves
<1>3. ASSUME NEW s \in queue'
      PROVE  sock'[s].where = "sockets" /\ s # app'[Accepter].sock /\ s \notin taken'
  <2>1. s \in queue /\ s \in Accepted /\ s \in Sockets /\ s # NoSocket
    BY IdFacts DEF KeepWaiting, Types
  <2> QED BY <2>1 DEF WaitingInv, KeepSockets, KeepWaiting, Moves
<1>4. \A s \in taken' : Known(s)'
  BY <1>2 DEF KeepWaiting, WaitingInv, Known
<1>5. (app[Accepter].sock # NoSocket => Known(app[Accepter].sock))'
  BY <1>2 DEF KeepWaiting, WaitingInv, Known
<1> HIDE DEF Known
<1> QED BY <1>1, <1>3, <1>4, <1>5 DEF WaitingInv

\* What the collector has decided is not undone by anybody else.
KeepRemoving ==
  \A h \in Hosts : /\ gc'[h].todo = gc[h].todo
                   /\ Free(h)' => Free(h) \/ gc[h].todo = {}
                   /\ gc'[h].pc = "join" => gc[h].pc = "join" /\ gc'[h].join = gc[h].join

LEMMA KeepRemovingInv ==
  ASSUME RemovingInv, KeepSockets, KeepMuxes, KeepRemoving
  PROVE  RemovingInv'
<1>1. ASSUME NEW h \in Hosts, NEW s \in gc'[h].todo PROVE sock'[s].where = "closed"
  <2>1. s \in gc[h].todo /\ s \in Sockets /\ sock[s].where = "closed"
    BY <1>1 DEF RemovingInv, KeepRemoving, SocketsOf
  <2> QED BY <2>1 DEF KeepSockets, Moves
<1>2. ASSUME NEW h \in Hosts, gc'[h].pc = "join"
      PROVE  gc'[h].join \in Muxes /\ HostOf(gc'[h].join) = h /\ mux'[gc'[h].join].refs = 0
  BY <1>2 DEF RemovingInv, KeepRemoving, KeepMuxes
<1>3. \A h \in Hosts : /\ gc'[h].todo \subseteq SocketsOf(h)
                       /\ Free(h)' => gc'[h].todo = {}
  BY DEF RemovingInv, KeepRemoving
<1> QED BY <1>1, <1>2, <1>3 DEF RemovingInv, SocketsOf

LEMMA KeepCore ==
  ASSUME Types, Core, KeepSockets, KeepMuxes, KeepWaiting, KeepRemoving,
         \A m \in Muxes : worker'[m] = worker[m] \/ worker'[m].pc = "idle",
         gc'["server"].closing => gc["server"].closing \/ worker[Listener].pc = "idle"
  PROVE  Core'
<1>1. worker'[Listener] = worker[Listener] \/ worker'[Listener].pc = "idle"
  BY IdFacts
<1>2. FirstUse' /\ Descending' /\ Counted'
  BY KeepFirstUse, KeepDescending, KeepCount DEF Core
<1>3. Threaded' /\ MakingInv'
  BY <1>1, KeepThreaded, KeepMaking DEF Core
<1>4. WaitingInv' /\ RemovingInv'
  BY KeepWaitingInv, KeepRemovingInv DEF Core
<1> QED BY <1>2, <1>3, <1>4 DEF Core

\* Where only the program, the collector's state or the network changes.
LEMMA SameSockets ==
  ASSUME Types, Core, sock' = sock
  PROVE  KeepSockets
<1>1. \A s \in Accepted : Making(s) => ~Is(s, "broken")
  BY DEF Core, MakingInv, Making
<1> QED BY <1>1 DEF KeepSockets, Moves, Is

LEMMA SameMuxes ==
  ASSUME mux' = mux
  PROVE  KeepMuxes
  BY DEF KeepMuxes

LEMMA SameRest ==
  /\ gc' = gc => KeepRemoving
  /\ queue' = queue /\ taken' = taken /\ app'[Accepter].sock = app[Accepter].sock
       => KeepWaiting
  BY DEF KeepRemoving, KeepWaiting, Free

LEMMA CoreOfSame ==
  ASSUME Types, Core, KeepSockets, KeepMuxes, KeepWaiting, gc' = gc, worker' = worker
  PROVE  Core'
  BY KeepCore, SameRest

\* A thread goes on in its program.
LEMMA GotoDoes ==
  ASSUME Types, NEW t \in Threads, NEW p \in AppPcs, Goto(t, p)
  PROVE  /\ app' \in [Threads -> AppType]
         /\ app'[t].pc = p /\ \A u \in Threads : app'[u].sock = app[u].sock
         /\ \A u \in Threads \ {t} : app'[u] = app[u]
  BY DEF Types, Goto, AppType

\* The socket s becomes r.
LEMMA SockSet ==
  ASSUME Types, NEW s \in Sockets, NEW r \in SockType, sock' = [sock EXCEPT ![s] = r]
  PROVE  /\ sock' \in [Sockets -> SockType] /\ sock'[s] = r
         /\ \A t \in Sockets \ {s} : sock'[t] = sock[t]
  BY DEF Types

\* The multiplexer m becomes x.
LEMMA MuxSet ==
  ASSUME Types, NEW m \in Muxes, NEW x \in MuxType, mux' = [mux EXCEPT ![m] = x]
  PROVE  /\ mux' \in [Muxes -> MuxType] /\ mux'[m] = x
         /\ \A n \in Muxes \ {m} : mux'[n] = mux[n]
  BY DEF Types

\* One socket changes and stays where it is.
LEMMA KeepOne ==
  ASSUME Types, Core, NEW s \in Sockets, NEW r \in SockType,
         sock' = [sock EXCEPT ![s] = r],
         r.where = sock[s].where, r.mux = sock[s].mux,
         r.status = "INIT" => sock[s].status = "INIT",
         s \in Accepted /\ r.where = "none" => r.status = sock[s].status,
         s \in Accepted => r.peer = sock[s].peer /\ r.isn = sock[s].isn,
         s \in Accepted /\ Is(s, "broken") => "broken" \in r.flags,
         Making(s) => "broken" \notin r.flags
  PROVE  KeepSockets
<1>1. sock'[s] = r /\ \A t \in Sockets \ {s} : sock'[t] = sock[t]
  BY SockSet
<1>2. \A t \in Accepted : Making(t) => ~Is(t, "broken")
  BY DEF Core, MakingInv, Making
<1>3. ASSUME NEW t \in Sockets
      PROVE  /\ Moves(t) /\ sock'[t].mux = sock[t].mux
             /\ sock'[t].status = "INIT" => sock[t].status = "INIT"
             /\ t \in Accepted /\ sock'[t].where = "none" => sock'[t].status = sock[t].status
  BY <1>1 DEF Moves
<1>4. ASSUME NEW t \in Accepted
      PROVE  /\ sock'[t].peer = sock[t].peer /\ sock'[t].isn = sock[t].isn
             /\ Is(t, "broken") => Is(t, "broken")'
             /\ Making(t) => ~Is(t, "broken")'
  BY <1>1, <1>2, IdFacts DEF Is
<1> QED BY <1>3, <1>4 DEF KeepSockets

-----------------------------------------------------------------------------
(* The steps of the program *)

LEMMA StartupStep ==
  ASSUME IInv, NEW t \in Threads, startup(t)
  PROVE  IInv'
<1> DEFINE h == ThreadHost(t)
<1>1. h \in Hosts /\ t # Accepter
  BY HostFacts DEF startup
<1>2. /\ count' = [count EXCEPT ![h] = @ + 1] /\ Goto(t, "ready")
      /\ gc' = [gc EXCEPT ![h].pc = IF @ = "off" THEN "sleep" ELSE @]
      /\ UNCHANGED <<sock, queue, taken, event, mux, worker, hs, net, minute, expired, near>>
  BY DEF startup
<1> HIDE DEF h
<1>3. /\ app' \in [Threads -> AppType] /\ app'[t].pc = "ready"
      /\ \A u \in Threads : app'[u].sock = app[u].sock
      /\ \A u \in Threads \ {t} : app'[u] = app[u]
  BY <1>2, GotoDoes DEF AppPcs, IInv
<1>4. /\ gc' \in [Hosts -> GcType] /\ KeepRemoving
      /\ \A k \in Hosts : gc'[k].closing = gc[k].closing
  <2>1. gc[h] \in GcType /\ gc \in [Hosts -> GcType]
    BY <1>1 DEF IInv, Types
  <2>2. PICK p \in {"off", "sleep", "remove", "join"} :
          /\ gc' = [gc EXCEPT ![h].pc = p]
          /\ p \in {"remove", "join"} <=> gc[h].pc \in {"remove", "join"}
          /\ p = "join" => gc[h].pc = "join"
    BY <1>2, <2>1 DEF GcType
  <2>3. gc' \in [Hosts -> GcType]
    BY <1>1, <2>1, <2>2 DEF GcType
  <2>4. \A k \in Hosts : gc'[k].todo = gc[k].todo /\ gc'[k].join = gc[k].join
                         /\ gc'[k].closing = gc[k].closing
                         /\ gc'[k].pc = IF k = h THEN p ELSE gc[k].pc
    BY <1>1, <2>1, <2>2 DEF GcType
  <2> QED BY <2>2, <2>3, <2>4 DEF KeepRemoving, Free
<1>5. Types'
  <2>1. count' \in [Hosts -> Int]
    BY <1>1, <1>2 DEF IInv, Types
  <2> QED BY <1>2, <1>3, <1>4, <2>1 DEF IInv, Types
<1>6. AppInv'
  BY <1>1, <1>3, IdFacts DEF IInv, AppInv
<1>7. Core'
  <2>1. KeepSockets /\ KeepMuxes /\ KeepWaiting
    BY <1>2, <1>3, IdFacts, SameSockets, SameMuxes, SameRest DEF IInv
  <2>2. gc'["server"].closing => gc["server"].closing
    BY <1>4, HostFacts
  <2> QED BY <1>2, <1>4, <2>1, <2>2, KeepCore DEF IInv
<1> QED BY <1>5, <1>6, <1>7 DEF IInv

LEMMA CleanupStep ==
  ASSUME IInv, ~late', NEW t \in Threads, cleanup(t)
  PROVE  IInv'
<1> DEFINE h == ThreadHost(t)
<1>1. h \in Hosts /\ app[t].pc = "closed" /\ t # Accepter
  BY HostFacts DEF cleanup, IInv, AppInv
<1>2. PICK b \in BOOLEAN, p \in {"leaving", "over"} :
        /\ gc' = [gc EXCEPT ![h].closing = b]
        /\ b /\ h = "server" => worker[Listener].pc = "idle"
        /\ Goto(t, p)
        /\ count' = [count EXCEPT ![h] = @ - 1]
        /\ UNCHANGED <<sock, queue, taken, event, mux, worker, hs, net, minute, expired, near>>
  <2>1. PICK b \in BOOLEAN : b <=> count[h] = 1
    OBVIOUS
  <2>2. /\ gc' = [gc EXCEPT ![h].closing = b]
        /\ b /\ h = "server" => worker[Listener].pc = "idle"
        /\ Goto(t, IF b THEN "leaving" ELSE "over")
        /\ count' = [count EXCEPT ![h] = @ - 1]
        /\ UNCHANGED <<sock, queue, taken, event, mux, worker, hs, net, minute, expired, near>>
    BY <2>1, Zenon DEF cleanup
  <2> HIDE DEF h
  <2> QED BY <2>2, Zenon
<1> HIDE DEF h
<1>4. /\ app' \in [Threads -> AppType] /\ app'[t].pc \in {"leaving", "over"}
      /\ \A u \in Threads : app'[u].sock = app[u].sock
      /\ \A u \in Threads \ {t} : app'[u] = app[u]
  BY <1>2, GotoDoes DEF AppPcs, IInv
<1>5. /\ gc' \in [Hosts -> GcType] /\ KeepRemoving
      /\ gc'["server"].closing => gc["server"].closing \/ worker[Listener].pc = "idle"
  <2>1. gc[h] \in GcType /\ gc \in [Hosts -> GcType]
    BY <1>1 DEF IInv, Types
  <2>2. [gc[h] EXCEPT !.closing = b] \in GcType
    BY <2>1, Zenon DEF GcType
  <2>3. gc' \in [Hosts -> GcType]
    BY <1>2, <2>1, <2>2
  <2>4. \A k \in Hosts : gc'[k].todo = gc[k].todo /\ gc'[k].join = gc[k].join
                         /\ gc'[k].pc = gc[k].pc
    BY <1>1, <1>2, <2>1 DEF GcType
  <2>5. gc'[h].closing = b
    BY <1>1, <1>2, <2>1 DEF GcType
  <2>6. h # "server" => gc'["server"] = gc["server"]
    BY <1>1, <1>2, <2>1, HostFacts
  <2> QED BY <1>2, <2>3, <2>4, <2>5, <2>6 DEF KeepRemoving, Free
<1>6. Types'
  <2>1. count' \in [Hosts -> Int]
    BY <1>1, <1>2 DEF IInv, Types
  <2> QED BY <1>2, <1>4, <1>5, <2>1 DEF IInv, Types
<1>7. AppInv'
  BY <1>1, <1>4, IdFacts DEF IInv, AppInv
<1>8. Core'
  <2>1. KeepSockets /\ KeepMuxes /\ KeepWaiting
    BY <1>2, <1>4, IdFacts, SameSockets, SameMuxes, SameRest DEF IInv
  <2> QED BY <1>2, <1>5, <2>1, KeepCore DEF IInv
<1> QED BY <1>6, <1>7, <1>8 DEF IInv

LEMMA LeftStep ==
  ASSUME IInv, NEW t \in Threads, Left(t)
  PROVE  IInv'
<1> DEFINE h == ThreadHost(t)
<1>1. h \in Hosts /\ app[t].pc = "leaving" /\ t # Accepter
  BY HostFacts DEF Left, IInv, AppInv
<1>2. /\ gc' = [gc EXCEPT ![h].closing = FALSE]
      /\ Goto(t, "over")
      /\ UNCHANGED <<sock, queue, taken, event, mux, worker, count, hs, net, minute, expired,
                     near>>
  BY DEF Left
<1> HIDE DEF h
<1>3. /\ app' \in [Threads -> AppType] /\ app'[t].pc = "over"
      /\ \A u \in Threads : app'[u].sock = app[u].sock
      /\ \A u \in Threads \ {t} : app'[u] = app[u]
  BY <1>2, GotoDoes DEF AppPcs, IInv
<1>4. /\ gc' \in [Hosts -> GcType] /\ KeepRemoving
      /\ gc'["server"].closing => gc["server"].closing
  <2>1. gc[h] \in GcType /\ gc \in [Hosts -> GcType]
    BY <1>1 DEF IInv, Types
  <2>2. [gc[h] EXCEPT !.closing = FALSE] \in GcType
    BY <2>1, Zenon DEF GcType
  <2>3. gc' \in [Hosts -> GcType]
    BY <1>2, <2>1, <2>2
  <2>4. \A k \in Hosts : gc'[k].todo = gc[k].todo /\ gc'[k].join = gc[k].join
                         /\ gc'[k].pc = gc[k].pc
    BY <1>1, <1>2, <2>1 DEF GcType
  <2>5. ~gc'[h].closing
    BY <1>1, <1>2, <2>1 DEF GcType
  <2>6. h # "server" => gc'["server"] = gc["server"]
    BY <1>1, <1>2, <2>1, HostFacts
  <2> QED BY <2>3, <2>4, <2>5, <2>6 DEF KeepRemoving, Free
<1>5. Types'
  BY <1>2, <1>3, <1>4 DEF IInv, Types
<1>6. AppInv'
  BY <1>1, <1>3, IdFacts DEF IInv, AppInv
<1>7. Core'
  <2>1. KeepSockets /\ KeepMuxes /\ KeepWaiting
    BY <1>2, <1>3, IdFacts, SameSockets, SameMuxes, SameRest DEF IInv
  <2> QED BY <1>2, <1>4, <2>1, KeepCore DEF IInv
<1> QED BY <1>5, <1>6, <1>7 DEF IInv

LEMMA NewSocketStep ==
  ASSUME IInv, NEW t \in Threads, newSocket(t)
  PROVE  IInv'
<1>1. PICK s : s = IF t = Main THEN Listener ELSE t
  OBVIOUS
<1>2. /\ t # Accepter /\ sock[s].where = "none"
      /\ sock' = [sock EXCEPT ![s].where = "sockets"]
      /\ Goto(t, "socket")
      /\ UNCHANGED <<queue, taken, event, mux, worker, gc, count, hs, net, minute, expired,
                     near>>
  BY <1>1 DEF newSocket
<1>3. s \in Sockets /\ s \notin Accepted
  <2>1. t = Main \/ t \in Clients
    BY <1>2 DEF Threads, Accepter, Main
  <2> QED BY <1>1, <2>1, IdFacts
<1>4. /\ app' \in [Threads -> AppType] /\ app'[t].pc = "socket"
      /\ \A u \in Threads : app'[u].sock = app[u].sock
      /\ \A u \in Threads \ {t} : app'[u] = app[u]
  BY <1>2, GotoDoes DEF AppPcs, IInv
<1>5. PICK r \in SockType :
        /\ sock' = [sock EXCEPT ![s] = r]
        /\ r.where = "sockets" /\ r.mux = sock[s].mux /\ r.status = sock[s].status
  <2>1. sock[s] \in SockType
    BY <1>3 DEF IInv, Types
  <2>2. "sockets" \in Wheres
    BY DEF Wheres
  <2>3. [sock[s] EXCEPT !.where = "sockets"] \in SockType
    BY <2>1, <2>2 DEF SockType
  <2> QED BY <1>2, <2>1, <2>3 DEF SockType
<1>6. /\ sock' \in [Sockets -> SockType] /\ sock'[s] = r
      /\ \A u \in Sockets \ {s} : sock'[u] = sock[u]
  BY <1>3, <1>5, SockSet DEF IInv
<1>7. Types'
  BY <1>2, <1>4, <1>6 DEF IInv, Types
<1>8. AppInv'
  BY <1>2, <1>4, IdFacts DEF IInv, AppInv
<1>9. Core'
  <2>1. KeepSockets
    <3>1. \A u \in Accepted : Making(u) => ~Is(u, "broken")
      BY DEF IInv, Core, MakingInv, Making
    <3>2. \A u \in Sockets :
            /\ Moves(u) /\ sock'[u].mux = sock[u].mux
            /\ sock'[u].status = sock[u].status
      BY <1>2, <1>3, <1>5, <1>6 DEF Moves
    <3>3. \A u \in Accepted : sock'[u] = sock[u]
      BY <1>3, <1>6, IdFacts
    <3> QED BY <3>1, <3>2, <3>3 DEF KeepSockets, Is
  <2>2. KeepMuxes /\ KeepWaiting
    BY <1>2, <1>4, IdFacts, SameMuxes, SameRest
  <2> QED BY <1>2, <2>1, <2>2, CoreOfSame DEF IInv
<1> QED BY <1>7, <1>8, <1>9 DEF IInv

\* The socket a thread closes is not the one being made.
LEMMA HeldDoes ==
  ASSUME IInv, NEW t \in Threads, app[t].pc \in {"connected", "failed", "serving", "closing"},
         t # Main
  PROVE  /\ Held(t) \in Sockets /\ ~Making(Held(t)) /\ Held(t) \notin queue
         /\ t = Accepter \/ t \in Clients
<1>1. t = Accepter \/ t \in Clients
  BY DEF Threads, Accepter, Main
<1>2. CASE t \in Clients
  <2>1. Held(t) = t /\ t \in Sockets /\ t \notin Accepted
    BY <1>2, IdFacts DEF Held
  <2> QED BY <1>2, <2>1 DEF IInv, Core, MakingInv, Making, Types
<1>3. CASE t = Accepter
  <2>1. Held(t) = app[Accepter].sock /\ app[Accepter].sock \in Accepted
    BY <1>3 DEF Held, IInv, AppInv
  <2>2. Held(t) \in Sockets /\ Held(t) # NoSocket
    BY <2>1, IdFacts
  <2>3. Known(Held(t)) /\ Held(t) \notin queue
    BY <2>1, <2>2 DEF IInv, Core, WaitingInv
  <2>4. ~Making(Held(t))
    BY <2>1, <2>3 DEF IInv, Core, MakingInv, Making, Known
  <2> QED BY <1>3, <2>2, <2>3, <2>4
<1> QED BY <1>1, <1>2, <1>3

LEMMA CloseStep ==
  ASSUME IInv, NEW t \in Threads, close(t)
  PROVE  IInv'
<1>1. PICK s : s = Held(t)
  OBVIOUS
<1>2. /\ t # Main /\ app[t].pc \in {"connected", "failed", "serving"}
      /\ UNCHANGED <<queue, taken, event, worker, gc, count, hs, minute, expired, near>>
      /\ \/ /\ sock' = [sock EXCEPT ![s] = Ended(@)]
            /\ mux' = Unheard({s}) /\ Send(Farewells({s}))
            /\ Goto(t, "closing")
         \/ Goto(t, AfterClose(t)) /\ UNCHANGED <<sock, mux, net>>
  BY <1>1 DEF close
<1>3. s \in Sockets /\ ~Making(s) /\ (t = Accepter \/ t \in Clients)
  BY <1>1, <1>2, HeldDoes
<1>4. Types /\ Core
  BY DEF IInv
<1>5. ASSUME NEW p \in AppPcs, Goto(t, p),
             p = "closing" \/ p = AfterClose(t)
      PROVE  /\ app' \in [Threads -> AppType] /\ AppInv'
             /\ app'[Accepter].sock = app[Accepter].sock
  <2>1. /\ app' \in [Threads -> AppType] /\ app'[t].pc = p
        /\ \A u \in Threads : app'[u].sock = app[u].sock
        /\ \A u \in Threads \ {t} : app'[u] = app[u]
    BY <1>4, <1>5, GotoDoes
  <2>2. t = Accepter => p \in {"closing", "ready"} /\ app[Accepter].pc = "serving"
    BY <1>2, <1>5 DEF AfterClose, IInv, AppInv
  <2> QED BY <1>2, <2>1, <2>2, IdFacts DEF AppInv, IInv
<1>6. CASE /\ sock' = [sock EXCEPT ![s] = Ended(@)]
           /\ mux' = Unheard({s}) /\ Send(Farewells({s}))
           /\ Goto(t, "closing")
  <2>1. sock[s] \in SockType
    BY <1>3, <1>4 DEF Types
  <2>2. PICK r \in SockType : sock' = [sock EXCEPT ![s] = r] /\ Closing(sock[s], r)
    BY <1>6, <2>1, EndedDoes DEF Closing
  <2>3. app' \in [Threads -> AppType] /\ AppInv' /\ app'[Accepter].sock = app[Accepter].sock
    BY <1>5, <1>6 DEF AppPcs
  <2>4. KeepSockets
    BY <1>3, <1>4, <2>2, KeepOne DEF Closing, Is
  <2>5. mux' \in [Muxes -> MuxType] /\ KeepMuxes
    BY <1>4, <1>6, UnheardDoes, IdFacts DEF KeepMuxes, Muxes
  <2>6. net' \subseteq Packets /\ sock' \in [Sockets -> SockType]
    BY <1>3, <1>4, <1>6, <2>2, FarewellsType, SendType, SockSet
  <2>7. Types'
    BY <1>2, <1>4, <2>3, <2>5, <2>6 DEF Types, Packets
  <2>8. KeepWaiting
    BY <1>2, <2>3, SameRest
  <2>9. Core'
    BY <1>2, <1>4, <2>4, <2>5, <2>8, CoreOfSame
  <2> QED BY <2>3, <2>7, <2>9 DEF IInv
<1>7. CASE Goto(t, AfterClose(t)) /\ UNCHANGED <<sock, mux, net>>
  <2>1. AfterClose(t) \in AppPcs
    BY DEF AfterClose, AppPcs
  <2>2. app' \in [Threads -> AppType] /\ AppInv' /\ app'[Accepter].sock = app[Accepter].sock
    BY <1>5, <1>7, <2>1
  <2>3. Types'
    BY <1>2, <1>4, <1>7, <2>2 DEF Types
  <2>4. KeepSockets /\ KeepMuxes /\ KeepWaiting
    BY <1>2, <1>4, <1>7, <2>2, SameSockets, SameMuxes, SameRest
  <2>5. Core'
    BY <1>2, <1>4, <2>4, CoreOfSame
  <2> QED BY <2>2, <2>3, <2>5 DEF IInv
<1> QED BY <1>2, <1>6, <1>7

\* Sockets of the table that nobody is making are closed and wait no longer.
LEMMA KeepClosed ==
  ASSUME Types, Core, NEW S,
         \A s \in S : s \in Sockets => ~Making(s) /\ s \notin queue',
         \A s \in Sockets \ S :
           /\ sock'[s].where = sock[s].where /\ sock'[s].mux = sock[s].mux
           /\ sock'[s].status = sock[s].status
           /\ sock'[s].peer = sock[s].peer /\ sock'[s].isn = sock[s].isn
           /\ sock'[s].flags = sock[s].flags,
         \A s \in S : s \in Sockets =>
           /\ sock[s].where = "sockets" /\ sock'[s].where = "closed"
           /\ sock'[s].mux = sock[s].mux /\ sock'[s].status # "INIT"
           /\ sock'[s].peer = sock[s].peer /\ sock'[s].isn = sock[s].isn
           /\ "broken" \in sock[s].flags => "broken" \in sock'[s].flags
  PROVE  KeepSockets
<1>1. \A t \in Accepted : Making(t) => ~Is(t, "broken")
  BY DEF Core, MakingInv, Making
<1>2. ASSUME NEW t \in Sockets
      PROVE  /\ Moves(t) /\ sock'[t].mux = sock[t].mux
             /\ sock'[t].status = "INIT" => sock[t].status = "INIT"
             /\ t \in Accepted /\ sock'[t].where = "none" => sock'[t].status = sock[t].status
  BY DEF Moves
<1>3. ASSUME NEW t \in Accepted
      PROVE  /\ sock'[t].peer = sock[t].peer /\ sock'[t].isn = sock[t].isn
             /\ Is(t, "broken") => Is(t, "broken")'
             /\ Making(t) => ~Is(t, "broken")'
  BY <1>1, IdFacts DEF Is
<1> QED BY <1>2, <1>3 DEF KeepSockets

LEMMA ClosedStep ==
  ASSUME IInv, NEW t \in Threads, closed(t)
  PROVE  IInv'
<1>1. PICK s : s = Held(t)
  OBVIOUS
<1>2. /\ app[t].pc = "closing"
      /\ sock' = IF Located(s) THEN [sock EXCEPT ![s] = InTable(@)] ELSE sock
      /\ app' = [app EXCEPT ![t].pc = AfterClose(t), ![t].sock = NoSocket]
      /\ UNCHANGED <<queue, taken, event, mux, worker, gc, count, hs, net, minute, expired,
                     near>>
  BY <1>1 DEF closed
<1>3. t # Main
  BY <1>2 DEF IInv, AppInv
<1>4. s \in Sockets /\ ~Making(s) /\ s \notin queue
  BY <1>1, <1>2, <1>3, HeldDoes
<1>5. Types /\ Core
  BY DEF IInv
<1>6. /\ app' \in [Threads -> AppType]
      /\ app'[t].pc = AfterClose(t) /\ app'[t].sock = NoSocket
      /\ \A u \in Threads \ {t} : app'[u] = app[u]
  <2>1. AfterClose(t) \in AppPcs
    BY DEF AfterClose, AppPcs
  <2> QED BY <1>2, <1>5, <2>1 DEF Types, AppType
<1>7. AppInv'
  <2>1. AfterClose(Accepter) = "ready"
    BY DEF AfterClose
  <2> QED BY <1>3, <1>6, <2>1, IdFacts DEF IInv, AppInv
<1>8. KeepSockets /\ sock' \in [Sockets -> SockType]
  <2>1. CASE Located(s)
    <3>1. sock[s] \in SockType
      BY <1>4, <1>5 DEF Types
    <3>2. PICK r \in SockType :
            /\ sock' = [sock EXCEPT ![s] = r]
            /\ r.where = "closed" /\ r.status = "CLOSED" /\ r.mux = sock[s].mux
            /\ r.flags = sock[s].flags /\ r.peer = sock[s].peer /\ r.isn = sock[s].isn
      BY <1>2, <2>1, <3>1, InTableDoes
    <3>3. /\ sock' \in [Sockets -> SockType] /\ sock'[s] = r
          /\ \A u \in Sockets \ {s} : sock'[u] = sock[u]
      BY <1>4, <1>5, <3>2, SockSet
    <3>4. sock[s].where = "sockets"
      BY <2>1 DEF Located
    <3>5. KeepSockets
      <4> DEFINE S == {s}
      <4>1. \A u \in S : u \in Sockets => ~Making(u) /\ u \notin queue'
        BY <1>2, <1>4
      <4>2. \A u \in Sockets \ S : sock'[u] = sock[u]
        BY <3>3
      <4>3. \A u \in S : u \in Sockets =>
              /\ sock[u].where = "sockets" /\ sock'[u].where = "closed"
              /\ sock'[u].mux = sock[u].mux /\ sock'[u].status # "INIT"
              /\ sock'[u].peer = sock[u].peer /\ sock'[u].isn = sock[u].isn
              /\ "broken" \in sock[u].flags => "broken" \in sock'[u].flags
        BY <3>2, <3>3, <3>4
      <4> HIDE DEF S
      <4> QED BY <1>5, <4>1, <4>2, <4>3, KeepClosed
    <3> QED BY <3>3, <3>5
  <2>2. CASE ~Located(s)
    BY <1>2, <1>5, <2>2, SameSockets DEF Types
  <2> QED BY <2>1, <2>2
<1>9. Types'
  BY <1>2, <1>5, <1>6, <1>8 DEF Types
<1>10. KeepWaiting
  BY <1>2, <1>6, IdFacts DEF KeepWaiting
<1>11. Core'
  BY <1>2, <1>5, <1>8, <1>10, SameMuxes, CoreOfSame
<1> QED BY <1>7, <1>9, <1>11 DEF IInv

\* The whole invariant, where the users of the multiplexers stay as they are.
LEMMA Kept ==
  ASSUME IInv, Types', AppInv', KeepSockets, KeepMuxes, KeepWaiting, gc' = gc, worker' = worker
  PROVE  IInv'
  BY CoreOfSame DEF IInv

LEMMA SameApp ==
  ASSUME IInv, app' = app
  PROVE  AppInv' /\ app'[Accepter].sock = app[Accepter].sock
  BY DEF IInv, AppInv

\* A socket comes to use the multiplexer of its own: updateMux in bind or connect.
LEMMA Adopted ==
  ASSUME Types, Core, NEW m \in Muxes, NEW r \in SockType,
         sock' = [sock EXCEPT ![m] = r],
         sock[m].status = "INIT", sock[m].where = "sockets", Free(HostOf(m)),
         r.where = "sockets", r.status # "INIT", r.mux = m,
         mux'[m].refs = 1, mux'[m].listener = NoSocket,
         mux'[m].list \cup mux'[m].entries = {},
         \A n \in Muxes \ {m} : mux'[n] = mux[n],
         queue' = queue, taken' = taken, app'[Accepter].sock = app[Accepter].sock,
         worker' = worker, gc' = gc
  PROVE  Core'
<1>1. /\ sock'[m] = r /\ \A s \in Sockets \ {m} : sock'[s] = sock[s]
      /\ m \in Sockets /\ m \notin Accepted /\ Own(m) = m /\ m # NoSocket
  <2>1. m \in Sockets /\ m \notin Accepted /\ Own(m) = m /\ m # NoSocket
    BY IdFacts DEF Own, Muxes
  <2> QED BY <2>1, SockSet
<1>2. \A s \in Accepted : s \in Sockets /\ sock'[s] = sock[s]
  BY <1>1, IdFacts
<1>3. sock[m].mux = NoSocket /\ mux[m].refs = 0
  BY <1>1 DEF Core, FirstUse
<1>4. FirstUse'
  <2>1. ASSUME NEW s \in Sockets
        PROVE  /\ sock'[s].mux \in {NoSocket, Own(s)}
               /\ s \in Accepted /\ sock'[s].where = "none" => sock'[s].status = "INIT"
               /\ sock'[s].status = "INIT" => sock'[s].mux = NoSocket
    BY <1>1 DEF Core, FirstUse
  <2>2. ASSUME NEW n \in Muxes
        PROVE  sock'[n].status = "INIT" => mux'[n].refs = 0
    BY <1>1, IdFacts DEF Core, FirstUse
  <2>3. mux'[Listener].listener # NoSocket => sock'[Listener].status # "INIT"
    BY <1>1, IdFacts DEF Core, FirstUse
  <2> QED BY <2>1, <2>2, <2>3 DEF FirstUse, Own
<1>5. Threaded'
  <2>1. ASSUME NEW c \in Clients
        PROVE  worker'[c].pc = "idle" /\ mux'[c].list \cup mux'[c].entries \subseteq {c}
    BY DEF Core, Threaded, Muxes
  <2>2. sock'[Listener].status = sock[Listener].status \/ sock'[Listener].status # "INIT"
    BY <1>1, IdFacts
  <2> QED BY <2>1, <2>2 DEF Core, Threaded
<1>6. Descending'
  BY <1>2 DEF Core, Descending, Is
<1>7. MakingInv'
  <2>1. PICK w : w = worker[Listener] /\ worker'[Listener] = w
    OBVIOUS
  <2> QED BY <1>2, <2>1 DEF Core, MakingInv, Answers, Is
<1>8. WaitingInv'
  BY <1>2 DEF Core, WaitingInv, Known, Types
<1>9. RemovingInv'
  <2>1. ASSUME NEW h \in Hosts, gc[h].pc = "join"
        PROVE  mux'[gc[h].join].refs = 0
    <3>1. gc[h].join \in Muxes /\ HostOf(gc[h].join) = h /\ mux[gc[h].join].refs = 0
      BY <2>1 DEF Core, RemovingInv
    <3>2. gc[h].join # m
      BY <2>1, <3>1 DEF Free
    <3> QED BY <3>1, <3>2
  <2>2. ASSUME NEW h \in Hosts, NEW s \in gc[h].todo PROVE sock'[s].where = "closed"
    <3>1. s \in Sockets /\ sock[s].where = "closed"
      BY <2>2 DEF Core, RemovingInv, SocketsOf
    <3> QED BY <1>1, <3>1
  <2> QED BY <2>1, <2>2 DEF Core, RemovingInv, Free
<1>10. Counted'
  <2> DEFINE U(n) == {s \in Sockets : sock[s].mux = n /\ sock[s].where # "deleted"}
             V(n) == {s \in Sockets : sock'[s].mux = n /\ sock'[s].where # "deleted"}
  <2>1. \A n \in Muxes : mux[n].refs = Cardinality(U(n))
    BY DEF Core, Counted
  <2>2. V(m) = {m}
    <3>1. IsFiniteSet(U(m)) /\ Cardinality(U(m)) = 0
      BY <1>3, <2>1, IdFacts, FS_Subset
    <3>2. U(m) = {}
      <4> HIDE DEF U
      <4> QED BY <3>1, FS_EmptySet
    <3> QED BY <1>1, <3>2
  <2>3. \A n \in Muxes \ {m} : V(n) = U(n)
    BY <1>1, <1>3, IdFacts
  <2>4. \A n \in Muxes : mux'[n].refs = Cardinality(V(n))
    <3> HIDE DEF U, V
    <3>1. Cardinality({m}) = 1
      BY FS_Singleton
    <3> QED BY <2>1, <2>2, <2>3, <3>1
  <2> QED BY <2>4 DEF Counted
<1> QED BY <1>4, <1>5, <1>6, <1>7, <1>8, <1>9, <1>10 DEF Core

LEMMA OwnMuxDoes ==
  ASSUME Types, NEW m \in Muxes
  PROVE  \E x \in MuxType :
           /\ OwnMux(m) = [mux EXCEPT ![m] = x]
           /\ x.refs = 1 /\ x.listener = NoSocket /\ x.list \cup x.entries = {}
           /\ x.connectors = {} /\ x.store = <<>>
<1> DEFINE x == [NoMux EXCEPT !.refs = 1]
<1>1. /\ NoMux \in MuxType /\ NoMux.listener = NoSocket /\ NoMux.list = {} /\ NoMux.entries = {}
      /\ NoMux.connectors = {} /\ NoMux.store = <<>>
  <2>1. /\ {} \in SUBSET (Clients \X (1..Attempts)) /\ {} \in SUBSET Sockets /\ 0 \in Int
        /\ <<>> \in Seq(ResponseType)
    OBVIOUS
  <2>2. NoMux \in MuxType
    BY <2>1, Zenon DEF NoMux, MuxType
  <2>3. /\ NoMux.listener = NoSocket /\ NoMux.list = {} /\ NoMux.entries = {}
        /\ NoMux.connectors = {} /\ NoMux.store = <<>>
    BY DEF NoMux
  <2> QED BY <2>2, <2>3
<1>2. /\ x \in MuxType /\ x.refs = 1 /\ x.listener = NoSocket /\ x.list \cup x.entries = {}
      /\ x.connectors = {} /\ x.store = <<>>
  BY <1>1 DEF MuxType
<1>3. OwnMux(m) = [mux EXCEPT ![m] = x]
  BY DEF OwnMux
<1> HIDE DEF x
<1> QED BY <1>2, <1>3

LEMMA BindStep ==
  ASSUME IInv, bind
  PROVE  IInv'
<1>1. /\ sock[Listener].where = "sockets" /\ sock[Listener].status = "INIT" /\ Free("server")
      /\ sock' = [sock EXCEPT ![Listener].status = "OPENED", ![Listener].mux = Listener,
                              ![Listener].flags = {"opened"}]
      /\ mux' = OwnMux(Listener)
      /\ UNCHANGED <<queue, taken, event, worker, gc, count, app, hs, net, minute, expired,
                     near>>
  BY DEF bind, Located
<1>2. Types /\ Core
  BY DEF IInv
<1>3. PICK r \in SockType : /\ sock' = [sock EXCEPT ![Listener] = r]
                            /\ r.where = "sockets" /\ r.status # "INIT" /\ r.mux = Listener
  <2> DEFINE r == [sock[Listener] EXCEPT !.status = "OPENED", !.mux = Listener,
                                         !.flags = {"opened"}]
  <2>1. sock[Listener] \in SockType
    BY <1>2, IdFacts DEF Types
  <2>2. "OPENED" \in Statuses /\ {"opened"} \subseteq Flags /\ Listener \in Muxes
    BY IdFacts DEF Statuses, Flags
  <2>3. r \in SockType /\ r.where = "sockets" /\ r.status # "INIT" /\ r.mux = Listener
    BY <1>1, <2>1, <2>2 DEF SockType
  <2>4. sock' = [sock EXCEPT ![Listener] = r]
    BY <1>1, <1>2, IdFacts DEF Types
  <2> QED BY <2>3, <2>4
<1>4. PICK x \in MuxType : /\ mux' = [mux EXCEPT ![Listener] = x]
                           /\ x.refs = 1 /\ x.listener = NoSocket
                           /\ x.list \cup x.entries = {}
  BY <1>1, <1>2, OwnMuxDoes, IdFacts
<1>5. /\ mux' \in [Muxes -> MuxType] /\ mux'[Listener] = x
      /\ \A n \in Muxes \ {Listener} : mux'[n] = mux[n]
  BY <1>2, <1>4, MuxSet, IdFacts
<1>6. sock' \in [Sockets -> SockType]
  BY <1>2, <1>3, SockSet, IdFacts
<1>7. Types'
  BY <1>1, <1>2, <1>5, <1>6 DEF Types
<1>8. Core'
  <2>1. Free(HostOf(Listener)) /\ Listener \in Muxes
    BY <1>1, HostFacts, IdFacts
  <2>2. /\ mux'[Listener].refs = 1 /\ mux'[Listener].listener = NoSocket
        /\ mux'[Listener].list \cup mux'[Listener].entries = {}
    BY <1>4, <1>5
  <2> QED BY <1>1, <1>2, <1>3, <1>5, <2>1, <2>2, Adopted
<1> QED BY <1>1, <1>7, <1>8, SameApp DEF IInv

LEMMA ListenStep ==
  ASSUME IInv, listen
  PROVE  IInv'
<1>1. /\ sock[Listener].status = "OPENED"
      /\ mux' = [mux EXCEPT ![Listener].listener = Listener]
      /\ sock' = [sock EXCEPT ![Listener].status = "LISTENING",
                              ![Listener].flags = @ \cup {"listening"}]
      /\ app' = [app EXCEPT ![Main].pc = "listening", ![Accepter].pc = "ready"]
      /\ UNCHANGED <<queue, taken, event, worker, gc, count, hs, net, minute, expired, near>>
  BY DEF listen
<1>2. Types /\ Core
  BY DEF IInv
<1>3. PICK r \in SockType :
        /\ sock' = [sock EXCEPT ![Listener] = r]
        /\ r.where = sock[Listener].where /\ r.status = "LISTENING"
        /\ r.mux = sock[Listener].mux
  <2> DEFINE F == sock[Listener].flags \cup {"listening"}
             r == [sock[Listener] EXCEPT !.status = "LISTENING", !.flags = F]
  <2>1. sock[Listener] \in SockType
    BY <1>2, IdFacts DEF Types
  <2>2. "LISTENING" \in Statuses /\ F \subseteq Flags
    BY <2>1 DEF Statuses, Flags, SockType
  <2>3. sock' = [sock EXCEPT ![Listener] = r]
    BY <1>1, <1>2, IdFacts DEF Types
  <2> HIDE DEF F
  <2>4. r \in SockType /\ r.where = sock[Listener].where /\ r.status = "LISTENING"
        /\ r.mux = sock[Listener].mux
    BY <2>1, <2>2 DEF SockType
  <2> QED BY <2>3, <2>4
<1>4. ~Making(Listener)
  BY <1>2, IdFacts DEF Core, MakingInv, Making
<1>6. KeepSockets /\ sock' \in [Sockets -> SockType]
  BY <1>2, <1>3, <1>4, KeepOne, SockSet, IdFacts
<1>7. mux' \in [Muxes -> MuxType] /\ KeepMuxes
  <2>1. mux[Listener] \in MuxType
    BY <1>2, IdFacts DEF Types
  <2>2. [mux[Listener] EXCEPT !.listener = Listener] \in MuxType
    BY <2>1 DEF MuxType
  <2>3. /\ mux' \in [Muxes -> MuxType] /\ mux'[Listener].refs = mux[Listener].refs
        /\ \A n \in Muxes \ {Listener} : mux'[n] = mux[n]
    BY <1>1, <1>2, <2>1, <2>2, IdFacts DEF Types, MuxType
  <2> QED BY <1>1, <2>3, IdFacts DEF KeepMuxes, Muxes
<1>8. app' \in [Threads -> AppType] /\ AppInv' /\ app'[Accepter].sock = app[Accepter].sock
  <2>1. /\ app \in [Threads -> AppType] /\ Main \in Threads /\ Accepter \in Threads
        /\ Main # Accepter
    BY <1>2, IdFacts DEF Types
  <2>2. "listening" \in AppPcs /\ "ready" \in AppPcs
    BY DEF AppPcs
  <2>3. /\ app' \in [Threads -> AppType]
        /\ app'[Main].pc = "listening" /\ app'[Accepter].pc = "ready"
        /\ app'[Accepter].sock = app[Accepter].sock
    BY <1>1, <2>1, <2>2 DEF AppType
  <2> QED BY <2>3 DEF AppInv
<1>9. Types'
  BY <1>1, <1>2, <1>6, <1>7, <1>8 DEF Types
<1>10. KeepWaiting
  BY <1>1, <1>8, SameRest
<1> QED BY <1>1, <1>6, <1>7, <1>8, <1>9, <1>10, Kept

LEMMA AcceptStep ==
  ASSUME IInv, accept
  PROVE  IInv'
<1>1. PICK p \in {"look", "over"} :
        /\ Goto(Accepter, p)
        /\ UNCHANGED <<sock, queue, taken, event, mux, worker, gc, count, hs, net, minute,
                       expired, near>>
  BY DEF accept
<1>2. Types /\ Core
  BY DEF IInv
<1>3. /\ app' \in [Threads -> AppType] /\ app'[Accepter].pc = p
      /\ app'[Accepter].sock = app[Accepter].sock
      /\ app'[Main] = app[Main]
  BY <1>1, <1>2, GotoDoes, IdFacts DEF AppPcs
<1>4. Types' /\ AppInv'
  BY <1>1, <1>2, <1>3 DEF Types, IInv, AppInv
<1>5. KeepSockets /\ KeepMuxes /\ KeepWaiting
  BY <1>1, <1>2, <1>3, SameSockets, SameMuxes, SameRest
<1> QED BY <1>1, <1>4, <1>5, Kept

LEMMA AcceptWokenStep ==
  ASSUME IInv, acceptWoken
  PROVE  IInv'
<1>1. PICK b \in BOOLEAN, p \in {"look", "over"} :
        /\ Goto(Accepter, p) /\ event' = b
        /\ UNCHANGED <<sock, queue, taken, mux, worker, gc, count, hs, net, minute,
                       expired, near>>
  <2>1. PICK b \in BOOLEAN : b = Gone
    BY DEF Gone
  <2>2. PICK p \in {"look", "over"} : Goto(Accepter, p)
    BY DEF acceptWoken
  <2>3. event' = b
    BY <2>1, Zenon DEF acceptWoken
  <2>4. UNCHANGED <<sock, queue, taken, mux, worker, gc, count, hs, net, minute, expired, near>>
    BY DEF acceptWoken
  <2> QED BY <2>2, <2>3, <2>4, Zenon
<1>2. Types /\ Core
  BY DEF IInv
<1>3. /\ app' \in [Threads -> AppType] /\ app'[Accepter].pc = p
      /\ app'[Accepter].sock = app[Accepter].sock
      /\ app'[Main] = app[Main]
  BY <1>1, <1>2, GotoDoes, IdFacts DEF AppPcs
<1>4. Types' /\ AppInv'
  <2>1. event' \in BOOLEAN
    BY <1>1, Zenon
  <2> QED BY <1>1, <1>2, <1>3, <2>1 DEF Types, IInv, AppInv
<1>5. KeepSockets /\ KeepMuxes /\ KeepWaiting
  BY <1>1, <1>2, <1>3, SameSockets, SameMuxes, SameRest
<1> QED BY <1>1, <1>4, <1>5, Kept

LEMMA AcceptLookStep ==
  ASSUME IInv, acceptLook
  PROVE  IInv'
<1>1. Types /\ Core /\ AppInv
  BY DEF IInv
<1>2. UNCHANGED <<sock, mux, worker, gc, count, hs, net, minute, expired, near>>
  BY DEF acceptLook
<1>3. KeepSockets /\ KeepMuxes
  BY <1>1, <1>2, SameSockets, SameMuxes
<1>4. ASSUME NEW u, u = Lowest(queue), queue # {},
             queue' = queue \ {u}, taken' = taken \cup {u},
             app' = [app EXCEPT ![Accepter].pc = "serving", ![Accepter].sock = u],
             event' = (event \/ Gone)
      PROVE  IInv'
  <2>1. u \in queue /\ u \in Accepted /\ u \in Sockets /\ u # NoSocket
    <3>1. queue \subseteq Accepted /\ queue \in SUBSET Sockets
      BY <1>1, IdFacts DEF Types
    <3>2. u \in queue
      BY <1>4, <3>1, ExtremeIds
    <3> QED BY <3>1, <3>2, IdFacts
  <2>2. /\ app' \in [Threads -> AppType] /\ app'[Accepter].sock = u
        /\ app'[Accepter].pc = "serving" /\ app'[Main] = app[Main]
    <3>1. "serving" \in AppPcs
      BY DEF AppPcs
    <3>2. /\ app \in [Threads -> AppType] /\ Main \in Threads /\ Accepter \in Threads
          /\ Accepter # Main
      BY <1>1, IdFacts DEF Types
    <3> QED BY <1>4, <2>1, <3>1, <3>2 DEF AppType
  <2>3. Types' /\ AppInv'
    <3>1. event' \in BOOLEAN
      BY <1>4, Zenon
    <3> QED BY <1>1, <1>2, <1>4, <2>1, <2>2, <3>1 DEF Types, AppInv
  <2>4. FirstUse' /\ Threaded' /\ Descending' /\ Counted'
    BY <1>1, <1>2, <1>3, KeepFirstUse, KeepThreaded, KeepDescending, KeepCount DEF Core
  <2>5. RemovingInv'
    BY <1>1, <1>2, <1>3, SameRest, KeepRemovingInv DEF Core
  <2>6. /\ Cardinality(queue') <= Cardinality(queue)
        /\ Cardinality(queue) \in Nat /\ Cardinality(queue') \in Nat /\ Backlog \in Nat
    BY <1>1, <1>4, SmallerQueue, SocketsAssumption DEF Types
  <2>7. WaitingInv'
    <3>1. Cardinality(queue') <= Backlog
      BY <1>1, <2>6 DEF Core, WaitingInv
    <3>2. \A s \in Accepted : Known(s)' = Known(s)
      BY <1>2 DEF Known
    <3>3. Known(u)
      BY <1>1, <2>1 DEF Core, WaitingInv, Known
    <3>4. ASSUME NEW s \in queue'
          PROVE  sock'[s].where = "sockets" /\ s # u /\ s \notin taken'
      BY <1>1, <1>2, <1>4 DEF Core, WaitingInv
    <3>5. \A s \in taken' : Known(s)'
      BY <1>1, <1>2, <1>4, <3>3 DEF Core, WaitingInv, Known
    <3>6. (app[Accepter].sock # NoSocket => Known(app[Accepter].sock))'
      BY <1>2, <2>2, <3>3 DEF Known
    <3> HIDE DEF Known
    <3> QED BY <2>2, <3>1, <3>4, <3>5, <3>6 DEF WaitingInv
  <2>8. MakingInv'
    <3>1. PICK w : w = worker[Listener] /\ worker'[Listener] = w
      BY <1>2
    <3>2. w.pc \in {"insert", "queue"} => w.new \in Accepted /\ Cardinality(queue') < Backlog
      BY <1>1, <2>6, <3>1 DEF Core, MakingInv
    <3>3. w.pc = "queue" => w.new \notin queue' \cup taken' \cup {u}
      BY <1>1, <1>4, <2>1, <3>1 DEF Core, MakingInv
    <3>4. \A s \in Sockets : sock'[s] = sock[s]
      BY <1>2
    <3> QED BY <1>1, <1>2, <2>2, <3>1, <3>2, <3>3, <3>4 DEF Core, MakingInv, Answers, Is
  <2> QED BY <2>3, <2>4, <2>5, <2>7, <2>8 DEF IInv, Core
<1>5. ASSUME NEW p \in {"wait", "over"}, Goto(Accepter, p), event' \in {event, TRUE},
             UNCHANGED <<queue, taken>>
      PROVE  IInv'
  <2>1. /\ app' \in [Threads -> AppType] /\ app'[Accepter].pc = p
        /\ app'[Accepter].sock = app[Accepter].sock
        /\ app'[Main] = app[Main]
    BY <1>1, <1>5, GotoDoes, IdFacts DEF AppPcs
  <2>2. event' \in BOOLEAN
    BY <1>1, <1>5 DEF Types
  <2>3. Types' /\ AppInv'
    BY <1>1, <1>2, <1>5, <2>1, <2>2 DEF Types, AppInv
  <2>4. KeepWaiting
    BY <1>5, <2>1, SameRest
  <2> QED BY <1>2, <1>3, <2>3, <2>4, Kept
<1> QED BY <1>4, <1>5, Zenon DEF acceptLook

\* A step that changes a client's socket, what its multiplexer knows but its users,
\* and what the client's thread does.
LEMMA ClientStep ==
  ASSUME IInv, NEW c \in Clients, NEW r \in SockType, NEW x \in MuxType,
         sock' = [sock EXCEPT ![c] = r], mux' = [mux EXCEPT ![c] = x],
         r.where = sock[c].where, r.mux = sock[c].mux,
         r.status = "INIT" => sock[c].status = "INIT",
         x.refs = mux[c].refs, x.list \cup x.entries \subseteq {c},
         app' \in [Threads -> AppType], app'[Accepter] = app[Accepter], app'[Main] = app[Main],
         hs' \in [Clients -> HsType], net' \subseteq Packets,
         UNCHANGED <<queue, taken, event, worker, gc, count, minute, expired, near>>
  PROVE  IInv'
<1>1. Types /\ Core /\ AppInv
  BY DEF IInv
<1>2. c \in Sockets /\ c \in Muxes /\ c \notin Accepted /\ c # Listener
  BY IdFacts DEF Muxes
<1>3. ~Making(c)
  BY <1>1, <1>2 DEF Core, MakingInv, Making
<1>4. KeepSockets /\ sock' \in [Sockets -> SockType]
  BY <1>1, <1>2, <1>3, KeepOne, SockSet
<1>5. /\ mux' \in [Muxes -> MuxType] /\ mux'[c] = x
      /\ \A n \in Muxes \ {c} : mux'[n] = mux[n]
  BY <1>1, <1>2, MuxSet
<1>6. KeepMuxes
  BY <1>2, <1>5, IdFacts DEF KeepMuxes, Muxes
<1>7. Types' /\ AppInv'
  BY <1>1, <1>4, <1>5 DEF Types, AppInv, Packets
<1>8. KeepWaiting
  BY SameRest
<1> QED BY <1>4, <1>6, <1>7, <1>8, Kept

\* What a client has.
LEMMA ClientHas ==
  ASSUME Types, Core, NEW c \in Clients
  PROVE  /\ sock[c] \in SockType /\ mux[c] \in MuxType /\ hs[c] \in HsType
         /\ sock = [sock EXCEPT ![c] = sock[c]] /\ mux = [mux EXCEPT ![c] = mux[c]]
         /\ mux[c].list \cup mux[c].entries \subseteq {c}
         /\ c \in Threads /\ c \in Muxes /\ c \in Sockets /\ c # Accepter /\ c # Main
  BY IdFacts DEF Types, Core, Threaded, Muxes

LEMMA FailDoes ==
  ASSUME IInv, NEW c \in Clients, NEW r \in SockType, r.where = sock[c].where,
         r.mux = sock[c].mux,
         NEW why \in {"busy", "timeout", "rejected", "insecure"}, Fail(c, r, why)
  PROVE  \E q \in SockType :
           /\ sock' = [sock EXCEPT ![c] = q]
           /\ q.where = sock[c].where /\ q.mux = sock[c].mux /\ q.status # "INIT"
           /\ app' \in [Threads -> AppType]
           /\ app'[Accepter] = app[Accepter] /\ app'[Main] = app[Main]
<1>1. Types /\ Core
  BY DEF IInv
<1> DEFINE q == [r EXCEPT !.status = "OPENED"]
<1>2. q \in SockType /\ q.where = r.where /\ q.mux = r.mux /\ q.status = "OPENED"
  BY DEF SockType, Statuses
<1>3. sock' = [sock EXCEPT ![c] = q]
  BY DEF Fail
<1>4. /\ app' \in [Threads -> AppType]
      /\ app'[Accepter] = app[Accepter] /\ app'[Main] = app[Main]
  <2>1. "failed" \in AppPcs
    BY DEF AppPcs
  <2>2. app' = [app EXCEPT ![c].pc = "failed", ![c].result = why]
    BY DEF Fail
  <2>3. c \in Threads /\ c # Accepter /\ c # Main
    BY <1>1, ClientHas
  <2>4. why \in {"none", "ok", "busy", "timeout", "rejected", "insecure"}
    OBVIOUS
  <2> DEFINE a == [app[c] EXCEPT !.pc = "failed", !.result = why]
  <2>5. app[c] \in AppType /\ app \in [Threads -> AppType]
    BY <1>1, <2>3 DEF Types
  <2>6. a \in AppType
    BY <2>1, <2>4, <2>5 DEF AppType
  <2>7. app' = [app EXCEPT ![c] = a]
    BY <2>2, <2>3, <2>5
  <2> HIDE DEF a
  <2> QED BY <2>3, <2>5, <2>6, <2>7
<1> HIDE DEF q
<1> QED BY <1>2, <1>3, <1>4

LEMMA RequestsAreType ==
  ASSUME NEW c \in Clients, NEW r \in HsType
  PROVE  {Request(c, r)} \subseteq Packets
<1>1. Request(c, r) \in RequestType
  BY DEF Request, HsType, RequestType
<1> QED BY <1>1 DEF Packets

LEMMA HsSet ==
  /\ \A h \in HsType, n \in 0..Attempts, y \in {0, 1, -1} :
       [h EXCEPT !.isn = n, !.type = y] \in HsType
  /\ \A h \in HsType, y \in {0, 1, -1}, k \in 0..Minutes, r \in ResType :
       [h EXCEPT !.type = y, !.cookie = k, !.res = r] \in HsType
<1>1. ASSUME NEW h \in HsType, NEW n \in 0..Attempts, NEW y \in {0, 1, -1}
      PROVE  [h EXCEPT !.isn = n, !.type = y] \in HsType
  BY DEF HsType
<1>2. ASSUME NEW h \in HsType, NEW y \in {0, 1, -1}, NEW k \in 0..Minutes, NEW r \in ResType
      PROVE  [h EXCEPT !.type = y, !.cookie = k, !.res = r] \in HsType
  BY DEF HsType
<1> QED BY <1>1, <1>2

LEMMA ConnectStep ==
  ASSUME IInv, NEW c \in Clients, connect(c)
  PROVE  IInv'
<1>1. Types /\ Core /\ AppInv
  BY DEF IInv
<1>2. /\ hs[c].isn < Attempts /\ sock[c].where = "sockets"
      /\ sock[c].status \in {"INIT", "OPENED"} /\ Free("client")
      /\ UNCHANGED <<queue, taken, event, worker, gc, count, minute, expired, near>>
  BY DEF connect, Located
<1>3. /\ sock[c] \in SockType /\ mux[c] \in MuxType /\ hs[c] \in HsType
      /\ sock = [sock EXCEPT ![c] = sock[c]] /\ mux = [mux EXCEPT ![c] = mux[c]]
      /\ mux[c].list \cup mux[c].entries \subseteq {c}
      /\ c \in Threads /\ c \in Muxes /\ c \in Sockets /\ c # Accepter /\ c # Main
  BY <1>1, ClientHas
<1> DEFINE fresh == sock[c].status = "INIT"
           opened == IF fresh THEN [sock[c] EXCEPT !.flags = {"opened"}, !.mux = c]
                     ELSE sock[c]
           r == [opened EXCEPT !.status = "CONNECTING", !.flags = @ \cup {"connecting"}]
           first == [hs[c] EXCEPT !.isn = @ + 1, !.type = 1]
           known == IF fresh THEN OwnMux(c) ELSE mux
           x == [known[c] EXCEPT !.connectors = @ \cup {<<c, first.isn>>}]
<1>4. CASE /\ sock' = [sock EXCEPT ![c] = r]
           /\ hs' = [hs EXCEPT ![c] = first]
           /\ mux' = [known EXCEPT ![c].connectors = @ \cup {<<c, first.isn>>}]
           /\ Send({Request(c, first)})
           /\ Goto(c, "connecting")
  <2>1. first \in HsType /\ first.isn \in 1..Attempts
    <3>1. hs[c].isn \in 0..Attempts /\ Attempts \in Nat
      BY <1>3, SocketsAssumption DEF HsType
    <3>2. hs[c].isn + 1 \in 1..Attempts /\ hs[c].isn + 1 \in 0..Attempts
      BY <1>2, <3>1
    <3>3. PICK n : n = hs[c].isn + 1
      OBVIOUS
    <3>4. n \in 1..Attempts /\ n \in 0..Attempts /\ 1 \in {0, 1, -1}
      BY <3>2, <3>3
    <3>5. first = [hs[c] EXCEPT !.isn = n, !.type = 1]
      BY <3>3
    <3>6. [hs[c] EXCEPT !.isn = n, !.type = 1] \in HsType
      BY <1>3, <3>4, HsSet
    <3>7. first.isn = n
      BY <1>3, <3>3 DEF HsType
    <3> HIDE DEF first
    <3> QED BY <3>4, <3>5, <3>6, <3>7
  <2>2. /\ opened \in SockType /\ opened.where = "sockets"
        /\ opened.mux = IF fresh THEN c ELSE sock[c].mux
    <3>1. {"opened"} \subseteq Flags
      BY DEF Flags
    <3> QED BY <1>2, <1>3, <3>1 DEF SockType
  <2>3. /\ r \in SockType /\ r.where = "sockets" /\ r.mux = opened.mux /\ r.status = "CONNECTING"
    <3> HIDE DEF opened
    <3>1. opened.flags \cup {"connecting"} \subseteq Flags /\ "CONNECTING" \in Statuses
      BY <2>2 DEF SockType, Flags, Statuses
    <3> QED BY <2>2, <3>1 DEF SockType
  <2>4. /\ known \in [Muxes -> MuxType]
        /\ \A n \in Muxes \ {c} : known[n] = mux[n]
        /\ fresh => /\ known[c].refs = 1 /\ known[c].listener = NoSocket
                    /\ known[c].list \cup known[c].entries = {}
        /\ ~fresh => known[c] = mux[c]
    <3>1. CASE fresh
      <4>1. PICK y \in MuxType :
              /\ OwnMux(c) = [mux EXCEPT ![c] = y]
              /\ y.refs = 1 /\ y.listener = NoSocket /\ y.list \cup y.entries = {}
        BY <1>1, <1>3, OwnMuxDoes
      <4> QED BY <1>1, <1>3, <3>1, <4>1 DEF Types
    <3>2. CASE ~fresh
      BY <1>1, <3>2 DEF Types
    <3> QED BY <3>1, <3>2
  <2> HIDE DEF opened, r, first, known
  <2>5. /\ x \in MuxType /\ x.refs = known[c].refs /\ x.listener = known[c].listener
        /\ x.list = known[c].list /\ x.entries = known[c].entries
    <3>1. known[c] \in MuxType /\ known[c].connectors \cup {<<c, first.isn>>}
                                    \subseteq Clients \X (1..Attempts)
      BY <1>3, <2>1, <2>4 DEF MuxType
    <3> QED BY <3>1 DEF MuxType
  <2>6. mux' = [known EXCEPT ![c] = x]
    BY <1>3, <1>4, <2>4
  <2> HIDE DEF x
  <2>7. /\ app' \in [Threads -> AppType]
        /\ app'[Accepter] = app[Accepter] /\ app'[Main] = app[Main]
    BY <1>1, <1>3, <1>4, GotoDoes, IdFacts DEF AppPcs
  <2>8. hs' \in [Clients -> HsType]
    BY <1>1, <1>4, <2>1 DEF Types
  <2>9. net' \subseteq Packets
    <3>1. {Request(c, first)} \subseteq Packets
      BY <2>1, RequestsAreType
    <3> QED BY <1>1, <1>4, <3>1, SendType
  <2>10. CASE ~fresh
    <3>1. mux' = [mux EXCEPT ![c] = x]
      BY <2>6, <2>10 DEF known
    <3>2. opened = sock[c]
      BY <2>10 DEF opened
    <3>3. r.where = sock[c].where /\ r.mux = sock[c].mux /\ r.status # "INIT"
      BY <1>2, <2>3, <3>2
    <3>4. x.refs = mux[c].refs /\ x.list \cup x.entries \subseteq {c}
      BY <1>3, <2>4, <2>5, <2>10
    <3> HIDE DEF fresh
    <3> QED BY <1>2, <1>4, <2>3, <2>5, <2>7, <2>8, <2>9, <3>1, <3>3, <3>4, ClientStep
  <2>11. CASE fresh
    <3>1. /\ mux' \in [Muxes -> MuxType] /\ mux'[c] = x
          /\ \A n \in Muxes \ {c} : mux'[n] = mux[n]
      BY <1>3, <2>4, <2>5, <2>6
    <3>2. sock' \in [Sockets -> SockType]
      BY <1>1, <1>3, <1>4, <2>3, SockSet
    <3>3. Types' /\ AppInv'
      BY <1>1, <1>2, <2>7, <2>8, <2>9, <3>1, <3>2 DEF Types, AppInv, Packets
    <3>4. Free(HostOf(c))
      BY <1>2, HostFacts
    <3>5. r.mux = c /\ r.where = "sockets" /\ r.status # "INIT"
      BY <2>2, <2>3, <2>11
    <3>6. /\ mux'[c].refs = 1 /\ mux'[c].listener = NoSocket
          /\ mux'[c].list \cup mux'[c].entries = {}
      BY <2>4, <2>5, <2>11, <3>1
    <3>7. Core'
      BY <1>1, <1>2, <1>3, <1>4, <2>3, <2>7, <2>11, <3>1, <3>4, <3>5, <3>6, Adopted
    <3> QED BY <3>3, <3>7 DEF IInv
  <2> QED BY <2>10, <2>11
<1>5. CASE /\ sock' = [sock EXCEPT ![c].status = "OPENED"]
           /\ hs' = [hs EXCEPT ![c].isn = Attempts]
           /\ app' = [app EXCEPT ![c].pc = "failed", ![c].result = "busy"]
           /\ UNCHANGED <<mux, net>>
  <2>1. Fail(c, sock[c], "busy")
    BY <1>5 DEF Fail
  <2>2. PICK q \in SockType :
          /\ sock' = [sock EXCEPT ![c] = q]
          /\ q.where = sock[c].where /\ q.mux = sock[c].mux /\ q.status # "INIT"
          /\ app' \in [Threads -> AppType]
          /\ app'[Accepter] = app[Accepter] /\ app'[Main] = app[Main]
    BY <1>2, <1>3, <2>1, FailDoes
  <2>3. hs' \in [Clients -> HsType]
    <3>1. Attempts \in 0..Attempts
      BY SocketsAssumption
    <3> QED BY <1>1, <1>5, <3>1 DEF Types, HsType
  <2>4. net' \subseteq Packets
    BY <1>1, <1>5 DEF Types, Packets
  <2> QED BY <1>2, <1>3, <1>5, <2>2, <2>3, <2>4, ClientStep
<1> QED BY <1>4, <1>5 DEF connect

LEMMA ConnectTimeoutStep ==
  ASSUME IInv, NEW c \in Clients, connectTimeout(c)
  PROVE  IInv'
<1>1. Types /\ Core
  BY DEF IInv
<1>2. /\ sock[c] \in SockType /\ mux[c] \in MuxType
      /\ mux = [mux EXCEPT ![c] = mux[c]]
      /\ mux[c].list \cup mux[c].entries \subseteq {c}
  BY <1>1, ClientHas
<1>3. /\ Fail(c, sock[c], "timeout")
      /\ UNCHANGED <<queue, taken, event, mux, worker, gc, count, hs, net, minute, expired, near>>
  BY DEF connectTimeout
<1>4. PICK q \in SockType :
        /\ sock' = [sock EXCEPT ![c] = q]
        /\ q.where = sock[c].where /\ q.mux = sock[c].mux /\ q.status # "INIT"
        /\ app' \in [Threads -> AppType]
        /\ app'[Accepter] = app[Accepter] /\ app'[Main] = app[Main]
  BY <1>2, <1>3, FailDoes
<1>5. net' \subseteq Packets /\ hs' \in [Clients -> HsType]
  BY <1>1, <1>3 DEF Types, Packets
<1>6. mux' = [mux EXCEPT ![c] = mux[c]]
  BY <1>2, <1>3
<1> QED BY <1>2, <1>3, <1>4, <1>5, <1>6, ClientStep

LEMMA ConcludeDoes ==
  ASSUME IInv, NEW c \in Clients, NEW r \in SockType, r.where = sock[c].where,
         r.mux = sock[c].mux, r.status = "INIT" => sock[c].status = "INIT",
         NEW res, Conclude(c, r, res)
  PROVE  \E q \in SockType :
           /\ sock' = [sock EXCEPT ![c] = q]
           /\ q.where = sock[c].where /\ q.mux = sock[c].mux
           /\ q.status = "INIT" => sock[c].status = "INIT"
           /\ app' \in [Threads -> AppType]
           /\ app'[Accepter] = app[Accepter] /\ app'[Main] = app[Main]
<1>1. PICK v \in {"ok", "rejected", "insecure"} : v = Verdict(c, res)
  BY DEF Verdict
<1>2. CASE v = "ok"
  <2>1. Types /\ Core
    BY DEF IInv
  <2>2. /\ sock' = [sock EXCEPT ![c] = r]
        /\ app' = [app EXCEPT ![c].pc = "connected", ![c].result = "ok"]
    BY <1>1, <1>2 DEF Conclude
  <2> DEFINE a == [app[c] EXCEPT !.pc = "connected", !.result = "ok"]
  <2>3. c \in Threads /\ c # Accepter /\ c # Main
    BY <2>1, ClientHas
  <2>4. app[c] \in AppType /\ app \in [Threads -> AppType]
    BY <2>1, <2>3 DEF Types
  <2>5. a \in AppType
    <3>1. "connected" \in AppPcs
      BY DEF AppPcs
    <3> QED BY <2>4, <3>1 DEF AppType
  <2>6. app' = [app EXCEPT ![c] = a]
    BY <2>2, <2>3, <2>4
  <2> HIDE DEF a
  <2>7. /\ app' \in [Threads -> AppType]
        /\ app'[Accepter] = app[Accepter] /\ app'[Main] = app[Main]
    BY <2>3, <2>4, <2>5, <2>6
  <2> QED BY <2>2, <2>7
<1>3. CASE v # "ok"
  <2>1. Fail(c, r, v) /\ v \in {"busy", "timeout", "rejected", "insecure"}
    BY <1>1, <1>3, Zenon DEF Conclude
  <2>2. PICK q \in SockType :
          /\ sock' = [sock EXCEPT ![c] = q]
          /\ q.where = sock[c].where /\ q.mux = sock[c].mux /\ q.status # "INIT"
          /\ app' \in [Threads -> AppType]
          /\ app'[Accepter] = app[Accepter] /\ app'[Main] = app[Main]
    BY <2>1, FailDoes
  <2> QED BY <2>2
<1> QED BY <1>2, <1>3

LEMMA ConnectResponseStep ==
  ASSUME IInv, NEW c \in Clients, connectResponse(c)
  PROVE  IInv'
<1>1. Types /\ Core
  BY DEF IInv
<1>2. /\ sock[c] \in SockType /\ mux[c] \in MuxType /\ hs[c] \in HsType
      /\ sock = [sock EXCEPT ![c] = sock[c]]
      /\ mux[c].list \cup mux[c].entries \subseteq {c}
      /\ c \in Threads /\ c \in Muxes /\ c \in Sockets /\ c # Accepter /\ c # Main
  BY <1>1, ClientHas
<1>3. /\ mux[c].store # <<>>
      /\ UNCHANGED <<queue, taken, event, worker, gc, count, minute, expired, near>>
  BY DEF connectResponse
<1> DEFINE p == Head(mux[c].store)
           res == [type |-> p.type, isn |-> p.isn]
           x == [mux[c] EXCEPT !.store = Tail(@)]
           again == [hs[c] EXCEPT !.type = -1, !.cookie = p.cookie, !.res = res]
           F == (sock[c].flags \ {"connecting"}) \cup {"connected", "onList"}
           r == [sock[c] EXCEPT !.status = "CONNECTED", !.peer = p.id, !.flags = F]
           y == [Forget(x, c) EXCEPT !.entries = @ \cup {c}]
<1>4. p \in ResponseType /\ Tail(mux[c].store) \in Seq(ResponseType)
  <2>1. mux[c].store \in Seq(ResponseType)
    BY <1>2 DEF MuxType
  <2> QED BY <1>3, <2>1
<1>5. res \in ResType /\ p.cookie \in 0..Minutes /\ p.id \in Sockets
  <2> HIDE DEF p
  <2> QED BY <1>4 DEF ResponseType, ResType
<1>6. /\ x \in MuxType /\ x.refs = mux[c].refs /\ x.list = mux[c].list
      /\ x.entries = mux[c].entries
  BY <1>2, <1>4 DEF MuxType
<1>7. again \in HsType
  <2>1. -1 \in {0, 1, -1}
    OBVIOUS
  <2> HIDE DEF res, p
  <2> QED BY <1>2, <1>5, <2>1, HsSet
<1>8. hs[c].res \in ResType
  BY <1>2 DEF HsType
<1>9. r \in SockType /\ r.where = sock[c].where /\ r.mux = sock[c].mux /\ r.status = "CONNECTED"
  <2>1. F \in SUBSET Flags /\ "CONNECTED" \in Statuses
    BY <1>2 DEF SockType, Flags, Statuses
  <2> HIDE DEF F, p
  <2> QED BY <1>2, <1>5, <2>1 DEF SockType
<1>10. y \in MuxType /\ y.refs = mux[c].refs /\ y.list \cup y.entries \subseteq {c}
  <2> HIDE DEF x
  <2>1. /\ Forget(x, c) \in MuxType /\ Forget(x, c).refs = x.refs
        /\ Forget(x, c).entries = x.entries /\ Forget(x, c).list = x.list
    BY <1>6, ForgetDoes
  <2> QED BY <1>2, <1>6, <2>1 DEF MuxType
<1>11. /\ \/ Conclude(c, sock[c], hs[c].res) /\ mux' = [mux EXCEPT ![c] = x] /\ UNCHANGED <<hs, net>>
          \/ /\ hs' = [hs EXCEPT ![c] = again] /\ Send({Request(c, again)})
             /\ mux' = [mux EXCEPT ![c] = x] /\ UNCHANGED <<sock, app>>
          \/ /\ Conclude(c, r, res) /\ mux' = [mux EXCEPT ![c] = y]
             /\ hs' = [hs EXCEPT ![c].res = res] /\ UNCHANGED net
  BY DEF connectResponse
<1> HIDE DEF p, res, x, again, r, y
<1>12. CASE Conclude(c, sock[c], hs[c].res) /\ mux' = [mux EXCEPT ![c] = x] /\ UNCHANGED <<hs, net>>
  <2>1. PICK q \in SockType :
          /\ sock' = [sock EXCEPT ![c] = q]
          /\ q.where = sock[c].where /\ q.mux = sock[c].mux
          /\ q.status = "INIT" => sock[c].status = "INIT"
          /\ app' \in [Threads -> AppType]
          /\ app'[Accepter] = app[Accepter] /\ app'[Main] = app[Main]
    BY <1>2, <1>12, ConcludeDoes
  <2>2. hs' \in [Clients -> HsType] /\ net' \subseteq Packets
    BY <1>1, <1>12 DEF Types, Packets
  <2> QED BY <1>2, <1>3, <1>6, <1>12, <2>1, <2>2, ClientStep
<1>13. CASE /\ hs' = [hs EXCEPT ![c] = again] /\ Send({Request(c, again)})
            /\ mux' = [mux EXCEPT ![c] = x] /\ UNCHANGED <<sock, app>>
  <2>1. hs' \in [Clients -> HsType] /\ app' \in [Threads -> AppType]
    BY <1>1, <1>7, <1>13 DEF Types
  <2>2. net' \subseteq Packets
    <3>1. {Request(c, again)} \subseteq Packets
      BY <1>7, RequestsAreType
    <3> QED BY <1>1, <1>13, <3>1, SendType
  <2>3. sock' = [sock EXCEPT ![c] = sock[c]]
    BY <1>2, <1>13
  <2> QED BY <1>2, <1>3, <1>6, <1>13, <2>1, <2>2, <2>3, ClientStep
<1>14. CASE /\ Conclude(c, r, res) /\ mux' = [mux EXCEPT ![c] = y]
            /\ hs' = [hs EXCEPT ![c].res = res] /\ UNCHANGED net
  <2>1. PICK q \in SockType :
          /\ sock' = [sock EXCEPT ![c] = q]
          /\ q.where = sock[c].where /\ q.mux = sock[c].mux
          /\ q.status = "INIT" => sock[c].status = "INIT"
          /\ app' \in [Threads -> AppType]
          /\ app'[Accepter] = app[Accepter] /\ app'[Main] = app[Main]
    BY <1>9, <1>14, ConcludeDoes
  <2>2. hs' \in [Clients -> HsType]
    <3>1. [hs[c] EXCEPT !.res = res] \in HsType
      BY <1>2, <1>5, Zenon DEF HsType
    <3> QED BY <1>1, <1>14, <3>1 DEF Types
  <2>3. net' \subseteq Packets
    BY <1>1, <1>14 DEF Types, Packets
  <2> QED BY <1>2, <1>3, <1>10, <1>14, <2>1, <2>2, <2>3, ClientStep
<1> QED BY <1>11, <1>12, <1>13, <1>14

-----------------------------------------------------------------------------
(* Steps of the clock and of the receiver threads *)

\* Only the network, the clocks or the clients' handshakes change.
LEMMA QuietStep ==
  ASSUME IInv, Types',
         UNCHANGED <<sock, queue, taken, event, mux, worker, gc, count, app, near>>
  PROVE  IInv'
<1>1. AppInv' /\ app'[Accepter].sock = app[Accepter].sock
  BY SameApp
<1>2. KeepSockets /\ KeepMuxes /\ KeepWaiting
  BY <1>1, SameSockets, SameMuxes, SameRest DEF IInv
<1> QED BY <1>1, <1>2, Kept

LEMMA ResendStep ==
  ASSUME IInv, NEW c \in Clients, Resend(c)
  PROVE  IInv'
<1>1. Types
  BY DEF IInv
<1>2. {Request(c, hs[c])} \subseteq Packets
  BY <1>1, RequestsAreType DEF Types
<1>3. /\ Send({Request(c, hs[c])})
      /\ UNCHANGED <<sock, queue, taken, event, mux, worker, gc, count, app, hs, minute,
                     expired, near>>
  BY DEF Resend
<1>4. net' \subseteq Packets
  BY <1>1, <1>2, <1>3, SendType
<1>5. Types'
  BY <1>1, <1>3, <1>4 DEF Types, Packets
<1> QED BY <1>3, <1>5, QuietStep

LEMMA ThreeSecondsStep ==
  ASSUME IInv, NEW c \in Clients, ThreeSeconds(c)
  PROVE  IInv'
<1>1. Types
  BY DEF IInv
<1>2. mux[c].connectors \subseteq Clients \X (1..Attempts)
  BY <1>1 DEF Types, MuxType, Muxes
<1>3. /\ expired' = expired \cup mux[c].connectors
      /\ UNCHANGED <<sock, queue, taken, event, mux, worker, gc, count, app, hs, net, minute, near>>
  BY DEF ThreeSeconds
<1>4. Types'
  BY <1>1, <1>2, <1>3 DEF Types
<1> QED BY <1>3, <1>4, QuietStep

LEMMA NewMinuteStep ==
  ASSUME IInv, NewMinute
  PROVE  IInv'
<1>1. Types
  BY DEF IInv
<1>2. /\ minute' = minute + 1 /\ minute < Minutes
      /\ UNCHANGED <<sock, queue, taken, event, mux, worker, gc, count, app, hs, net, expired,
                     near>>
  BY DEF NewMinute
<1>3. minute' \in 0..Minutes
  BY <1>1, <1>2, SocketsAssumption DEF Types
<1>4. Types'
  BY <1>1, <1>2, <1>3 DEF Types
<1> QED BY <1>2, <1>4, QuietStep

\* A multiplexer changes, but not who uses it.
LEMMA MuxStep ==
  ASSUME IInv, mux' \in [Muxes -> MuxType], KeepMuxes,
         UNCHANGED <<sock, queue, taken, event, worker, gc, count, app, hs, net, minute,
                     expired, near>>
  PROVE  IInv'
<1>1. AppInv' /\ app'[Accepter].sock = app[Accepter].sock
  BY SameApp
<1>2. KeepSockets /\ KeepWaiting
  BY <1>1, SameSockets, SameRest DEF IInv
<1>3. Types'
  BY DEF IInv, Types
<1> QED BY <1>1, <1>2, <1>3, Kept

LEMMA StorePktStep ==
  ASSUME IInv, NEW c \in Clients, storePkt(c)
  PROVE  IInv'
<1>1. Types
  BY DEF IInv
<1>2. PICK p \in Responses(c) :
        /\ mux' = [mux EXCEPT ![c].store = Append(@, p)]
        /\ UNCHANGED <<sock, queue, taken, event, worker, gc, count, app, hs, net, minute,
                       expired, near>>
  BY DEF storePkt
<1>3. p \in ResponseType /\ c \in Muxes
  BY <1>1, ResponsesType DEF Muxes
<1>4. mux[c] \in MuxType /\ Append(mux[c].store, p) \in Seq(ResponseType)
  BY <1>1, <1>3 DEF Types, MuxType
<1> DEFINE x == [mux[c] EXCEPT !.store = Append(mux[c].store, p)]
<1>5. /\ x \in MuxType /\ x.refs = mux[c].refs /\ x.listener = mux[c].listener
      /\ x.list = mux[c].list /\ x.entries = mux[c].entries
  BY <1>4 DEF MuxType
<1>6. mux' = [mux EXCEPT ![c] = x]
  BY <1>2
<1> HIDE DEF x
<1>7. /\ mux' \in [Muxes -> MuxType] /\ mux'[c] = x
      /\ \A n \in Muxes \ {c} : mux'[n] = mux[n]
  BY <1>1, <1>3, <1>5, <1>6, MuxSet
<1>8. KeepMuxes
  BY <1>5, <1>7, IdFacts DEF KeepMuxes, Muxes
<1> QED BY <1>2, <1>7, <1>8, MuxStep

LEMMA TakeEntriesStep ==
  ASSUME IInv, NEW m \in Muxes, takeEntries(m)
  PROVE  IInv'
<1>1. Types /\ mux[m] \in MuxType
  BY DEF IInv, Types
<1>2. /\ mux' = [mux EXCEPT ![m].list = @ \cup mux[m].entries, ![m].entries = {}]
      /\ UNCHANGED <<sock, queue, taken, event, worker, gc, count, app, hs, net, minute,
                     expired, near>>
  BY DEF takeEntries
<1> DEFINE L == mux[m].list \cup mux[m].entries
           x == [mux[m] EXCEPT !.list = L, !.entries = {}]
<1>3. mux' = [mux EXCEPT ![m] = x]
  BY <1>1, <1>2 DEF Types
<1>4. L \in SUBSET Sockets
  BY <1>1 DEF MuxType
<1>5. /\ x \in MuxType /\ x.refs = mux[m].refs /\ x.listener = mux[m].listener
      /\ x.list = L /\ x.entries = {}
  <2> HIDE DEF L
  <2> QED BY <1>1, <1>4 DEF MuxType
<1> HIDE DEF x
<1>6. /\ mux' \in [Muxes -> MuxType] /\ mux'[m] = x
      /\ \A n \in Muxes \ {m} : mux'[n] = mux[n]
  BY <1>1, <1>3, <1>5, MuxSet
<1>7. KeepMuxes
  BY <1>5, <1>6, IdFacts DEF KeepMuxes, Muxes
<1> QED BY <1>2, <1>6, <1>7, MuxStep

\* q is the socket r with other flags or of another age.
SameUser(r, q) ==
  /\ q.where = r.where /\ q.mux = r.mux /\ q.peer = r.peer /\ q.isn = r.isn
  /\ q.status = r.status

\* The flags of a socket change: none that is broken is mended, and the one that is
\* being made is not broken.
LEMMA FlagsStep ==
  ASSUME IInv, NEW s \in Sockets, NEW r \in SockType, SameUser(sock[s], r),
         sock' = [sock EXCEPT ![s] = r],
         Is(s, "broken") => "broken" \in r.flags,
         Making(s) => "broken" \notin r.flags,
         mux' \in [Muxes -> MuxType], KeepMuxes, event' \in BOOLEAN,
         app' \in [Threads -> AppType], AppInv', app'[Accepter].sock = app[Accepter].sock,
         UNCHANGED <<queue, taken, worker, gc, count, hs, net, minute, expired, near>>
  PROVE  IInv'
<1>1. Types /\ Core
  BY DEF IInv
<1>2. KeepSockets
  BY <1>1, KeepOne DEF SameUser
<1>3. sock' \in [Sockets -> SockType]
  BY <1>1, SockSet
<1>4. Types'
  BY <1>1, <1>3 DEF Types
<1>5. KeepWaiting
  BY SameRest
<1> QED BY <1>2, <1>4, <1>5, Kept

LEMMA FlagsSet ==
  ASSUME Types, NEW s \in Sockets, NEW F \in SUBSET Flags, sock' = [sock EXCEPT ![s].flags = F]
  PROVE  \E r \in SockType :
           sock' = [sock EXCEPT ![s] = r] /\ SameUser(sock[s], r) /\ r.flags = F
<1> DEFINE r == [sock[s] EXCEPT !.flags = F]
<1>1. r \in SockType /\ SameUser(sock[s], r) /\ r.flags = F
  BY DEF Types, SockType, SameUser
<1>2. sock' = [sock EXCEPT ![s] = r]
  OBVIOUS
<1> HIDE DEF r
<1> QED BY <1>1, <1>2

\* A receiver thread that has nothing else to do makes no connection either.
LEMMA ListedIsMade ==
  ASSUME IInv, NEW m \in Muxes, worker[m].pc = "idle", NEW s \in mux[m].list
  PROVE  s \in Sockets /\ ~Making(s)
<1>1. s \in Sockets
  BY DEF IInv, Types, MuxType
<1>2. CASE m = Listener
  BY <1>1, <1>2 DEF Making
<1>3. CASE m # Listener
  <2>1. m \in Clients /\ s = m
    BY <1>3 DEF Muxes, IInv, Core, Threaded
  <2>2. s \notin Accepted
    BY <2>1, IdFacts
  <2> QED BY <1>1, <2>2 DEF IInv, Core, MakingInv, Making
<1> QED BY <1>2, <1>3

LEMMA DropEndedStep ==
  ASSUME IInv, NEW m \in Muxes, dropEnded(m)
  PROVE  IInv'
<1>1. Types /\ mux[m] \in MuxType
  BY DEF IInv, Types
<1>2. PICK s \in mux[m].list :
        /\ worker[m].pc = "idle"
        /\ mux' = [mux EXCEPT ![m].list = @ \ {s}]
        /\ sock' = [sock EXCEPT ![s] = OffList(@)]
        /\ UNCHANGED <<queue, taken, event, worker, gc, count, app, hs, net, minute, expired,
                       near>>
  BY DEF dropEnded
<1>3. s \in Sockets /\ ~Making(s)
  BY <1>2, ListedIsMade
<1>4. PICK F \in SUBSET Flags : F = sock[s].flags \ {"onList"}
  BY <1>1, <1>3 DEF Types, SockType
<1>5. PICK r \in SockType :
        sock' = [sock EXCEPT ![s] = r] /\ SameUser(sock[s], r) /\ r.flags = F
  <2>1. sock' = [sock EXCEPT ![s].flags = F]
    BY <1>2, <1>4 DEF OffList
  <2> QED BY <1>1, <1>3, <2>1, FlagsSet
<1>6. Is(s, "broken") => "broken" \in r.flags
  BY <1>4, <1>5 DEF Is
<1> DEFINE L == mux[m].list \ {s}
           x == [mux[m] EXCEPT !.list = L]
<1>7. mux' = [mux EXCEPT ![m] = x]
  BY <1>2
<1>8. L \in SUBSET Sockets
  BY <1>1 DEF MuxType
<1>9. /\ x \in MuxType /\ x.refs = mux[m].refs /\ x.listener = mux[m].listener
      /\ x.list = L /\ x.entries = mux[m].entries
  <2> HIDE DEF L
  <2> QED BY <1>1, <1>8 DEF MuxType
<1> HIDE DEF x
<1>10. /\ mux' \in [Muxes -> MuxType] /\ mux'[m] = x
       /\ \A n \in Muxes \ {m} : mux'[n] = mux[n]
  BY <1>1, <1>7, <1>9, MuxSet
<1>11. KeepMuxes
  BY <1>9, <1>10, IdFacts DEF KeepMuxes, Muxes
<1>12. AppInv' /\ app'[Accepter].sock = app[Accepter].sock /\ app' \in [Threads -> AppType]
  BY <1>1, <1>2, SameApp DEF Types
<1>13. event' \in BOOLEAN
  BY <1>1, <1>2 DEF Types
<1> QED BY <1>2, <1>3, <1>5, <1>6, <1>10, <1>11, <1>12, <1>13, FlagsStep

\* Something breaks a socket a receiver thread lists.
LEMMA BreakStep ==
  ASSUME IInv, NEW m \in Muxes, worker[m].pc = "idle", NEW s \in mux[m].list,
         NEW G \in SUBSET Flags, "broken" \in G,
         sock' = [sock EXCEPT ![s].flags = @ \cup G],
         UNCHANGED <<queue, taken, event, mux, worker, gc, count, app, hs, net, minute,
                     expired, near>>
  PROVE  IInv'
<1>1. Types
  BY DEF IInv
<1>2. s \in Sockets /\ ~Making(s)
  BY ListedIsMade
<1>3. PICK F \in SUBSET Flags : F = sock[s].flags \cup G
  BY <1>1, <1>2 DEF Types, SockType
<1>4. PICK r \in SockType :
        sock' = [sock EXCEPT ![s] = r] /\ SameUser(sock[s], r) /\ r.flags = F
  <2>1. sock' = [sock EXCEPT ![s].flags = F]
    BY <1>3
  <2> QED BY <1>1, <1>2, <2>1, FlagsSet
<1>5. "broken" \in r.flags
  BY <1>3, <1>4
<1>6. /\ AppInv' /\ app'[Accepter].sock = app[Accepter].sock /\ app' \in [Threads -> AppType]
      /\ mux' \in [Muxes -> MuxType] /\ KeepMuxes /\ event' \in BOOLEAN
  BY <1>1, SameApp, SameMuxes DEF Types
<1> QED BY <1>2, <1>4, <1>5, <1>6, FlagsStep

LEMMA ExpireStep ==
  ASSUME IInv, NEW m \in Muxes, expire(m)
  PROVE  IInv'
<1>1. {"broken", "closing"} \in SUBSET Flags
  BY DEF Flags
<1> QED BY <1>1, BreakStep DEF expire

LEMMA HearShutdownStep ==
  ASSUME IInv, NEW m \in Muxes, hearShutdown(m)
  PROVE  IInv'
<1>1. {"shutdown", "broken", "closing"} \in SUBSET Flags
  BY DEF Flags
<1> QED BY <1>1, BreakStep DEF hearShutdown

LEMMA OlderStep ==
  ASSUME IInv, NEW s \in Sockets, Older(s)
  PROVE  IInv'
<1>1. Types /\ sock[s] \in SockType
  BY DEF IInv, Types
<1>2. /\ sock[s].age < AgeAsked(s) /\ sock' = [sock EXCEPT ![s].age = @ + 1]
      /\ UNCHANGED <<queue, taken, event, mux, worker, gc, count, app, hs, net, minute,
                     expired, near>>
  BY DEF Older
<1>3. PICK a \in 0..2 : a = sock[s].age + 1
  <2>1. AgeAsked(s) \in 0..2
    BY DEF AgeAsked
  <2>2. sock[s].age \in 0..2
    BY <1>1 DEF SockType
  <2> QED BY <1>2, <2>1, <2>2
<1> DEFINE r == [sock[s] EXCEPT !.age = a]
<1>4. r \in SockType /\ SameUser(sock[s], r) /\ r.flags = sock[s].flags
  BY <1>1 DEF SockType, SameUser
<1>5. sock' = [sock EXCEPT ![s] = r]
  BY <1>2, <1>3
<1> HIDE DEF r
<1>6. Making(s) => "broken" \notin r.flags
  BY <1>4 DEF IInv, Core, MakingInv, Making, Is
<1>7. Is(s, "broken") => "broken" \in r.flags
  BY <1>4 DEF Is
<1>8. /\ AppInv' /\ app'[Accepter].sock = app[Accepter].sock /\ app' \in [Threads -> AppType]
      /\ mux' \in [Muxes -> MuxType] /\ KeepMuxes /\ event' \in BOOLEAN
  BY <1>1, <1>2, SameApp, SameMuxes DEF Types
<1> QED BY <1>2, <1>4, <1>5, <1>6, <1>7, <1>8, FlagsStep

LEMMA GiveUpStep ==
  ASSUME IInv, NEW c \in Clients, GiveUp(c)
  PROVE  IInv'
<1>1. Types /\ c \in Sockets /\ c \notin Accepted
  BY IdFacts DEF IInv
<1>2. /\ sock' = [sock EXCEPT ![c].flags = @ \ {"connecting"}]
      /\ UNCHANGED <<queue, taken, event, mux, worker, gc, count, app, hs, net, minute,
                     expired, near>>
  BY DEF GiveUp
<1>3. PICK F \in SUBSET Flags : F = sock[c].flags \ {"connecting"}
  BY <1>1 DEF Types, SockType
<1>4. PICK r \in SockType :
        sock' = [sock EXCEPT ![c] = r] /\ SameUser(sock[c], r) /\ r.flags = F
  <2>1. sock' = [sock EXCEPT ![c].flags = F]
    BY <1>2, <1>3
  <2> QED BY <1>1, <2>1, FlagsSet
<1>5. ~Making(c)
  BY <1>1 DEF IInv, Core, MakingInv, Making
<1>6. Is(c, "broken") => "broken" \in r.flags
  BY <1>3, <1>4 DEF Is
<1>7. /\ AppInv' /\ app'[Accepter].sock = app[Accepter].sock /\ app' \in [Threads -> AppType]
      /\ mux' \in [Muxes -> MuxType] /\ KeepMuxes /\ event' \in BOOLEAN
  BY <1>1, <1>2, SameApp, SameMuxes DEF Types
<1> QED BY <1>1, <1>2, <1>4, <1>5, <1>6, <1>7, FlagsStep

LEMMA CloseListenerStep ==
  ASSUME IInv, closeListener
  PROVE  IInv'
<1>1. Types /\ sock[Listener] \in SockType /\ Listener \in Sockets /\ Listener \notin Accepted
  BY IdFacts DEF IInv, Types
<1>2. /\ sock' = [sock EXCEPT ![Listener].flags = @ \cup {"broken"}, ![Listener].age = 0]
      /\ event' = TRUE /\ Goto(Main, "closed")
      /\ UNCHANGED <<queue, taken, mux, worker, gc, count, hs, net, minute, expired, near>>
  BY DEF closeListener, Wake
<1>3. PICK F \in SUBSET Flags : F = sock[Listener].flags \cup {"broken"}
  BY <1>1 DEF SockType, Flags
<1> DEFINE r == [sock[Listener] EXCEPT !.flags = F, !.age = 0]
<1>4. r \in SockType /\ SameUser(sock[Listener], r) /\ r.flags = F
  <2>1. 0 \in 0..2
    OBVIOUS
  <2> QED BY <1>1, <2>1 DEF SockType, SameUser
<1>5. sock' = [sock EXCEPT ![Listener] = r]
  BY <1>1, <1>2, <1>3 DEF Types
<1> HIDE DEF r
<1>6. ~Making(Listener)
  BY <1>1 DEF IInv, Core, MakingInv, Making
<1>7. /\ app' \in [Threads -> AppType] /\ app'[Main].pc = "closed"
      /\ app'[Accepter] = app[Accepter]
  BY <1>1, <1>2, GotoDoes, IdFacts DEF AppPcs
<1>8. AppInv' /\ app'[Accepter].sock = app[Accepter].sock
  BY <1>7 DEF IInv, AppInv
<1>9. mux' \in [Muxes -> MuxType] /\ KeepMuxes /\ event' \in BOOLEAN
  BY <1>1, <1>2, SameMuxes DEF Types
<1>10. "broken" \in r.flags
  BY <1>3, <1>4
<1> QED BY <1>1, <1>2, <1>4, <1>5, <1>6, <1>7, <1>8, <1>9, <1>10, FlagsStep

-----------------------------------------------------------------------------
(* The receiver thread of the listener makes a connection *)

LEMMA ResponseIsPacket ==
  ASSUME Types, NEW p \in RequestType, NEW type \in {1, -1, 1002}, NEW id \in Sockets
  PROVE  {Response(p.from, p.isn, type, id)} \subseteq Packets
<1>1. p.from \in Clients /\ p.isn \in 0..Attempts /\ minute \in 0..Minutes
  BY DEF RequestType, Types
<1>2. Response(p.from, p.isn, type, id) \in ResponseType
  BY <1>1 DEF Response, ResponseType
<1> QED BY <1>2 DEF Packets

\* The receiver thread of the listener goes on with request p.
LEMMA WorkingDoes ==
  ASSUME Types, NEW pc \in {"locate", "create", "insert", "queue"}, NEW p \in RequestType,
         NEW ns \in Sockets \cup {NoSocket}, Working(pc, p, ns)
  PROVE  /\ worker' \in [Muxes -> WorkerType]
         /\ worker'[Listener].pc = pc /\ worker'[Listener].msg = p /\ worker'[Listener].new = ns
         /\ \A c \in Clients : worker'[c] = worker[c]
<1> DEFINE w == [pc |-> pc, msg |-> p, new |-> ns]
<1>1. w \in WorkerType /\ w.pc = pc /\ w.msg = p /\ w.new = ns
  BY DEF WorkerType
<1>2. worker' = [worker EXCEPT ![Listener] = w]
  BY DEF Working
<1> HIDE DEF w
<1>3. worker' \in [Muxes -> WorkerType] /\ worker'[Listener] = w
      /\ \A c \in Clients : worker'[c] = worker[c]
  BY <1>1, <1>2, IdFacts DEF Types, Muxes
<1> QED BY <1>1, <1>3

LEMMA IdleDoes ==
  ASSUME Types, worker' = [worker EXCEPT ![Listener] = Idle]
  PROVE  /\ worker' \in [Muxes -> WorkerType] /\ worker'[Listener].pc = "idle"
         /\ \A c \in Clients : worker'[c] = worker[c]
         /\ \A m \in Muxes : worker'[m] = worker[m] \/ worker'[m].pc = "idle"
<1>1. Idle \in WorkerType /\ Idle.pc = "idle"
  BY DEF Idle, WorkerType
<1> HIDE DEF Idle
<1> QED BY <1>1, IdFacts DEF Types, Muxes

LEMMA AnswerDoes ==
  ASSUME Types, NEW p \in RequestType, NEW type \in {1, -1, 1002}, NEW id \in Sockets,
         Answer(p, type, id)
  PROVE  /\ worker' = [worker EXCEPT ![Listener] = Idle]
         /\ net' \subseteq Packets
  BY ResponseIsPacket, SendType DEF Answer

\* The receiver thread of the listener is at work on a request.
AtWork(p) ==
  sock[Listener].status # "INIT" /\ p \in RequestType /\ ~gc["server"].closing

\* It makes a step, and the users of the multiplexers stay as they are.
LEMMA WorkerCore ==
  ASSUME Types, Core, KeepSockets, KeepMuxes, KeepWaiting, gc' = gc,
         \A c \in Clients : worker'[c] = worker[c],
         worker'[Listener].pc # "idle" => AtWork(worker'[Listener].msg),
         MakingInv'
  PROVE  Core'
<1>1. FirstUse' /\ Descending' /\ Counted' /\ WaitingInv'
  BY KeepFirstUse, KeepDescending, KeepCount, KeepWaitingInv DEF Core
<1>2. RemovingInv'
  BY SameRest, KeepRemovingInv DEF Core
<1>3. Threaded'
  <2>1. ASSUME NEW c \in Clients
        PROVE  worker'[c].pc = "idle" /\ mux'[c].list \cup mux'[c].entries \subseteq {c}
    BY DEF Core, Threaded, KeepMuxes, Muxes
  <2>2. sock'[Listener].status = "INIT" => sock[Listener].status = "INIT"
    BY IdFacts DEF KeepSockets
  <2> QED BY <2>1, <2>2 DEF Threaded, AtWork
<1> QED BY <1>1, <1>2, <1>3 DEF Core

LEMMA ListenRequestStep ==
  ASSUME IInv, ~late', listenRequest
  PROVE  IInv'
<1>1. Types /\ Core
  BY DEF IInv
<1>2. PICK p \in Requests :
        \/ p.type = 1 /\ Answer(p, 1, p.from)
        \/ Working("locate", p, NoSocket) /\ UNCHANGED net /\ ~gc["server"].closing
  BY DEF listenRequest, Punctual
<1>3. /\ mux[Listener].listener # NoSocket
      /\ UNCHANGED <<sock, queue, taken, event, mux, gc, count, app, hs, minute, expired, near>>
  BY DEF listenRequest
<1>4. p \in RequestType /\ p.from \in Sockets
  BY <1>1, RequestsType, IdFacts DEF RequestType
<1>5. /\ worker' \in [Muxes -> WorkerType] /\ net' \subseteq Packets
      /\ \A c \in Clients : worker'[c] = worker[c]
      /\ \/ worker'[Listener].pc = "idle"
         \/ /\ worker'[Listener].pc = "locate" /\ worker'[Listener].msg = p
            /\ ~gc["server"].closing
  <2>1. CASE Answer(p, 1, p.from)
    BY <1>1, <1>4, <2>1, AnswerDoes, IdleDoes
  <2>2. CASE /\ Working("locate", p, NoSocket) /\ UNCHANGED net
             /\ ~gc["server"].closing
    <3>1. net' \subseteq Packets
      BY <1>1, <2>2 DEF Types, Packets
    <3> QED BY <1>1, <1>4, <2>2, <3>1, WorkingDoes
  <2> QED BY <1>2, <2>1, <2>2
<1>6. worker'[Listener].pc # "idle" => AtWork(worker'[Listener].msg)
  BY <1>1, <1>3, <1>4, <1>5 DEF AtWork, Core, FirstUse
<1>7. MakingInv'
  BY <1>5 DEF MakingInv
<1>8. AppInv' /\ app'[Accepter].sock = app[Accepter].sock
  BY <1>3, SameApp
<1>9. KeepSockets /\ KeepMuxes /\ KeepWaiting
  BY <1>1, <1>3, <1>8, SameSockets, SameMuxes, SameRest
<1>10. Core'
  BY <1>1, <1>3, <1>5, <1>6, <1>7, <1>9, WorkerCore
<1>11. Types'
  BY <1>1, <1>3, <1>5 DEF Types, Packets
<1> QED BY <1>8, <1>10, <1>11 DEF IInv

\* Of the connections that answer p all are broken if the one that is found is.
LEMMA FoundIsLast ==
  ASSUME Types, Core, NEW p \in RequestType, SameRequest(p) # {}
  PROVE  /\ Lowest(SameRequest(p)) \in Accepted
         /\ sock[Lowest(SameRequest(p))].where = "sockets"
         /\ Is(Lowest(SameRequest(p)), "broken") =>
              \A s \in Accepted : sock[s].where = "sockets" /\ Answers(s, p) => Is(s, "broken")
<1>1. PICK S \in SUBSET Sockets : S = SameRequest(p) /\ S # {}
  BY IdFacts DEF SameRequest
<1>2. PICK d : d = Lowest(S)
  OBVIOUS
<1>3. d \in S /\ \A s \in S : d <= s
  BY <1>1, <1>2, ExtremeIds
<1>4. \A s : s \in S <=> s \in Accepted /\ sock[s].where = "sockets" /\ Answers(s, p)
  BY <1>1 DEF SameRequest, Answers
<1>5. ASSUME Is(d, "broken"), NEW s \in Accepted, sock[s].where = "sockets", Answers(s, p)
      PROVE  Is(s, "broken")
  <2>1. s \in S /\ d \in Accepted /\ d <= s /\ d \in Nat /\ s \in Nat
    BY <1>3, <1>4, <1>5, IdFacts
  <2>2. d = s \/ d < s
    BY <2>1
  <2>3. sock[d].where = "sockets" /\ sock[d].peer = sock[s].peer /\ sock[d].isn = sock[s].isn
    BY <1>3, <1>4, <1>5 DEF Answers
  <2> QED BY <1>5, <2>1, <2>2, <2>3 DEF Core, Descending
<1> QED BY <1>1, <1>2, <1>3, <1>4, <1>5

LEMMA LocateRequestStep ==
  ASSUME IInv, locateRequest
  PROVE  IInv'
<1>1. Types /\ Core
  BY DEF IInv
<1>2. PICK p : p = worker[Listener].msg
  OBVIOUS
<1>3. PICK d : d = Lowest(SameRequest(p))
  OBVIOUS
<1>4. worker[Listener].pc = "locate" /\ UNCHANGED <<event, mux, gc, count, app, hs, minute, expired, near>>
  BY DEF locateRequest
<1>5. \/ Answer(p, 1002, p.from) /\ UNCHANGED <<sock, queue, taken>>
      \/ SameRequest(p) # {} /\ Answer(p, -1, d) /\ UNCHANGED <<sock, queue, taken>>
      \/ /\ SameRequest(p) # {} /\ Is(d, "broken")
         /\ sock' = [sock EXCEPT ![d].status = "CLOSED", ![d].age = 0]
         /\ queue' = queue \ {d} /\ taken' = taken \ {d}
         /\ Working("create", p, NoSocket) /\ UNCHANGED net
      \/ /\ SameRequest(p) = {}
         /\ Working("create", p, NoSocket) /\ UNCHANGED <<sock, queue, taken, net>>
  BY <1>2, <1>3 DEF locateRequest
<1>6. AtWork(p) /\ p \in RequestType /\ p.from \in Sockets
  <2>1. AtWork(p) /\ p \in RequestType
    BY <1>1, <1>2, <1>4 DEF Core, Threaded, AtWork
  <2> QED BY <2>1, IdFacts DEF RequestType
<1>7. SameRequest(p) # {} =>
        /\ d \in Accepted /\ d \in Sockets /\ sock[d].where = "sockets"
        /\ Is(d, "broken") =>
             \A s \in Accepted : sock[s].where = "sockets" /\ Answers(s, p) => Is(s, "broken")
  BY <1>1, <1>3, <1>6, FoundIsLast, IdFacts
<1>8. AppInv' /\ app'[Accepter].sock = app[Accepter].sock
  BY <1>4, SameApp
<1>9. KeepMuxes
  BY <1>4, SameMuxes
<1>10. ASSUME NEW type \in {1, -1, 1002}, NEW id \in Sockets, Answer(p, type, id),
              UNCHANGED <<sock, queue, taken>>
       PROVE  IInv'
  <2>1. worker' = [worker EXCEPT ![Listener] = Idle] /\ net' \subseteq Packets
    BY <1>1, <1>6, <1>10, AnswerDoes
  <2>2. /\ worker' \in [Muxes -> WorkerType]
        /\ \A m \in Muxes : worker'[m] = worker[m] \/ worker'[m].pc = "idle"
    BY <1>1, <2>1, IdleDoes
  <2>3. KeepSockets /\ KeepWaiting /\ KeepRemoving
    BY <1>1, <1>4, <1>8, <1>10, SameSockets, SameRest
  <2>4. gc'["server"].closing => gc["server"].closing
    BY <1>4
  <2>5. Core'
    BY <1>1, <1>9, <2>2, <2>3, <2>4, KeepCore
  <2>6. Types'
    BY <1>1, <1>4, <1>10, <2>1, <2>2 DEF Types, Packets
  <2> QED BY <1>8, <2>5, <2>6 DEF IInv
<1>11. ASSUME Working("create", p, NoSocket), UNCHANGED net, KeepSockets, KeepWaiting,
              sock' \in [Sockets -> SockType],
              \A s \in Accepted : sock[s].where = "sockets" /\ Answers(s, p) => Is(s, "broken")
       PROVE  IInv'
  <2>1. /\ worker' \in [Muxes -> WorkerType]
        /\ worker'[Listener].pc = "create" /\ worker'[Listener].msg = p
        /\ \A c \in Clients : worker'[c] = worker[c]
    BY <1>1, <1>6, <1>11, WorkingDoes
  <2>2. MakingInv'
    <3>1. ASSUME NEW s \in Accepted, sock'[s].where = "sockets",
                 sock'[s].peer = p.from, sock'[s].isn = p.isn
          PROVE  "broken" \in sock'[s].flags
      <4>1. sock[s].where = "sockets" /\ sock[s].peer = p.from /\ sock[s].isn = p.isn
        BY <1>11, <3>1, IdFacts DEF KeepSockets, Moves
      <4>2. Is(s, "broken")
        BY <1>11, <4>1 DEF Answers
      <4> QED BY <1>11, <4>2 DEF KeepSockets, Is
    <3> QED BY <2>1, <3>1 DEF MakingInv, Answers, Is
  <2>3. Core'
    BY <1>1, <1>4, <1>6, <1>9, <1>11, <2>1, <2>2, WorkerCore
  <2>4. Types'
    <3>1. queue' \subseteq Accepted /\ taken' \subseteq Accepted
      BY <1>1, <1>11 DEF Types, KeepWaiting
    <3> QED BY <1>1, <1>4, <1>11, <2>1, <3>1 DEF Types
  <2> QED BY <1>8, <2>3, <2>4 DEF IInv
<1>12. CASE /\ SameRequest(p) # {} /\ Is(d, "broken")
            /\ sock' = [sock EXCEPT ![d].status = "CLOSED", ![d].age = 0]
            /\ queue' = queue \ {d} /\ taken' = taken \ {d}
            /\ Working("create", p, NoSocket) /\ UNCHANGED net
  <2>1. sock[d] \in SockType /\ d \in Sockets
    BY <1>1, <1>7, <1>12 DEF Types
  <2> DEFINE r == [sock[d] EXCEPT !.status = "CLOSED", !.age = 0]
  <2>2. /\ r \in SockType /\ r.where = sock[d].where /\ r.mux = sock[d].mux
        /\ r.status = "CLOSED" /\ r.peer = sock[d].peer /\ r.isn = sock[d].isn
        /\ r.flags = sock[d].flags
    <3>1. "CLOSED" \in Statuses /\ 0 \in 0..2
      BY DEF Statuses
    <3> QED BY <2>1, <3>1 DEF SockType
  <2>3. sock' = [sock EXCEPT ![d] = r]
    BY <1>1, <1>12, <2>1 DEF Types
  <2> HIDE DEF r
  <2>4. ~Making(d) /\ r.where # "none"
    BY <1>4, <1>7, <1>12, <2>2 DEF Making
  <2>5. KeepSockets /\ sock' \in [Sockets -> SockType]
    BY <1>1, <2>1, <2>2, <2>3, <2>4, KeepOne, SockSet DEF Is
  <2>6. KeepWaiting
    BY <1>8, <1>12 DEF KeepWaiting
  <2> QED BY <1>7, <1>11, <1>12, <2>5, <2>6
<1>13. CASE /\ SameRequest(p) = {}
            /\ Working("create", p, NoSocket) /\ UNCHANGED <<sock, queue, taken, net>>
  <2>1. \A s \in Accepted : ~(sock[s].where = "sockets" /\ Answers(s, p))
    BY <1>13 DEF SameRequest, Answers
  <2>2. KeepSockets /\ KeepWaiting
    BY <1>1, <1>8, <1>13, SameSockets, SameRest
  <2>3. sock' \in [Sockets -> SockType]
    BY <1>1, <1>13 DEF Types
  <2> QED BY <1>11, <1>13, <2>1, <2>2, <2>3
<1> QED BY <1>5, <1>6, <1>7, <1>10, <1>12, <1>13

LEMMA CreateConnectionStep ==
  ASSUME IInv, createConnection
  PROVE  IInv'
<1>1. Types /\ Core
  BY DEF IInv
<1> DEFINE p  == worker[Listener].msg
           ns == Highest(Fresh)
<1>2. p = worker[Listener].msg
  OBVIOUS
<1>3. ns = Highest(Fresh)
  OBVIOUS
<1>4. /\ worker[Listener].pc = "create" /\ Free("server")
      /\ UNCHANGED <<queue, taken, event, gc, count, app, hs, minute, expired, near>>
  BY DEF createConnection
<1> DEFINE r == [where |-> "private", status |-> "CONNECTED", mux |-> Listener,
                 flags |-> {"opened", "connected", "onList"},
                 peer |-> p.from, isn |-> p.isn, age |-> 0]
           x == [Shared(mux[Listener]) EXCEPT !.entries = @ \cup {ns}]
<1>5. \/ Answer(p, 1002, p.from) /\ UNCHANGED <<sock, mux>>
      \/ /\ ~Full /\ Fresh # {}
         /\ sock' = [sock EXCEPT ![ns] = r]
         /\ mux' = [mux EXCEPT ![Listener] = x]
         /\ Send({Response(p.from, p.isn, -1, ns)})
         /\ Working("insert", p, ns)
  BY DEF createConnection
<1> HIDE DEF p, ns
<1>6. AtWork(p) /\ p \in RequestType /\ p.from \in Sockets /\ p.isn \in 0..Attempts
  <2>1. AtWork(p) /\ p \in RequestType
    BY <1>1, <1>2, <1>4 DEF Core, Threaded, AtWork
  <2> QED BY <2>1, IdFacts DEF RequestType
<1>7. AppInv' /\ app'[Accepter].sock = app[Accepter].sock
  BY <1>4, SameApp
<1>8. CASE Answer(p, 1002, p.from) /\ UNCHANGED <<sock, mux>>
  <2>1. worker' = [worker EXCEPT ![Listener] = Idle] /\ net' \subseteq Packets
    BY <1>1, <1>6, <1>8, AnswerDoes
  <2>2. /\ worker' \in [Muxes -> WorkerType]
        /\ \A m \in Muxes : worker'[m] = worker[m] \/ worker'[m].pc = "idle"
    BY <1>1, <2>1, IdleDoes
  <2>3. KeepSockets /\ KeepMuxes /\ KeepWaiting /\ KeepRemoving
    BY <1>1, <1>4, <1>7, <1>8, SameSockets, SameMuxes, SameRest
  <2>4. gc'["server"].closing => gc["server"].closing
    BY <1>4
  <2>5. Core'
    BY <1>1, <2>2, <2>3, <2>4, KeepCore
  <2>6. Types'
    BY <1>1, <1>4, <1>8, <2>1, <2>2 DEF Types, Packets
  <2> QED BY <1>7, <2>5, <2>6 DEF IInv
<1>9. CASE /\ ~Full /\ Fresh # {}
           /\ sock' = [sock EXCEPT ![ns] = r]
           /\ mux' = [mux EXCEPT ![Listener] = x]
           /\ Send({Response(p.from, p.isn, -1, ns)})
           /\ Working("insert", p, ns)
  <2>1. /\ ns \in Accepted /\ ns \in Sockets /\ sock[ns].where = "none"
        /\ \A s \in Accepted : sock[s].where = "none" => s <= ns
        /\ ns # Listener /\ ns # NoSocket /\ ns \notin Clients
    <3>1. PICK S \in SUBSET Sockets : S = Fresh /\ S # {}
      BY <1>9, IdFacts DEF Fresh
    <3>2. ns \in S /\ \A s \in S : s <= ns
      BY <1>3, <3>1, ExtremeIds
    <3> QED BY <3>1, <3>2, IdFacts DEF Fresh
  <2>2. /\ r \in SockType /\ r.where = "private" /\ r.mux = Listener /\ r.status # "INIT"
        /\ r.peer = p.from /\ r.isn = p.isn /\ "broken" \notin r.flags
    <3>1. /\ {"opened", "connected", "onList"} \in SUBSET Flags /\ "private" \in Wheres
          /\ "CONNECTED" \in Statuses /\ 0 \in 0..2 /\ Listener \in Muxes
      BY IdFacts DEF Flags, Wheres, Statuses
    <3> QED BY <1>6, <3>1 DEF SockType
  <2>3. /\ x \in MuxType /\ x.refs = mux[Listener].refs + 1
        /\ x.listener = mux[Listener].listener
    <3>1. mux[Listener] \in MuxType
      BY <1>1, IdFacts DEF Types
    <3> DEFINE y == [mux[Listener] EXCEPT !.refs = @ + 1]
    <3>2. y \in MuxType /\ y.refs = mux[Listener].refs + 1 /\ y.listener = mux[Listener].listener
      BY <3>1 DEF MuxType
    <3>3. x = [y EXCEPT !.entries = y.entries \cup {ns}]
      BY DEF Shared
    <3> HIDE DEF x, y
    <3>4. y.entries \cup {ns} \in SUBSET Sockets
      BY <2>1, <3>2 DEF MuxType
    <3> QED BY <3>2, <3>3, <3>4 DEF MuxType
  <2> HIDE DEF r, x
  <2>4. /\ sock' \in [Sockets -> SockType] /\ sock'[ns] = r
        /\ \A s \in Sockets \ {ns} : sock'[s] = sock[s]
    BY <1>1, <1>9, <2>1, <2>2, SockSet
  <2>5. /\ mux' \in [Muxes -> MuxType] /\ mux'[Listener] = x
        /\ \A m \in Muxes \ {Listener} : mux'[m] = mux[m]
    BY <1>1, <1>9, <2>3, MuxSet, IdFacts
  <2>6. /\ worker' \in [Muxes -> WorkerType]
        /\ worker'[Listener].pc = "insert" /\ worker'[Listener].msg = p
        /\ worker'[Listener].new = ns
        /\ \A c \in Clients : worker'[c] = worker[c]
    BY <1>1, <1>6, <1>9, <2>1, WorkingDoes
  <2>7. net' \subseteq Packets
    <3>1. {Response(p.from, p.isn, -1, ns)} \subseteq Packets
      BY <1>1, <1>6, <2>1, ResponseIsPacket
    <3> QED BY <1>1, <1>9, <3>1, SendType
  <2>8. Types'
    BY <1>1, <1>4, <2>4, <2>5, <2>6, <2>7 DEF Types, Packets
  <2>9. sock[ns].status = "INIT" /\ sock[ns].mux = NoSocket
    BY <1>1, <2>1 DEF Core, FirstUse
  <2>10. FirstUse'
    <3>1. ASSUME NEW s \in Sockets
          PROVE  /\ sock'[s].mux \in {NoSocket, Own(s)}
                 /\ s \in Accepted /\ sock'[s].where = "none" => sock'[s].status = "INIT"
                 /\ sock'[s].status = "INIT" => sock'[s].mux = NoSocket
      <4>1. Own(ns) = Listener
        BY <2>1 DEF Own
      <4> QED BY <1>1, <2>2, <2>4, <4>1 DEF Core, FirstUse
    <3>2. ASSUME NEW m \in Muxes PROVE sock'[m].status = "INIT" => mux'[m].refs = 0
      <4>1. m \in Sockets /\ m # ns
        BY <2>1, IdFacts DEF Muxes
      <4> QED BY <1>1, <1>6, <2>4, <2>5, <4>1 DEF Core, FirstUse, AtWork
    <3>3. sock'[Listener].status # "INIT"
      BY <1>6, <2>1, <2>4, IdFacts DEF AtWork
    <3> QED BY <3>1, <3>2, <3>3 DEF FirstUse, Own
  <2>11. Threaded'
    <3>1. ASSUME NEW c \in Clients
          PROVE  worker'[c].pc = "idle" /\ mux'[c].list \cup mux'[c].entries \subseteq {c}
      BY <1>1, <2>5, <2>6, IdFacts DEF Core, Threaded, Muxes
    <3>2. sock'[Listener].status # "INIT"
      BY <1>6, <2>1, <2>4, IdFacts DEF AtWork
    <3> QED BY <1>4, <1>6, <2>6, <3>1, <3>2 DEF Threaded, AtWork
  <2>12. \A s \in Accepted : s # ns => sock'[s] = sock[s]
    BY <2>4, IdFacts
  <2>13. Descending'
    <3>1. ASSUME NEW s \in Accepted, NEW t \in Accepted, s < t, sock'[s].where # "none"
          PROVE  sock'[t].where # "none"
      <4>1. CASE s = ns
        <5>1. ~(t <= ns) /\ t # ns
          BY <3>1, <4>1, IdFacts
        <5> QED BY <2>1, <2>12, <5>1
      <4>2. CASE s # ns
        BY <1>1, <2>2, <2>4, <2>12, <3>1, <4>2 DEF Core, Descending
      <4> QED BY <4>1, <4>2
    <3>2. ASSUME NEW s \in Accepted, NEW t \in Accepted, s < t,
                 sock'[s].where = "sockets", sock'[t].where = "sockets",
                 sock'[s].peer = sock'[t].peer, sock'[s].isn = sock'[t].isn
          PROVE  "broken" \in sock'[t].flags
      <4>1. s # ns /\ t # ns
        BY <2>2, <2>4, <3>2
      <4> QED BY <1>1, <2>12, <3>2, <4>1 DEF Core, Descending, Is
    <3> QED BY <3>1, <3>2 DEF Descending, Is
  <2>14. Cardinality(queue) < Backlog
    <3>1. Cardinality(queue) \in Nat /\ Backlog \in Nat
      BY <1>1, SmallerQueue, SocketsAssumption DEF Types
    <3> QED BY <1>9, <3>1 DEF Full
  <2>15. MakingInv'
    <3>1. ASSUME NEW s \in Accepted, sock'[s].where = "sockets",
                 sock'[s].peer = p.from, sock'[s].isn = p.isn
          PROVE  "broken" \in sock'[s].flags
      <4>1. s # ns
        BY <2>2, <2>4, <3>1
      <4> QED BY <1>1, <1>2, <1>4, <2>12, <3>1, <4>1 DEF Core, MakingInv, Answers, Is
    <3>2. ASSUME NEW s \in Accepted, sock'[s].where = "sockets" PROVE ns < s
      <4>1. s # ns
        BY <2>2, <2>4, <3>2
      <4>2. ~(s < ns)
        BY <1>1, <2>1, <2>12, <3>2, <4>1 DEF Core, Descending
      <4> QED BY <2>1, <4>1, <4>2, IdFacts
    <3> QED BY <1>4, <2>1, <2>2, <2>4, <2>6, <2>14, <3>1, <3>2 DEF MakingInv, Answers, Is
  <2>16. WaitingInv'
    <3>1. ASSUME NEW s \in queue'
          PROVE  sock'[s].where = "sockets" /\ s # app'[Accepter].sock /\ s \notin taken'
      BY <1>1, <1>4, <2>1, <2>12 DEF Core, WaitingInv, Types
    <3>2. ASSUME NEW s, Known(s) PROVE Known(s)'
      BY <2>1, <2>12, <3>2 DEF Known
    <3>3. \A s \in taken' : Known(s)'
      BY <1>1, <1>4, <3>2 DEF Core, WaitingInv, Known
    <3>4. (app[Accepter].sock # NoSocket => Known(app[Accepter].sock))'
      BY <1>1, <1>4, <3>2 DEF Core, WaitingInv, Known
    <3>5. Cardinality(queue') <= Backlog
      BY <1>1, <1>4 DEF Core, WaitingInv
    <3> HIDE DEF Known
    <3> QED BY <3>1, <3>3, <3>4, <3>5 DEF WaitingInv
  <2>17. RemovingInv'
    <3>1. ASSUME NEW h \in Hosts, gc[h].pc = "join" PROVE mux'[gc[h].join].refs = 0
      <4>1. gc[h].join \in Muxes /\ HostOf(gc[h].join) = h /\ mux[gc[h].join].refs = 0
        BY <1>1, <3>1 DEF Core, RemovingInv
      <4>2. gc[h].join # Listener
        BY <1>4, <3>1, <4>1, HostFacts DEF Free
      <4> QED BY <2>5, <4>1, <4>2
    <3>2. ASSUME NEW h \in Hosts, NEW s \in gc[h].todo PROVE sock'[s].where = "closed"
      <4>1. s \in Sockets /\ sock[s].where = "closed"
        BY <1>1, <3>2 DEF Core, RemovingInv, SocketsOf
      <4> QED BY <2>1, <2>4, <4>1
    <3> QED BY <1>1, <1>4, <3>1, <3>2 DEF Core, RemovingInv, Free
  <2>18. Counted'
    <3> DEFINE U(n) == {s \in Sockets : sock[s].mux = n /\ sock[s].where # "deleted"}
               V(n) == {s \in Sockets : sock'[s].mux = n /\ sock'[s].where # "deleted"}
    <3>1. \A n \in Muxes : mux[n].refs = Cardinality(U(n))
      BY <1>1 DEF Core, Counted
    <3>2. V(Listener) = U(Listener) \cup {ns} /\ ns \notin U(Listener)
      BY <2>1, <2>2, <2>4, <2>9, IdFacts
    <3>3. \A n \in Muxes \ {Listener} : V(n) = U(n)
      BY <2>2, <2>4, <2>9, IdFacts
    <3>4. IsFiniteSet(U(Listener))
      BY IdFacts, FS_Subset
    <3> HIDE DEF U, V
    <3>5. Cardinality(V(Listener)) = Cardinality(U(Listener)) + 1
      BY <3>2, <3>4, FS_AddElement
    <3>6. \A n \in Muxes : mux'[n].refs = Cardinality(V(n))
      BY <2>3, <2>5, <3>1, <3>3, <3>5, IdFacts
    <3> QED BY <3>6 DEF Counted, V
  <2> QED BY <1>7, <2>8, <2>10, <2>11, <2>13, <2>15, <2>16, <2>17, <2>18 DEF IInv, Core
<1> QED BY <1>5, <1>8, <1>9

LEMMA InsertConnectionStep ==
  ASSUME IInv, insertConnection
  PROVE  IInv'
<1>1. Types /\ Core
  BY DEF IInv
<1>2. PICK p, n : p = worker[Listener].msg /\ n = worker[Listener].new
  OBVIOUS
<1>3. /\ worker[Listener].pc = "insert"
      /\ sock' = [sock EXCEPT ![n].where = "sockets"]
      /\ Working("queue", p, n)
      /\ UNCHANGED <<queue, taken, event, mux, gc, count, app, hs, net, minute, expired, near>>
  BY <1>2 DEF insertConnection
<1>4. AtWork(p) /\ p \in RequestType
  BY <1>1, <1>2, <1>3 DEF Core, Threaded, AtWork
<1>5. /\ n \in Accepted /\ ~Is(n, "broken") /\ Cardinality(queue) < Backlog
      /\ sock[n].where = "private" /\ Answers(n, p)
      /\ \A s \in Accepted : sock[s].where = "sockets" => n < s
      /\ \A s \in Accepted : sock[s].where = "sockets" /\ Answers(s, p) => Is(s, "broken")
  BY <1>1, <1>2, <1>3 DEF Core, MakingInv
<1>6. n \in Sockets /\ n # NoSocket /\ n # Listener /\ n \notin Muxes
  BY <1>5, IdFacts DEF Muxes
<1>7. PICK r \in SockType :
        /\ sock' = [sock EXCEPT ![n] = r]
        /\ r.where = "sockets" /\ r.mux = sock[n].mux /\ r.status = sock[n].status
        /\ r.peer = sock[n].peer /\ r.isn = sock[n].isn /\ r.flags = sock[n].flags
  <2>1. sock[n] \in SockType
    BY <1>1, <1>6 DEF Types
  <2>2. "sockets" \in Wheres
    BY DEF Wheres
  <2>3. [sock[n] EXCEPT !.where = "sockets"] \in SockType
    BY <2>1, <2>2 DEF SockType
  <2> QED BY <1>3, <2>1, <2>3 DEF SockType
<1>8. /\ sock' \in [Sockets -> SockType] /\ sock'[n] = r
      /\ \A s \in Sockets \ {n} : sock'[s] = sock[s]
  BY <1>1, <1>6, <1>7, SockSet
<1>9. /\ worker' \in [Muxes -> WorkerType]
      /\ worker'[Listener].pc = "queue" /\ worker'[Listener].msg = p
      /\ worker'[Listener].new = n
      /\ \A c \in Clients : worker'[c] = worker[c]
  BY <1>1, <1>3, <1>4, <1>6, WorkingDoes
<1>10. Types'
  BY <1>1, <1>3, <1>8, <1>9 DEF Types
<1>11. AppInv' /\ app'[Accepter].sock = app[Accepter].sock
  BY <1>3, SameApp
<1>12. \A s \in Sockets : /\ sock'[s].mux = sock[s].mux /\ sock'[s].status = sock[s].status
                          /\ sock'[s].peer = sock[s].peer /\ sock'[s].isn = sock[s].isn
                          /\ sock'[s].flags = sock[s].flags
                          /\ sock'[s].where = IF s = n THEN "sockets" ELSE sock[s].where
  BY <1>7, <1>8
<1>13. FirstUse'
  <2>1. \A m \in Muxes : m \in Sockets
    BY IdFacts
  <2> QED BY <1>1, <1>3, <1>12, <2>1, IdFacts DEF Core, FirstUse, Own
<1>14. Threaded'
  <2>1. ASSUME NEW c \in Clients
        PROVE  worker'[c].pc = "idle" /\ mux'[c].list \cup mux'[c].entries \subseteq {c}
    BY <1>1, <1>3, <1>9 DEF Core, Threaded
  <2> QED BY <1>3, <1>4, <1>9, <1>12, <2>1, IdFacts DEF Threaded, AtWork
<1>15. Descending'
  <2>1. ASSUME NEW s \in Accepted, NEW t \in Accepted, s < t, sock'[s].where # "none"
        PROVE  sock'[t].where # "none"
    <3>1. s \in Sockets /\ t \in Sockets
      BY IdFacts
    <3>2. sock[s].where # "none"
      BY <1>5, <1>12, <2>1, <3>1
    <3>3. sock[t].where # "none"
      BY <1>1, <2>1, <3>2 DEF Core, Descending
    <3> QED BY <1>12, <3>1, <3>3
  <2>2. ASSUME NEW s \in Accepted, NEW t \in Accepted, s < t,
               sock'[s].where = "sockets", sock'[t].where = "sockets",
               sock'[s].peer = sock'[t].peer, sock'[s].isn = sock'[t].isn
        PROVE  "broken" \in sock'[t].flags
    <3>1. s \in Sockets /\ t \in Sockets /\ s \in Nat /\ t \in Nat /\ n \in Nat
      BY <1>6, IdFacts
    <3>2. CASE t = n
      <4>1. s # n /\ sock[s].where = "sockets"
        BY <1>12, <2>2, <3>1, <3>2
      <4>2. n < s
        BY <1>5, <4>1
      <4> QED BY <2>2, <3>1, <3>2, <4>2
    <3>3. CASE s = n
      <4>1. t # n /\ sock[t].where = "sockets"
        BY <1>12, <2>2, <3>1, <3>3
      <4>2. Answers(t, p)
        BY <1>5, <1>12, <2>2, <3>1, <3>3 DEF Answers
      <4>3. Is(t, "broken")
        BY <1>5, <4>1, <4>2
      <4> QED BY <1>12, <3>1, <4>3 DEF Is
    <3>4. CASE s # n /\ t # n
      <4>1. /\ sock[s].where = "sockets" /\ sock[t].where = "sockets"
            /\ sock[s].peer = sock[t].peer /\ sock[s].isn = sock[t].isn
        BY <1>12, <2>2, <3>1, <3>4
      <4>2. Is(t, "broken")
        BY <1>1, <2>2, <4>1 DEF Core, Descending
      <4> QED BY <1>12, <3>1, <4>2 DEF Is
    <3> QED BY <3>2, <3>3, <3>4
  <2> QED BY <2>1, <2>2 DEF Descending, Is
<1>16. \A s : Known(s) => s # n
  BY <1>5 DEF Known
<1>17. MakingInv'
  <2>1. n \notin queue
    BY <1>1, <1>5 DEF Core, WaitingInv
  <2>2. n \notin taken /\ n # app[Accepter].sock
    BY <1>1, <1>6, <1>16 DEF Core, WaitingInv
  <2> QED BY <1>3, <1>5, <1>6, <1>9, <1>12, <2>1, <2>2 DEF MakingInv, Is
<1>18. WaitingInv'
  <2>1. ASSUME NEW s \in queue'
        PROVE  sock'[s].where = "sockets" /\ s # app'[Accepter].sock /\ s \notin taken'
    <3>1. s \in queue /\ s \in Sockets
      BY <1>1, <1>3, IdFacts DEF Types
    <3> QED BY <1>1, <1>3, <1>12, <3>1 DEF Core, WaitingInv
  <2>2. ASSUME NEW s, Known(s) PROVE Known(s)'
    BY <1>12, <2>2, IdFacts DEF Known
  <2>3. \A s \in taken' : Known(s)'
    BY <1>1, <1>3, <2>2 DEF Core, WaitingInv, Known
  <2>4. (app[Accepter].sock # NoSocket => Known(app[Accepter].sock))'
    BY <1>1, <1>3, <2>2 DEF Core, WaitingInv, Known
  <2>5. Cardinality(queue') <= Backlog
    BY <1>1, <1>3 DEF Core, WaitingInv
  <2> HIDE DEF Known
  <2> QED BY <2>1, <2>3, <2>4, <2>5 DEF WaitingInv
<1>19. RemovingInv'
  <2>1. ASSUME NEW h \in Hosts, NEW s \in gc[h].todo PROVE sock'[s].where = "closed"
    <3>1. s \in Sockets /\ sock[s].where = "closed"
      BY <1>1, <2>1 DEF Core, RemovingInv, SocketsOf
    <3> QED BY <1>5, <1>12, <3>1
  <2> QED BY <1>1, <1>3, <2>1 DEF Core, RemovingInv, Free
<1>20. Counted'
  <2> DEFINE U(m) == {s \in Sockets : sock[s].mux = m /\ sock[s].where # "deleted"}
             V(m) == {s \in Sockets : sock'[s].mux = m /\ sock'[s].where # "deleted"}
  <2>1. \A m \in Muxes : mux[m].refs = Cardinality(U(m))
    BY <1>1 DEF Core, Counted
  <2>2. ASSUME NEW m \in Muxes PROVE V(m) = U(m)
    BY <1>5, <1>12
  <2> HIDE DEF U, V
  <2>3. \A m \in Muxes : mux'[m].refs = Cardinality(V(m))
    BY <1>3, <2>1, <2>2
  <2> QED BY <2>3 DEF Counted, V
<1> QED BY <1>10, <1>11, <1>13, <1>14, <1>15, <1>17, <1>18, <1>19, <1>20 DEF IInv, Core

LEMMA QueueConnectionStep ==
  ASSUME IInv, queueConnection
  PROVE  IInv'
<1>1. Types /\ Core
  BY DEF IInv
<1>2. PICK n : n = worker[Listener].new
  OBVIOUS
<1>3. /\ worker[Listener].pc = "queue"
      /\ queue' = queue \cup {n} /\ event' = TRUE
      /\ worker' = [worker EXCEPT ![Listener] = Idle]
      /\ UNCHANGED <<sock, taken, mux, gc, count, app, hs, net, minute, expired, near>>
  BY <1>2 DEF queueConnection
<1>4. /\ n \in Accepted /\ Cardinality(queue) < Backlog /\ sock[n].where = "sockets"
      /\ n \notin queue /\ n \notin taken /\ n # app[Accepter].sock
  BY <1>1, <1>2, <1>3 DEF Core, MakingInv
<1>5. /\ worker' \in [Muxes -> WorkerType] /\ worker'[Listener].pc = "idle"
      /\ \A m \in Muxes : worker'[m] = worker[m] \/ worker'[m].pc = "idle"
  BY <1>1, <1>3, IdleDoes
<1>6. Types'
  BY <1>1, <1>3, <1>4, <1>5 DEF Types
<1>7. AppInv'
  BY <1>3, SameApp
<1>8. KeepSockets /\ KeepMuxes /\ KeepRemoving
  BY <1>1, <1>3, SameSockets, SameMuxes, SameRest
<1>9. FirstUse' /\ Descending' /\ Counted' /\ RemovingInv'
  BY <1>1, <1>8, KeepFirstUse, KeepDescending, KeepCount, KeepRemovingInv DEF Core
<1>10. Threaded'
  BY <1>1, <1>3, <1>5, <1>8, KeepThreaded DEF Core
<1>11. MakingInv'
  BY <1>5 DEF MakingInv
<1>12. WaitingInv'
  <2>1. Cardinality(queue') <= Backlog
    <3>1. IsFiniteSet(queue) /\ Cardinality(queue) \in Nat /\ Backlog \in Nat
      BY <1>1, SmallerQueue, SocketsAssumption DEF Types
    <3>2. Cardinality(queue') = Cardinality(queue) + 1
      BY <1>3, <1>4, <3>1, FS_AddElement
    <3> QED BY <1>4, <3>1, <3>2
  <2>2. \A s : Known(s)' = Known(s)
    BY <1>3 DEF Known
  <2>3. ASSUME NEW s \in queue'
        PROVE  sock'[s].where = "sockets" /\ s # app'[Accepter].sock /\ s \notin taken'
    BY <1>1, <1>3, <1>4 DEF Core, WaitingInv
  <2>4. \A s \in taken' : Known(s)'
    BY <1>1, <1>3 DEF Core, WaitingInv, Known
  <2>5. (app[Accepter].sock # NoSocket => Known(app[Accepter].sock))'
    BY <1>1, <1>3 DEF Core, WaitingInv, Known
  <2> HIDE DEF Known
  <2> QED BY <2>1, <2>3, <2>4, <2>5 DEF WaitingInv
<1> QED BY <1>6, <1>7, <1>9, <1>10, <1>11, <1>12 DEF IInv, Core

-----------------------------------------------------------------------------
(* Steps of the collector *)

\* The collector of host h gets the state g.
LEMMA GcSet ==
  ASSUME Types, NEW h \in Hosts, NEW g \in GcType, gc' = [gc EXCEPT ![h] = g]
  PROVE  /\ gc' \in [Hosts -> GcType] /\ gc'[h] = g
         /\ \A k \in Hosts \ {h} : gc'[k] = gc[k]
  BY DEF Types

LEMMA CollectorCore ==
  ASSUME Types, Core, KeepSockets, KeepMuxes, KeepWaiting, RemovingInv', worker' = worker,
         gc'["server"].closing => gc["server"].closing
  PROVE  Core'
<1>1. FirstUse' /\ Descending' /\ Counted' /\ WaitingInv'
  BY KeepFirstUse, KeepDescending, KeepCount, KeepWaitingInv DEF Core
<1>2. Threaded' /\ MakingInv'
  BY KeepThreaded, KeepMaking DEF Core
<1> QED BY <1>1, <1>2 DEF Core

\* What the collector does in a pass: it closes some broken sockets, S, and is
\* to remove others.
CollectorPass(h, S) ==
  /\ gc[h].pc = "sleep"
  /\ sock' = [s \in Sockets |-> IF s \in S THEN InTable(sock[s]) ELSE sock[s]]
  /\ queue' = queue \ S /\ taken' = taken \ S
  /\ gc' = [gc EXCEPT ![h].pc = "remove", ![h].todo = ToBeRemoved(h)]
  /\ UNCHANGED <<event, mux, worker, count, app, hs, net, minute, expired, near>>

LEMMA CollectorPasses ==
  ASSUME NEW h \in Hosts, checkBrokenSockets(h)
  PROVE  \E S \in SUBSET ToBeClosed(h) : CollectorPass(h, S)
<1>1. PICK unread \in SUBSET (ToBeClosed(h) \ {Listener}) :
        CollectorPass(h, ToBeClosed(h) \ unread)
  BY Zenon DEF checkBrokenSockets, CollectorPass
<1> QED BY <1>1

LEMMA CheckBrokenSocketsStep ==
  ASSUME IInv, NEW h \in Hosts, checkBrokenSockets(h)
  PROVE  IInv'
<1>1. Types /\ Core
  BY DEF IInv
<1>2. PICK S \in SUBSET ToBeClosed(h), D \in {ToBeRemoved(h)} : CollectorPass(h, S)
  BY CollectorPasses
<1>3. /\ gc[h].pc = "sleep"
      /\ sock' = [s \in Sockets |-> IF s \in S THEN InTable(sock[s]) ELSE sock[s]]
      /\ queue' = queue \ S /\ taken' = taken \ S
      /\ gc' = [gc EXCEPT ![h].pc = "remove", ![h].todo = D]
      /\ UNCHANGED <<event, mux, worker, count, app, hs, net, minute, expired, near>>
  BY <1>2 DEF CollectorPass
<1>4. /\ \A s \in S : s \in Sockets /\ sock[s].where = "sockets" /\ Is(s, "broken")
      /\ D \subseteq SocketsOf(h) /\ \A s \in D : sock[s].where = "closed"
  BY <1>2 DEF ToBeClosed, ToBeRemoved, SocketsOf
<1>5. \A s \in S : /\ sock'[s] \in SockType /\ sock'[s].where = "closed"
                   /\ sock'[s].status = "CLOSED" /\ sock'[s].mux = sock[s].mux
                   /\ sock'[s].flags = sock[s].flags /\ sock'[s].peer = sock[s].peer
                   /\ sock'[s].isn = sock[s].isn
  BY <1>1, <1>3, <1>4, InTableDoes DEF Types
<1>6. \A s \in Sockets \ S : sock'[s] = sock[s]
  BY <1>3
<1>7. sock' \in [Sockets -> SockType]
  BY <1>1, <1>3, <1>5, <1>6 DEF Types
<1>8. KeepSockets
  <2>1. \A s \in S : s \in Sockets => ~Making(s) /\ s \notin queue'
    BY <1>1, <1>3, <1>4 DEF Core, MakingInv, Making
  <2>2. \A s \in S : s \in Sockets =>
          /\ sock[s].where = "sockets" /\ sock'[s].where = "closed"
          /\ sock'[s].mux = sock[s].mux /\ sock'[s].status # "INIT"
          /\ sock'[s].peer = sock[s].peer /\ sock'[s].isn = sock[s].isn
          /\ "broken" \in sock[s].flags => "broken" \in sock'[s].flags
    BY <1>4, <1>5
  <2> QED BY <1>1, <1>6, <2>1, <2>2, KeepClosed
<1>9. /\ gc' \in [Hosts -> GcType] /\ gc'[h].pc = "remove" /\ gc'[h].todo = D
      /\ gc'[h].closing = gc[h].closing
      /\ \A k \in Hosts \ {h} : gc'[k] = gc[k]
  <2> DEFINE g == [gc[h] EXCEPT !.pc = "remove", !.todo = D]
  <2>1. gc[h] \in GcType /\ D \in SUBSET Sockets
    BY <1>1, <1>4 DEF Types, SocketsOf
  <2>2. g \in GcType /\ g.pc = "remove" /\ g.todo = D /\ g.closing = gc[h].closing
    BY <2>1 DEF GcType
  <2>3. gc' = [gc EXCEPT ![h] = g]
    BY <1>1, <1>3 DEF Types
  <2> HIDE DEF g
  <2> QED BY <1>1, <2>2, <2>3, GcSet
<1>10. RemovingInv'
  <2>1. ASSUME NEW k \in Hosts, NEW s \in gc'[k].todo
        PROVE  s \in SocketsOf(k) /\ sock'[s].where = "closed"
    <3>1. s \in SocketsOf(k) /\ sock[s].where = "closed"
      BY <1>1, <1>4, <1>9, <2>1 DEF Core, RemovingInv
    <3>2. s \in Sockets /\ s \notin S
      BY <1>4, <3>1 DEF SocketsOf
    <3> QED BY <1>6, <3>1, <3>2
  <2>2. ASSUME NEW k \in Hosts PROVE Free(k)' => gc'[k].todo = {}
    BY <1>1, <1>9 DEF Core, RemovingInv, Free
  <2>3. ASSUME NEW k \in Hosts, gc'[k].pc = "join"
        PROVE  gc'[k].join \in Muxes /\ HostOf(gc'[k].join) = k /\ mux'[gc'[k].join].refs = 0
    BY <1>1, <1>3, <1>9, <2>3 DEF Core, RemovingInv
  <2> QED BY <2>1, <2>2, <2>3 DEF RemovingInv, SocketsOf
<1>11. AppInv' /\ app'[Accepter].sock = app[Accepter].sock
  BY <1>3, SameApp
<1>12. KeepWaiting /\ KeepMuxes
  BY <1>3, <1>11, SameMuxes DEF KeepWaiting
<1>13. gc'["server"].closing => gc["server"].closing
  BY <1>9, HostFacts
<1>14. Core'
  BY <1>1, <1>3, <1>8, <1>10, <1>12, <1>13, CollectorCore
<1>15. Types'
  BY <1>1, <1>3, <1>7, <1>9 DEF Types
<1> QED BY <1>11, <1>14, <1>15 DEF IInv

\* What the collector waits for and how far it is changes; nothing else does.
LEMMA CollectorStep1 ==
  ASSUME IInv, NEW h \in Hosts, NEW g \in GcType, gc' = [gc EXCEPT ![h] = g],
         g.todo = gc[h].todo, g.closing = gc[h].closing, g.pc # "join",
         g.pc \notin {"remove", "join"} => Free(h) \/ gc[h].todo = {},
         mux' \in [Muxes -> MuxType], KeepMuxes,
         UNCHANGED <<sock, queue, taken, event, worker, count, app, hs, net, minute, expired, near>>
  PROVE  IInv'
<1>1. Types /\ Core
  BY DEF IInv
<1>2. /\ gc' \in [Hosts -> GcType] /\ gc'[h] = g
      /\ \A k \in Hosts \ {h} : gc'[k] = gc[k]
  BY <1>1, GcSet
<1>3. KeepRemoving
  BY <1>2 DEF KeepRemoving, Free
<1>4. AppInv' /\ app'[Accepter].sock = app[Accepter].sock
  BY SameApp
<1>5. KeepSockets /\ KeepWaiting
  BY <1>1, <1>4, SameSockets, SameRest
<1>6. gc'["server"].closing => gc["server"].closing
  BY <1>2, HostFacts
<1>7. Core'
  BY <1>1, <1>3, <1>5, <1>6, KeepCore
<1>8. Types'
  BY <1>1, <1>2 DEF Types
<1> QED BY <1>4, <1>7, <1>8 DEF IInv

LEMMA JoinWorkerStep ==
  ASSUME IInv, NEW h \in Hosts, joinWorker(h)
  PROVE  IInv'
<1>1. Types /\ Core
  BY DEF IInv
<1>2. PICK m : m = gc[h].join
  OBVIOUS
<1>3. /\ gc[h].pc = "join" /\ mux' = [mux EXCEPT ![m] = NoMux]
      /\ gc' = [gc EXCEPT ![h].pc = "remove", ![h].join = NoSocket]
      /\ UNCHANGED <<sock, queue, taken, event, worker, count, app, hs, net, minute, expired, near>>
  BY <1>2 DEF joinWorker
<1>4. m \in Muxes /\ mux[m].refs = 0
  BY <1>1, <1>2, <1>3 DEF Core, RemovingInv
<1>5. /\ NoMux \in MuxType /\ NoMux.refs = 0 /\ NoMux.listener = NoSocket
      /\ NoMux.list \cup NoMux.entries = {}
  <2>1. /\ {} \in SUBSET (Clients \X (1..Attempts)) /\ {} \in SUBSET Sockets /\ 0 \in Int
        /\ <<>> \in Seq(ResponseType)
    OBVIOUS
  <2>2. NoMux \in MuxType
    BY <2>1, Zenon DEF NoMux, MuxType
  <2> QED BY <2>2 DEF NoMux
<1>6. /\ mux' \in [Muxes -> MuxType] /\ mux'[m] = NoMux
      /\ \A n \in Muxes \ {m} : mux'[n] = mux[n]
  BY <1>1, <1>3, <1>4, <1>5, MuxSet
<1>7. KeepMuxes
  BY <1>4, <1>5, <1>6, IdFacts DEF KeepMuxes, Muxes
<1> DEFINE g == [gc[h] EXCEPT !.pc = "remove", !.join = NoSocket]
<1>8. g \in GcType /\ g.todo = gc[h].todo /\ g.closing = gc[h].closing /\ g.pc = "remove"
  BY <1>1 DEF Types, GcType
<1>9. gc' = [gc EXCEPT ![h] = g]
  BY <1>1, <1>3 DEF Types
<1> HIDE DEF g
<1> QED BY <1>3, <1>6, <1>7, <1>8, <1>9, CollectorStep1

LEMMA EndPassStep ==
  ASSUME IInv, NEW h \in Hosts, endPass(h)
  PROVE  IInv'
<1>1. Types /\ Core
  BY DEF IInv
<1>2. /\ gc[h].todo = {} /\ gc' = [gc EXCEPT ![h].pc = "sleep"]
      /\ UNCHANGED <<sock, queue, taken, event, mux, worker, count, app, hs, net, minute,
                     expired, near>>
  BY DEF endPass
<1> DEFINE g == [gc[h] EXCEPT !.pc = "sleep"]
<1>3. g \in GcType /\ g.todo = gc[h].todo /\ g.closing = gc[h].closing /\ g.pc = "sleep"
  BY <1>1 DEF Types, GcType
<1>4. gc' = [gc EXCEPT ![h] = g]
  BY <1>2
<1> HIDE DEF g
<1>5. mux' \in [Muxes -> MuxType] /\ KeepMuxes
  BY <1>1, <1>2, SameMuxes DEF Types
<1> QED BY <1>2, <1>3, <1>4, <1>5, CollectorStep1

LEMMA EndCollectorStep ==
  ASSUME IInv, NEW h \in Hosts, endCollector(h)
  PROVE  IInv'
<1>1. Types /\ Core
  BY DEF IInv
<1>2. /\ gc[h].pc = "sleep" /\ gc' = [gc EXCEPT ![h].pc = "off", ![h].final = FALSE]
      /\ UNCHANGED <<sock, queue, taken, event, mux, worker, count, app, hs, net, minute,
                     expired, near>>
  BY DEF endCollector
<1> DEFINE g == [gc[h] EXCEPT !.pc = "off", !.final = FALSE]
<1>3. g \in GcType /\ g.todo = gc[h].todo /\ g.closing = gc[h].closing /\ g.pc = "off"
  BY <1>1 DEF Types, GcType
<1>4. gc' = [gc EXCEPT ![h] = g]
  BY <1>1, <1>2 DEF Types
<1> HIDE DEF g
<1>5. mux' \in [Muxes -> MuxType] /\ KeepMuxes
  BY <1>1, <1>2, SameMuxes DEF Types
<1>6. Free(h)
  BY <1>2 DEF Free
<1> QED BY <1>2, <1>3, <1>4, <1>5, <1>6, CollectorStep1

LEMMA CloseAllStep ==
  ASSUME IInv, NEW h \in Hosts, closeAll(h)
  PROVE  IInv'
<1>1. Types /\ Core
  BY DEF IInv
<1> DEFINE S == {s \in SocketsOf(h) : sock[s].where = "sockets"}
<1>2. S = {s \in SocketsOf(h) : sock[s].where = "sockets"}
  OBVIOUS
<1>3. /\ gc[h].pc = "sleep" /\ gc[h].closing
      /\ sock' = [s \in Sockets |->
           CASE s \in S -> [InTable(Shut(sock[s])) EXCEPT !.age = 1]
             [] s \in SocketsOf(h) /\ sock[s].where = "closed" -> [sock[s] EXCEPT !.age = 1]
             [] OTHER   -> sock[s]]
      /\ mux' = Unheard(S) /\ Send(Farewells(S))
      /\ queue' = queue \ S /\ taken' = taken \ S
      /\ gc' = [gc EXCEPT ![h].final = TRUE]
      /\ UNCHANGED <<event, worker, count, app, hs, minute, expired, near>>
  BY DEF closeAll
<1> HIDE DEF S
<1>4. S \subseteq Sockets /\ \A s \in S : HostOf(s) = h /\ sock[s].where = "sockets"
  BY <1>2 DEF SocketsOf
<1>5. ASSUME NEW s \in S
      PROVE  /\ sock'[s] \in SockType /\ sock'[s].where = "closed" /\ sock'[s].status = "CLOSED"
             /\ sock'[s].mux = sock[s].mux /\ sock'[s].peer = sock[s].peer
             /\ sock'[s].isn = sock[s].isn
             /\ "broken" \in sock'[s].flags
  <2>1. s \in Sockets /\ sock[s] \in SockType
    BY <1>1, <1>4 DEF Types
  <2>2. PICK q \in SockType : q = Shut(sock[s]) /\ Closing(sock[s], q) /\ "broken" \in q.flags
    BY <2>1, EndedDoes DEF Closing
  <2>3. PICK t \in SockType :
          /\ t = InTable(q) /\ t.where = "closed" /\ t.status = "CLOSED"
          /\ t.mux = q.mux /\ t.flags = q.flags /\ t.peer = q.peer /\ t.isn = q.isn
    BY <2>2, InTableDoes
  <2>4. sock'[s] = [t EXCEPT !.age = 1]
    <3>1. sock' = [k \in Sockets |->
             CASE k \in S -> [InTable(Shut(sock[k])) EXCEPT !.age = 1]
               [] k \in SocketsOf(h) /\ sock[k].where = "closed" -> [sock[k] EXCEPT !.age = 1]
               [] OTHER   -> sock[k]]
      BY <1>3
    <3>2. sock'[s] = [InTable(Shut(sock[s])) EXCEPT !.age = 1]
      BY <1>4, <2>1, <3>1
    <3> QED BY <2>2, <2>3, <3>2
  <2>5. 1 \in 0..2
    OBVIOUS
  <2> QED BY <2>2, <2>3, <2>4, <2>5 DEF SockType, Closing
<1>6. ASSUME NEW s \in Sockets \ S
      PROVE  /\ sock'[s] \in SockType /\ sock'[s].where = sock[s].where
             /\ sock'[s].mux = sock[s].mux /\ sock'[s].status = sock[s].status
             /\ sock'[s].peer = sock[s].peer /\ sock'[s].isn = sock[s].isn
             /\ sock'[s].flags = sock[s].flags
  <2>1. sock[s] \in SockType
    BY <1>1 DEF Types
  <2>2. sock'[s] = sock[s] \/ sock'[s] = [sock[s] EXCEPT !.age = 1]
    BY <1>3
  <2>3. 1 \in 0..2
    OBVIOUS
  <2> QED BY <2>1, <2>2, <2>3 DEF SockType
<1>7. sock' \in [Sockets -> SockType]
  <2>1. \A s \in Sockets : sock'[s] \in SockType
    BY <1>5, <1>6
  <2> QED BY <1>3, <2>1
<1>8. KeepSockets
  <2>1. \A s \in S : s \in Sockets => ~Making(s) /\ s \notin queue'
    <3>1. ASSUME NEW s \in S, Making(s) PROVE FALSE
      <4>1. s \in Accepted /\ worker[Listener].pc # "idle"
        BY <1>1, <3>1 DEF Core, MakingInv, Making
      <4>2. h = "server"
        BY <1>4, <4>1, HostFacts
      <4> QED BY <1>1, <1>3, <4>1, <4>2 DEF Core, Threaded
    <3> QED BY <1>3, <3>1
  <2>2. \A s \in S : s \in Sockets =>
          /\ sock[s].where = "sockets" /\ sock'[s].where = "closed"
          /\ sock'[s].mux = sock[s].mux /\ sock'[s].status # "INIT"
          /\ sock'[s].peer = sock[s].peer /\ sock'[s].isn = sock[s].isn
          /\ "broken" \in sock[s].flags => "broken" \in sock'[s].flags
    BY <1>4, <1>5
  <2> QED BY <1>1, <1>6, <2>1, <2>2, KeepClosed
<1>9. /\ gc' \in [Hosts -> GcType] /\ KeepRemoving
      /\ gc'["server"].closing => gc["server"].closing
  <2> DEFINE g == [gc[h] EXCEPT !.final = TRUE]
  <2>1. /\ g \in GcType /\ g.todo = gc[h].todo /\ g.closing = gc[h].closing
        /\ g.pc = gc[h].pc /\ g.join = gc[h].join
    BY <1>1 DEF Types, GcType
  <2>2. gc' = [gc EXCEPT ![h] = g]
    BY <1>3
  <2> HIDE DEF g
  <2>3. /\ gc' \in [Hosts -> GcType] /\ gc'[h] = g
        /\ \A k \in Hosts \ {h} : gc'[k] = gc[k]
    BY <1>1, <2>1, <2>2, GcSet
  <2> QED BY <2>1, <2>3, HostFacts DEF KeepRemoving, Free
<1>10. mux' \in [Muxes -> MuxType] /\ KeepMuxes
  <2>1. mux' = Unheard(S)
    BY <1>3
  <2> QED BY <1>1, <2>1, UnheardDoes, IdFacts DEF KeepMuxes, Muxes
<1>11. net' \subseteq Packets
  BY <1>1, <1>3, <1>4, FarewellsType, SendType
<1>12. AppInv' /\ app'[Accepter].sock = app[Accepter].sock
  BY <1>3, SameApp
<1>13. KeepWaiting
  BY <1>3, <1>12 DEF KeepWaiting
<1>14. Core'
  BY <1>1, <1>3, <1>8, <1>9, <1>10, <1>13, KeepCore
<1>15. Types'
  BY <1>1, <1>3, <1>7, <1>9, <1>10, <1>11 DEF Types, Packets
<1> QED BY <1>12, <1>14, <1>15 DEF IInv

LEMMA RemoveSocketStep ==
  ASSUME IInv, NEW h \in Hosts, removeSocket(h)
  PROVE  IInv'
<1>1. Types /\ Core
  BY DEF IInv
<1> DEFINE u == Lowest(gc[h].todo)
           Q == IF u = Listener THEN queue ELSE {}
           m == sock[u].mux
           x == Unheard(Q \cup {u})
<1>2. u = Lowest(gc[h].todo) /\ Q = (IF u = Listener THEN queue ELSE {}) /\ m = sock[u].mux
  OBVIOUS
<1>0. x = Unheard(Q \cup {u})
  OBVIOUS
<1>3. /\ gc[h].pc = "remove" /\ gc[h].todo # {}
      /\ sock' = [s \in Sockets |->
           CASE s = u   -> [sock[s] EXCEPT !.where = "deleted", !.flags = {}]
             [] s \in Q -> InTable(Shut(sock[s]))
             [] OTHER   -> sock[s]]
      /\ Send(Farewells(Q \cup {u}))
      /\ queue' = queue \ Q
      /\ taken' = IF u = Listener THEN {} ELSE taken
      /\ \/ /\ m = NoSocket /\ mux' = x
            /\ gc' = [gc EXCEPT ![h].todo = @ \ {u}]
         \/ /\ m # NoSocket
            /\ mux' = [x EXCEPT ![m].refs = @ - 1]
            /\ gc' = [gc EXCEPT ![h].todo = @ \ {u},
                        ![h].join = IF mux[m].refs = 1 THEN m ELSE NoSocket,
                        ![h].pc = IF mux[m].refs = 1 THEN "join" ELSE "remove"]
      /\ UNCHANGED <<event, worker, count, app, hs, minute, expired, near>>
  BY DEF removeSocket
<1> HIDE DEF u, Q, m, x
<1>4. /\ u \in gc[h].todo /\ u \in Sockets /\ HostOf(u) = h /\ sock[u].where = "closed"
      /\ sock[u] \in SockType
  <2>1. gc[h].todo \in SUBSET Sockets
    BY <1>1 DEF Types, GcType
  <2>2. u \in gc[h].todo
    BY <1>2, <1>3, <2>1, ExtremeIds
  <2> QED BY <1>1, <2>1, <2>2 DEF Core, RemovingInv, SocketsOf, Types
<1>5. Q \subseteq queue /\ Q \subseteq Accepted /\ Q \subseteq Sockets /\ u \notin Q
      /\ \A s \in Q : sock[s].where = "sockets"
  <2>1. Q \subseteq queue /\ \A s \in queue : sock[s].where = "sockets"
    BY <1>1, <1>2 DEF Core, WaitingInv
  <2> QED BY <1>1, <1>4, <2>1, IdFacts DEF Types
\* The sockets afterwards.
<1>6. /\ sock'[u] \in SockType /\ sock'[u].where = "deleted" /\ sock'[u].mux = sock[u].mux
      /\ sock'[u].status = sock[u].status
  <2>1. "deleted" \in Wheres /\ {} \in SUBSET Flags
    BY DEF Wheres
  <2>2. sock'[u] = [sock[u] EXCEPT !.where = "deleted", !.flags = {}]
    <3>1. sock' = [s \in Sockets |->
             CASE s = u   -> [sock[s] EXCEPT !.where = "deleted", !.flags = {}]
               [] s \in Q -> InTable(Shut(sock[s]))
               [] OTHER   -> sock[s]]
      BY <1>3
    <3> QED BY <1>4, <1>5, <3>1
  <2> QED BY <1>4, <2>1, <2>2 DEF SockType
<1>7. ASSUME NEW s \in Q
      PROVE  /\ sock'[s] \in SockType /\ sock'[s].where = "closed" /\ sock'[s].mux = sock[s].mux
             /\ sock'[s].status = "CLOSED"
  <2>1. s \in Sockets /\ sock[s] \in SockType /\ s # u
    BY <1>1, <1>5 DEF Types
  <2>2. PICK q \in SockType : q = Shut(sock[s]) /\ Closing(sock[s], q)
    BY <2>1, EndedDoes DEF Closing
  <2>3. sock'[s] = InTable(q)
    BY <1>3, <2>1, <2>2
  <2> QED BY <2>2, <2>3, InTableDoes DEF Closing
<1>8. \A s \in Sockets : s # u /\ s \notin Q => sock'[s] = sock[s]
  BY <1>3
<1>9. sock' \in [Sockets -> SockType]
  <2>1. \A s \in Sockets : sock'[s] \in SockType
    BY <1>1, <1>6, <1>7, <1>8 DEF Types
  <2> QED BY <1>3, <2>1
<1>10. \A s \in Sockets :
         /\ sock'[s].mux = sock[s].mux
         /\ sock'[s].status = "INIT" => sock[s].status = "INIT"
         /\ sock'[s].where = "none" <=> sock[s].where = "none"
         /\ sock'[s].where = "deleted" <=> s = u \/ sock[s].where = "deleted"
         /\ sock'[s].where = "sockets" => sock'[s] = sock[s]
         /\ sock'[s].where = "none" => sock'[s] = sock[s]
         /\ sock[s].where = "closed" /\ s # u => sock'[s].where = "closed"
         /\ sock[s].where = "private" => sock'[s] = sock[s]
         /\ sock'[s].where = "private" => sock[s].where = "private"
  BY <1>4, <1>5, <1>6, <1>7, <1>8
\* The multiplexers afterwards.
<1>11. /\ x \in [Muxes -> MuxType]
       /\ \A n \in Muxes : /\ x[n].refs = mux[n].refs
                           /\ x[n].entries = mux[n].entries /\ x[n].list = mux[n].list
                           /\ x[n].listener \in {NoSocket, mux[n].listener}
  BY <1>0, <1>1, UnheardDoes
<1>12. m = NoSocket \/ (m = Own(u) /\ m \in Muxes /\ HostOf(m) = h)
  <2>1. m = NoSocket \/ m = Own(u)
    BY <1>1, <1>2, <1>4 DEF Core, FirstUse
  <2>2. u \in Sockets /\ Own(u) \in Muxes
    BY <1>4, HostFacts
  <2>3. HostOf(Own(u)) = HostOf(u)
    BY <2>2, IdFacts DEF Own, HostOf
  <2> QED BY <1>4, <2>1, <2>2, <2>3
<1>13. /\ mux' \in [Muxes -> MuxType]
       /\ \A n \in Muxes : /\ mux'[n].refs = IF n = m THEN mux[n].refs - 1 ELSE mux[n].refs
                           /\ mux'[n].entries = mux[n].entries /\ mux'[n].list = mux[n].list
                           /\ mux'[n].listener \in {NoSocket, mux[n].listener}
  <2>1. CASE m = NoSocket
    BY <1>3, <1>11, <2>1, IdFacts
  <2>2. CASE m # NoSocket
    <3>1. m \in Muxes /\ x[m] \in MuxType
      BY <1>11, <1>12, <2>2
    <3> DEFINE y == [x[m] EXCEPT !.refs = @ - 1]
    <3>2. /\ y \in MuxType /\ y.refs = x[m].refs - 1 /\ y.entries = x[m].entries
          /\ y.list = x[m].list /\ y.listener = x[m].listener
      BY <3>1 DEF MuxType
    <3>3. mux' = [x EXCEPT ![m] = y]
      BY <1>3, <2>2
    <3> HIDE DEF y
    <3> QED BY <1>11, <3>1, <3>2, <3>3
  <2> QED BY <2>1, <2>2
\* Who uses the multiplexers.
<1> DEFINE U(n) == {s \in Sockets : sock[s].mux = n /\ sock[s].where # "deleted"}
           V(n) == {s \in Sockets : sock'[s].mux = n /\ sock'[s].where # "deleted"}
<1>14. \A n \in Muxes : mux[n].refs = Cardinality(U(n))
  BY <1>1 DEF Core, Counted
<1>15. \A n \in Muxes : V(n) = IF n = m THEN U(n) \ {u} ELSE U(n)
  <2>1. ASSUME NEW n \in Muxes, NEW s \in Sockets
        PROVE  s \in V(n) <=> s \in U(n) /\ (n = m => s # u)
    BY <1>2, <1>4, <1>10
  <2> QED BY <2>1
<1>16. m \in Muxes => u \in U(m)
  BY <1>2, <1>4
<1>17. \A n \in Muxes : IsFiniteSet(U(n))
  BY IdFacts, FS_Subset
<1> HIDE DEF U, V
<1>18. m \in Muxes => /\ Cardinality(U(m)) \in Nat /\ Cardinality(U(m)) # 0
                      /\ Cardinality(V(m)) = Cardinality(U(m)) - 1
  BY <1>15, <1>16, <1>17, FS_RemoveElement, FS_CardinalityType, FS_EmptySet
<1>19. Counted'
  <2>1. ASSUME NEW n \in Muxes PROVE mux'[n].refs = Cardinality(V(n))
    BY <1>13, <1>14, <1>15, <1>18
  <2> QED BY <2>1 DEF Counted, V
\* The collector afterwards.
<1>20. PICK g \in GcType :
         /\ gc' = [gc EXCEPT ![h] = g]
         /\ g.todo = gc[h].todo \ {u} /\ g.closing = gc[h].closing
         /\ g.pc \in {"remove", "join"}
         /\ g.pc = "join" => g.join = m /\ m \in Muxes /\ mux[m].refs = 1
  <2>1. gc[h] \in GcType /\ gc[h].todo \ {u} \in SUBSET Sockets /\ gc \in [Hosts -> GcType]
    BY <1>1 DEF Types, GcType
  <2>2. CASE m = NoSocket
    <3> DEFINE g == [gc[h] EXCEPT !.todo = gc[h].todo \ {u}]
    <3>1. g \in GcType /\ g.todo = gc[h].todo \ {u} /\ g.closing = gc[h].closing
          /\ g.pc = "remove"
      BY <1>3, <2>1 DEF GcType
    <3>2. gc' = [gc EXCEPT ![h] = g]
      BY <1>3, <2>2
    <3> HIDE DEF g
    <3> QED BY <3>1, <3>2
  <2>3. CASE m # NoSocket
    <3>1. PICK j \in Muxes \cup {NoSocket}, c \in {"remove", "join"} :
            /\ j = IF mux[m].refs = 1 THEN m ELSE NoSocket
            /\ c = IF mux[m].refs = 1 THEN "join" ELSE "remove"
      BY <1>12, <2>3
    <3> DEFINE D == gc[h].todo \ {u}
               g == [gc[h] EXCEPT !.todo = D, !.join = j, !.pc = c]
    <3>2. g \in GcType /\ g.todo = D /\ g.closing = gc[h].closing /\ g.pc = c /\ g.join = j
      <4>1. D \in SUBSET Sockets
        BY <2>1
      <4> HIDE DEF D
      <4> QED BY <2>1, <3>1, <4>1 DEF GcType
    <3>3. gc' = [gc EXCEPT ![h].todo = D, ![h].join = j, ![h].pc = c]
      BY <1>3, <2>3, <3>1
    <3>4. gc' = [gc EXCEPT ![h] = g]
      BY <2>1, <3>3
    <3> HIDE DEF g
    <3> QED BY <1>12, <2>3, <3>1, <3>2, <3>4
  <2> QED BY <2>2, <2>3
<1>21. /\ gc' \in [Hosts -> GcType] /\ gc'[h] = g
       /\ \A k \in Hosts \ {h} : gc'[k] = gc[k]
  BY <1>1, <1>20, GcSet
<1>22. RemovingInv'
  <2>1. ASSUME NEW k \in Hosts, NEW s \in gc'[k].todo
        PROVE  s \in SocketsOf(k) /\ sock'[s].where = "closed"
    <3>1. s \in gc[k].todo /\ (k = h => s # u)
      BY <1>20, <1>21, <2>1
    <3>2. s \in SocketsOf(k) /\ s \in Sockets /\ HostOf(s) = k /\ sock[s].where = "closed"
      BY <1>1, <3>1 DEF Core, RemovingInv, SocketsOf
    <3>3. s # u
      BY <1>4, <3>1, <3>2
    <3> QED BY <1>10, <3>2, <3>3
  <2>2. ASSUME NEW k \in Hosts PROVE Free(k)' => gc'[k].todo = {}
    BY <1>1, <1>20, <1>21 DEF Core, RemovingInv, Free
  <2>3. ASSUME NEW k \in Hosts, gc'[k].pc = "join"
        PROVE  gc'[k].join \in Muxes /\ HostOf(gc'[k].join) = k /\ mux'[gc'[k].join].refs = 0
    <3>1. CASE k = h
      <4>1. gc'[k].join = m /\ m \in Muxes /\ mux[m].refs = 1 /\ HostOf(m) = h
        BY <1>12, <1>20, <1>21, <2>3, <3>1, IdFacts
      <4> QED BY <1>13, <3>1, <4>1
    <3>2. CASE k # h
      <4>1. /\ gc'[k] = gc[k] /\ gc[k].join \in Muxes /\ HostOf(gc[k].join) = k
            /\ mux[gc[k].join].refs = 0
        BY <1>1, <1>21, <2>3, <3>2 DEF Core, RemovingInv
      <4>2. gc[k].join # m
        BY <1>12, <3>2, <4>1, IdFacts
      <4> QED BY <1>13, <4>1, <4>2
    <3> QED BY <3>1, <3>2
  <2> QED BY <2>1, <2>2, <2>3 DEF RemovingInv, SocketsOf
<1>23. FirstUse'
  <2>1. ASSUME NEW s \in Sockets
        PROVE  /\ sock'[s].mux \in {NoSocket, Own(s)}
               /\ s \in Accepted /\ sock'[s].where = "none" => sock'[s].status = "INIT"
               /\ sock'[s].status = "INIT" => sock'[s].mux = NoSocket
    BY <1>1, <1>10 DEF Core, FirstUse
  <2>2. ASSUME NEW n \in Muxes, sock'[n].status = "INIT" PROVE mux'[n].refs = 0
    <3>1. n \in Sockets /\ sock[n].status = "INIT" /\ mux[n].refs = 0
      BY <1>1, <1>10, <2>2, IdFacts DEF Core, FirstUse
    <3>2. n # m
      BY <1>14, <1>18, <3>1
    <3> QED BY <1>13, <3>1, <3>2
  <2>3. mux'[Listener].listener # NoSocket => sock'[Listener].status # "INIT"
    BY <1>1, <1>10, <1>13, IdFacts DEF Core, FirstUse
  <2> QED BY <2>1, <2>2, <2>3 DEF FirstUse, Own
<1>24. Threaded'
  <2>1. ASSUME NEW c \in Clients
        PROVE  worker'[c].pc = "idle" /\ mux'[c].list \cup mux'[c].entries \subseteq {c}
    BY <1>1, <1>3, <1>13 DEF Core, Threaded, Muxes
  <2>2. sock'[Listener].status = "INIT" => sock[Listener].status = "INIT"
    BY <1>10, IdFacts
  <2>3. gc'["server"].closing = gc["server"].closing
    BY <1>20, <1>21, HostFacts
  <2> QED BY <1>1, <1>3, <2>1, <2>2, <2>3 DEF Core, Threaded
<1>25. Descending'
  <2>1. \A s \in Accepted : s \in Sockets
    BY IdFacts
  <2>2. ASSUME NEW s \in Accepted, NEW t \in Accepted, s < t, sock'[s].where # "none"
        PROVE  sock'[t].where # "none"
    BY <1>1, <1>10, <2>1, <2>2 DEF Core, Descending
  <2>3. ASSUME NEW s \in Accepted, NEW t \in Accepted, s < t,
               sock'[s].where = "sockets", sock'[t].where = "sockets",
               sock'[s].peer = sock'[t].peer, sock'[s].isn = sock'[t].isn
        PROVE  "broken" \in sock'[t].flags
    <3>1. sock'[s] = sock[s] /\ sock'[t] = sock[t]
      BY <1>10, <2>1, <2>3
    <3> QED BY <1>1, <2>3, <3>1 DEF Core, Descending, Is
  <2> QED BY <2>2, <2>3 DEF Descending, Is
<1>26. Cardinality(queue') <= Cardinality(queue)
       /\ Cardinality(queue) \in Nat /\ Cardinality(queue') \in Nat /\ Backlog \in Nat
  BY <1>1, <1>3, SmallerQueue, SocketsAssumption DEF Types
<1>27. AppInv' /\ app'[Accepter].sock = app[Accepter].sock
  BY <1>3, SameApp
<1>28. MakingInv'
  <2>1. PICK w : w = worker[Listener] /\ worker'[Listener] = w
    BY <1>3
  <2>2. \A s \in Accepted : sock'[s].where = "sockets" => sock'[s] = sock[s]
    BY <1>10, IdFacts
  <2>3. w.pc \in {"create", "insert"} =>
          \A s \in Accepted : /\ sock'[s].where = "sockets"
                              /\ sock'[s].peer = w.msg.from /\ sock'[s].isn = w.msg.isn
                              => "broken" \in sock'[s].flags
    BY <1>1, <2>1, <2>2 DEF Core, MakingInv, Answers, Is
  <2>4. w.pc \in {"insert", "queue"} => w.new \in Accepted /\ sock'[w.new] = sock[w.new]
    <3> SUFFICES ASSUME w.pc \in {"insert", "queue"}
                 PROVE  w.new \in Accepted /\ sock'[w.new] = sock[w.new]
      OBVIOUS
    <3>1. w.new \in Accepted /\ w.new \in Sockets /\ sock[w.new].where \in {"private", "sockets"}
      BY <1>1, <2>1, IdFacts DEF Core, MakingInv
    <3>2. w.new # u
      BY <1>4, <3>1
    <3>3. w.new \notin Q
      BY <1>1, <1>5, <2>1 DEF Core, MakingInv
    <3> QED BY <1>8, <3>1, <3>2, <3>3
  <2>5. w.pc \in {"insert", "queue"} => Cardinality(queue') < Backlog
    BY <1>1, <1>26, <2>1 DEF Core, MakingInv
  <2>6. w.pc = "insert" => \A s \in Accepted : sock'[s].where = "sockets" => w.new < s
    BY <1>1, <2>1, <2>2 DEF Core, MakingInv
  <2>7. w.pc = "queue" => w.new \notin queue' \cup taken' \cup {app'[Accepter].sock}
    BY <1>1, <1>3, <1>27, <2>1 DEF Core, MakingInv
  <2> QED BY <1>1, <2>1, <2>3, <2>4, <2>5, <2>6, <2>7 DEF Core, MakingInv, Answers, Is
<1>29. WaitingInv'
  <2>1. Cardinality(queue') <= Backlog
    BY <1>1, <1>26 DEF Core, WaitingInv
  <2>2. ASSUME NEW s \in queue'
        PROVE  sock'[s].where = "sockets" /\ s # app'[Accepter].sock /\ s \notin taken'
    <3>1. s \in queue /\ s \notin Q /\ s \in Sockets
      BY <1>1, <1>3, <2>2, IdFacts DEF Types
    <3>2. sock[s].where = "sockets" /\ s # app[Accepter].sock /\ s \notin taken
      BY <1>1, <3>1 DEF Core, WaitingInv
    <3>3. sock'[s] = sock[s]
      BY <1>4, <1>8, <3>1, <3>2
    <3> QED BY <1>3, <1>27, <3>2, <3>3
  <2>3. ASSUME NEW s, Known(s) PROVE Known(s)'
    BY <1>10, <2>3, IdFacts DEF Known
  <2>4. \A s \in taken' : Known(s)'
    BY <1>1, <1>3, <2>3 DEF Core, WaitingInv, Known
  <2>5. (app[Accepter].sock # NoSocket => Known(app[Accepter].sock))'
    BY <1>1, <1>3, <2>3 DEF Core, WaitingInv, Known
  <2> HIDE DEF Known
  <2> QED BY <2>1, <2>2, <2>4, <2>5 DEF WaitingInv
<1>30. Types'
  <2>1. net' \subseteq Packets
    <3>1. Q \cup {u} \subseteq Sockets
      BY <1>4, <1>5
    <3> QED BY <1>1, <1>3, <3>1, FarewellsType, SendType
  <2>2. queue' \subseteq Accepted /\ taken' \subseteq Accepted
    BY <1>1, <1>3 DEF Types
  <2> QED BY <1>1, <1>3, <1>9, <1>13, <1>21, <2>1, <2>2 DEF Types, Packets
<1> QED BY <1>19, <1>22, <1>23, <1>24, <1>25, <1>27, <1>28, <1>29, <1>30 DEF IInv, Core

-----------------------------------------------------------------------------
(* The theorems *)

LEMMA Initially ==
  ASSUME Init
  PROVE  IInv
<1>1. /\ sock = [s \in Sockets |-> NewSock]
      /\ queue = {} /\ taken = {} /\ event = FALSE
      /\ mux = [m \in Muxes |-> NoMux]
      /\ worker = [m \in Muxes |-> Idle]
      /\ gc = [h \in Hosts |-> [pc |-> "off", todo |-> {}, join |-> NoSocket,
                                closing |-> FALSE, final |-> FALSE]]
      /\ count = [h \in Hosts |-> 0]
      /\ app = [t \in Threads |-> [pc |-> "out", sock |-> NoSocket, result |-> "none"]]
      /\ hs = [c \in Clients |-> [isn |-> 0, type |-> 0, cookie |-> 0,
                                  res |-> [type |-> 0, isn |-> 0]]]
      /\ net = {} /\ minute = 0 /\ expired = {} /\ near \subseteq Hosts
  BY DEF Init
<1>2. 0 \in 0..Attempts /\ 0 \in 0..Minutes /\ 0 \in 0..2
  BY SocketsAssumption
<1>3. /\ NewSock \in SockType /\ NewSock.where = "none" /\ NewSock.status = "INIT"
      /\ NewSock.mux = NoSocket
  BY <1>2 DEF NewSock, SockType, Wheres, Statuses
<1>4. /\ NoMux \in MuxType /\ NoMux.refs = 0 /\ NoMux.listener = NoSocket
      /\ NoMux.list = {} /\ NoMux.entries = {}
  <2>1. /\ {} \in SUBSET (Clients \X (1..Attempts)) /\ {} \in SUBSET Sockets /\ 0 \in Int
        /\ <<>> \in Seq(ResponseType)
    OBVIOUS
  <2>2. NoMux \in MuxType
    BY <2>1, Zenon DEF NoMux, MuxType
  <2> QED BY <2>2 DEF NoMux
<1>5. Idle \in WorkerType /\ Idle.pc = "idle"
  BY DEF Idle, WorkerType
<1>6. ASSUME NEW h \in Hosts
      PROVE  gc[h] \in GcType /\ gc[h].todo = {} /\ gc[h].pc = "off" /\ ~gc[h].closing
  BY <1>1 DEF GcType
<1>7. ASSUME NEW t \in Threads
      PROVE  app[t] \in AppType /\ app[t].pc = "out" /\ app[t].sock = NoSocket
  BY <1>1 DEF AppType, AppPcs
<1>8. ASSUME NEW c \in Clients PROVE hs[c] \in HsType
  BY <1>1, <1>2 DEF HsType, ResType
<1>9. Types
  <2>1. gc \in [Hosts -> GcType] /\ app \in [Threads -> AppType] /\ hs \in [Clients -> HsType]
    BY <1>1, <1>6, <1>7, <1>8
  <2>2. event \in BOOLEAN
    BY <1>1
  <2>3. sock \in [Sockets -> SockType] /\ mux \in [Muxes -> MuxType]
        /\ worker \in [Muxes -> WorkerType] /\ count \in [Hosts -> Int]
    BY <1>1, <1>3, <1>4, <1>5
  <2> QED BY <1>1, <1>2, <2>1, <2>2, <2>3 DEF Types
<1>10. AppInv
  BY <1>7, IdFacts DEF AppInv
<1>11. \A s \in Sockets : sock[s].where = "none" /\ sock[s].status = "INIT" /\ sock[s].mux = NoSocket
  BY <1>1, <1>3
<1>12. \A m \in Muxes : /\ mux[m].refs = 0 /\ mux[m].listener = NoSocket /\ mux[m].list = {}
                        /\ mux[m].entries = {} /\ worker[m].pc = "idle"
  BY <1>1, <1>4, <1>5
<1>13. FirstUse /\ Threaded /\ Descending /\ MakingInv
  BY <1>11, <1>12, IdFacts DEF FirstUse, Threaded, Descending, MakingInv, Muxes
<1>14. WaitingInv
  BY <1>1, <1>7, IdFacts, FS_EmptySet, SocketsAssumption DEF WaitingInv
<1>15. RemovingInv
  BY <1>6 DEF RemovingInv
<1>16. Counted
  <2>1. ASSUME NEW m \in Muxes
        PROVE  {s \in Sockets : sock[s].mux = m /\ sock[s].where # "deleted"} = {}
    BY <1>11, IdFacts
  <2> QED BY <1>12, <2>1, FS_EmptySet DEF Counted
<1> QED BY <1>9, <1>10, <1>13, <1>14, <1>15, <1>16 DEF IInv, Core

LEMMA Unchanged ==
  ASSUME IInv, UNCHANGED vars
  PROVE  IInv'
<1>1. /\ Types'
      /\ UNCHANGED <<sock, queue, taken, event, mux, worker, gc, count, app, near>>
  BY DEF vars, IInv, Types
<1> QED BY <1>1, QuietStep

\* A connection that was asked for too late stays so.
LEMMA LateStays ==
  ASSUME late \in BOOLEAN, [Next]_vars
  PROVE  late' \in BOOLEAN /\ (late => late')
<1>1. ASSUME NEW t \in Threads, cleanup(t)
      PROVE  late' \in BOOLEAN /\ (late => late')
  BY <1>1, Zenon DEF cleanup
<1>2. ASSUME listenRequest
      PROVE  late' \in BOOLEAN /\ (late => late')
  <2>1. late' = late \/ late' = (late \/ ~Punctual)
    BY <1>2 DEF listenRequest
  <2> QED BY <2>1
<1>3. CASE AppStep
  BY <1>1, <1>3 DEF AppStep, startup, Left, newSocket, close, closed, bind, listen, accept,
     acceptLook, acceptWoken, connect, connectTimeout, connectResponse
<1>4. CASE WorkerStep
  BY <1>2, <1>4 DEF WorkerStep, locateRequest, createConnection, insertConnection,
     queueConnection, takeEntries, dropEnded, hearShutdown, storePkt, Resend, GiveUp
<1>5. CASE CollectorStep
  <2>1. ASSUME NEW h \in Hosts, checkBrokenSockets(h)
        PROVE  late' = late
    BY <2>1, Zenon DEF checkBrokenSockets
  <2>2. ASSUME NEW h \in Hosts, removeSocket(h) \/ closeAll(h)
        PROVE  late' = late
    BY <2>2, Zenon DEF removeSocket, closeAll
  <2>3. ASSUME NEW h \in Hosts, joinWorker(h) \/ endPass(h) \/ endCollector(h)
        PROVE  late' = late
    BY <2>3 DEF joinWorker, endPass, endCollector
  <2> QED BY <1>5, <2>1, <2>2, <2>3 DEF CollectorStep
<1>6. CASE Clock \/ closeListener \/ Faults \/ Over \/ UNCHANGED vars
  BY <1>6 DEF Clock, ThreeSeconds, Older, closeListener, Faults, NewMinute, expire, Over, vars
<1> QED BY <1>3, <1>4, <1>5, <1>6 DEF Next

LEMMA Inductive ==
  ASSUME IInv, ~late', [Next]_vars
  PROVE  IInv'
<1>1. CASE AppStep
  BY <1>1, StartupStep, CleanupStep, LeftStep, NewSocketStep, CloseStep, ClosedStep, BindStep,
     ListenStep, AcceptStep, AcceptLookStep, AcceptWokenStep, ConnectStep, ConnectTimeoutStep,
     ConnectResponseStep DEF AppStep
<1>2. CASE WorkerStep
  BY <1>2, ListenRequestStep, LocateRequestStep, CreateConnectionStep, InsertConnectionStep,
     QueueConnectionStep, TakeEntriesStep, DropEndedStep, HearShutdownStep, StorePktStep,
     ResendStep, GiveUpStep DEF WorkerStep
<1>3. CASE CollectorStep
  BY <1>3, CheckBrokenSocketsStep, RemoveSocketStep, JoinWorkerStep, EndPassStep, CloseAllStep,
     EndCollectorStep DEF CollectorStep
<1>4. CASE Clock
  BY <1>4, ThreeSecondsStep, OlderStep DEF Clock
<1>5. CASE closeListener
  BY <1>5, CloseListenerStep
<1>6. CASE Faults
  BY <1>6, NewMinuteStep, ExpireStep DEF Faults
<1>7. CASE Over \/ UNCHANGED vars
  BY <1>7, Unchanged DEF Over
<1> QED BY <1>1, <1>2, <1>3, <1>4, <1>5, <1>6, <1>7 DEF Next

(* A multiplexer counts exactly the sockets that use it, so that its       *)
(* queues and threads outlive the last of them (CUDTUnited::updateMux and  *)
(* removeSocket), until a connection is asked for too late.                *)
THEOREM UsersAreCounted == Spec => []EveryUserCounted
<1> DEFINE J == late \in BOOLEAN /\ (late \/ IInv)
<1>1. Init => J
  BY Initially DEF Init
<1>2. J /\ [Next]_vars => J'
  BY Inductive, LateStays
<1>3. J => EveryUserCounted
  BY DEF IInv, Core, EveryUserCounted
<1> HIDE DEF J
<1> QED BY <1>1, <1>2, <1>3, PTL DEF Spec

(* However often a request is repeated, it makes one living connection     *)
(* (CUDTUnited::newConnection), at most m_uiBackLog of them wait, each     *)
(* once and in the table, and the variables hold values of their kind,     *)
(* until a connection is asked for too late.                               *)
THEOREM BacklogIsAlwaysSound == Spec => [](late \/ BacklogIsSound)
<1> DEFINE J == late \in BOOLEAN /\ (late \/ IInv)
<1>1. Init => J
  BY Initially DEF Init
<1>2. J /\ [Next]_vars => J'
  BY Inductive, LateStays
<1>3. J => late \/ BacklogIsSound
  <2> SUFFICES ASSUME late \in BOOLEAN, IInv PROVE BacklogIsSound
    OBVIOUS
  <2>1. TypeOK
    BY DEF IInv, Types, TypeOK, SockType, Wheres, Statuses
  <2>2. OneForEachRequest
    <3> SUFFICES ASSUME NEW s \in Accepted, NEW t \in Accepted,
                        s # t, sock[s].peer = sock[t].peer, sock[s].isn = sock[t].isn,
                        sock[s].where = "sockets", sock[t].where = "sockets"
                 PROVE  Is(s, "broken") \/ Is(t, "broken")
      BY DEF OneForEachRequest
    <3>1. s < t \/ t < s
      BY IdFacts
    <3> QED BY <3>1 DEF IInv, Core, Descending
  <2>3. QueueIsSound
    BY DEF IInv, Core, WaitingInv, QueueIsSound
  <2> QED BY <2>1, <2>2, <2>3 DEF BacklogIsSound
<1> HIDE DEF J
<1> QED BY <1>1, <1>2, <1>3, PTL DEF Spec
-----------------------------------------------------------------------------
(***************************************************************************)
(* Deleted sockets.  Nobody who could touch a socket later may hold it     *)
(* when its object is deleted.  A receiver thread holds those it lists,    *)
(* which are marked for it; a client's thread the one it connects with;    *)
(* the listener's receiver thread the listener.                            *)
(***************************************************************************)
\* A socket as a receiver thread may list it.
Listable(r) == "onList" \in r.flags /\ r.where \in {"private", "sockets", "closed"}

\* It is listed once, and by the thread of its own multiplexer.
ListedInv ==
  /\ \A m \in Muxes :
       /\ \A s \in mux[m].list \cup mux[m].entries : Listable(sock[s])
       /\ mux[m].list \cap mux[m].entries = {}
  /\ mux[Listener].list \cup mux[Listener].entries \subseteq Accepted

\* What the collector has decided to remove is on no list.
TodoInv ==
  \A h \in Hosts : \A s \in gc[h].todo :
    ~Is(s, "onList") /\ (s = Listener => worker[Listener].pc = "idle")

\* The listener is closed for a second, or deleted: no request is served for it.
AtRest(r) == r.where = "deleted" \/ (r.where = "closed" /\ r.age >= 1)

RestInv ==
  /\ AtRest(sock[Listener]) => worker[Listener].pc = "idle"
  /\ \A m \in Muxes : mux[m].listener = Listener => sock[Listener].where # "deleted"

\* A client with its socket r, where its receiver thread lists the sockets L: while
\* connect goes on the socket is in the table, and not yet listed.
Trying(c, pc, r, L) ==
  /\ pc = "connecting" =>
       r.where = "sockets" /\ "connected" \notin r.flags /\ "broken" \notin r.flags
  /\ pc \in {"socket", "failed"} /\ "broken" \in r.flags => "connected" \in r.flags
  /\ pc \in {"socket", "connecting", "failed", "connected"} /\ c \in L
       => "connected" \in r.flags
  /\ r.where = "none" => r.flags = {}

TryInv ==
  \A c \in Clients : Trying(c, app[c].pc, sock[c], mux[c].list \cup mux[c].entries)

\* The clients between startup and cleanup, who are counted.
Inside == {c \in Clients : app[c].pc \notin {"out", "leaving", "over"}}

InsideInv ==
  /\ count["client"] = Cardinality(Inside)
  /\ gc["client"].closing => Inside = {}

DInv == ListedInv /\ TodoInv /\ RestInv /\ TryInv /\ InsideInv

Listed(s) == \E m \in Muxes : s \in mux[m].list \cup mux[m].entries

\* Steps that list no socket that was not listed, ...
KeepListed ==
  /\ \A s \in Sockets : Listed(s) /\ Listable(sock[s]) => Listable(sock'[s])
  /\ \A m \in Muxes : mux'[m].list \subseteq mux[m].list /\ mux'[m].entries \subseteq mux[m].entries

\* ... begin to remove none and serve none that is closed, ...
KeepTodo ==
  /\ \A h \in Hosts : gc'[h].todo \subseteq gc[h].todo
  /\ \A s \in Sockets : sock[s].where = "closed" /\ ~Is(s, "onList")
                          => "onList" \notin sock'[s].flags
  /\ worker'[Listener].pc # "idle" =>
       worker[Listener].pc # "idle" \/ sock[Listener].where = "sockets"

KeepRest ==
  /\ AtRest(sock'[Listener]) => AtRest(sock[Listener]) \/ worker'[Listener].pc = "idle"
  /\ worker'[Listener].pc # "idle" =>
       worker[Listener].pc # "idle" \/ sock[Listener].where = "sockets"
  /\ \A m \in Muxes : mux'[m].listener = Listener =>
       mux[m].listener = Listener /\ (sock'[Listener].where = "deleted"
                                        => sock[Listener].where = "deleted")

\* ... and let the clients be.
KeepInside ==
  /\ Inside' = Inside /\ count'["client"] = count["client"]
  /\ gc'["client"].closing => gc["client"].closing

LEMMA KeepListedInv ==
  ASSUME Types, ListedInv, KeepListed
  PROVE  ListedInv'
<1>1. \A m \in Muxes : \A s \in mux[m].list \cup mux[m].entries : s \in Sockets
  BY DEF Types, MuxType
<1>2. ASSUME NEW m \in Muxes
      PROVE  /\ \A s \in mux'[m].list \cup mux'[m].entries : Listable(sock'[s])
             /\ mux'[m].list \cap mux'[m].entries = {}
  <2> HIDE DEF Listable
  <2> QED BY <1>1 DEF ListedInv, KeepListed, Listed
<1>3. mux'[Listener].list \cup mux'[Listener].entries \subseteq Accepted
  BY IdFacts DEF ListedInv, KeepListed
<1> QED BY <1>2, <1>3 DEF ListedInv, Listable

LEMMA KeepTodoInv ==
  ASSUME RemovingInv, TodoInv, KeepTodo
  PROVE  TodoInv'
<1>1. ASSUME NEW h \in Hosts, NEW s \in gc'[h].todo
      PROVE  "onList" \notin sock'[s].flags /\ (s = Listener => worker'[Listener].pc = "idle")
  <2>1. s \in gc[h].todo /\ s \in Sockets /\ sock[s].where = "closed"
    BY <1>1 DEF RemovingInv, KeepTodo, SocketsOf
  <2>2. ~Is(s, "onList") /\ (s = Listener => worker[Listener].pc = "idle")
    BY <2>1 DEF TodoInv
  <2> QED BY <2>1, <2>2 DEF KeepTodo
<1> QED BY <1>1 DEF TodoInv, Is

LEMMA KeepRestInv ==
  ASSUME RestInv, KeepRest
  PROVE  RestInv'
<1>1. ASSUME AtRest(sock'[Listener]) PROVE worker'[Listener].pc = "idle"
  BY <1>1 DEF RestInv, KeepRest, AtRest
<1>2. \A m \in Muxes : mux'[m].listener = Listener => sock'[Listener].where # "deleted"
  BY DEF RestInv, KeepRest
<1> QED BY <1>1, <1>2 DEF RestInv, AtRest

LEMMA KeepInsideInv ==
  ASSUME InsideInv, KeepInside
  PROVE  InsideInv'
<1>1. (gc'["client"].closing) => Inside' = {}
  BY Zenon DEF InsideInv, KeepInside
<1>2. count'["client"] = Cardinality(Inside')
  BY DEF InsideInv, KeepInside
<1> QED BY <1>1, <1>2 DEF InsideInv

LEMMA KeepDeleted ==
  ASSUME IInv, DInv, KeepListed, KeepTodo, KeepRest, KeepInside, TryInv'
  PROVE  DInv'
  BY KeepListedInv, KeepTodoInv, KeepRestInv, KeepInsideInv DEF IInv, Core, DInv

\* What a client may have done is none the worse for being on fewer lists.
LEMMA FewerLists ==
  ASSUME NEW c, NEW pc, NEW r, NEW L, NEW M, M \subseteq L, Trying(c, pc, r, L)
  PROVE  Trying(c, pc, r, M)
  BY DEF Trying

\* A step that concerns no client.
LEMMA ServerStep ==
  ASSUME IInv, DInv, KeepListed, KeepTodo, KeepRest, UNCHANGED count,
         gc'["client"].closing => gc["client"].closing,
         \A c \in Clients : app'[c].pc = app[c].pc /\ sock'[c] = sock[c]
  PROVE  DInv'
<1>1. KeepInside
  <2>1. Inside' = Inside
    BY DEF Inside
  <2> QED BY <2>1 DEF KeepInside
<1>2. ASSUME NEW c \in Clients
      PROVE  Trying(c, app'[c].pc, sock'[c], mux'[c].list \cup mux'[c].entries)
  <2>1. mux'[c].list \cup mux'[c].entries \subseteq mux[c].list \cup mux[c].entries
    BY DEF KeepListed, Muxes
  <2>2. Trying(c, app'[c].pc, sock'[c], mux[c].list \cup mux[c].entries)
    BY DEF DInv, TryInv
  <2> QED BY <2>1, <2>2, FewerLists
<1>3. TryInv'
  BY <1>2 DEF TryInv
<1> QED BY <1>1, <1>3, KeepDeleted

\* Steps that leave sockets, multiplexers, receiver threads and collectors alone.
LEMMA CalmStep ==
  ASSUME IInv, DInv, UNCHANGED <<sock, mux, worker, gc, count>>,
         \A c \in Clients : app'[c].pc = app[c].pc
  PROVE  DInv'
<1>1. KeepListed /\ KeepTodo /\ KeepRest
  BY DEF KeepListed, KeepTodo, KeepRest, Is, IInv, Core, Threaded
<1> QED BY <1>1, ServerStep

LEMMA CalmGoto ==
  ASSUME Types, NEW t \in Threads, t \notin Clients, NEW p, Goto(t, p)
  PROVE  \A c \in Clients : app'[c].pc = app[c].pc
  BY DEF Types, Goto, Threads

LEMMA CalmSteps ==
  ASSUME IInv, DInv,
         \/ accept \/ acceptLook \/ acceptWoken \/ NewMinute
         \/ (\E c \in Clients : Resend(c) \/ ThreeSeconds(c)) \/ UNCHANGED vars
  PROVE  DInv'
<1>1. UNCHANGED <<sock, mux, worker, gc, count>>
  BY DEF accept, acceptLook, acceptWoken, NewMinute, Resend, ThreeSeconds, vars
<1>2. \A c \in Clients : app'[c].pc = app[c].pc
  <2>1. Types /\ Accepter \in Threads /\ Accepter \notin Clients
    BY IdFacts DEF IInv
  <2>2. CASE accept
    BY <2>1, <2>2, CalmGoto DEF accept
  <2>3. CASE acceptLook
    <3>1. CASE \E u : app' = [app EXCEPT ![Accepter].pc = "serving", ![Accepter].sock = u]
      BY <2>1, <3>1 DEF Types, Threads
    <3>2. CASE \E p : Goto(Accepter, p)
      BY <2>1, <3>2, CalmGoto
    <3> QED BY <2>3, <3>1, <3>2 DEF acceptLook
  <2>4. CASE acceptWoken
    BY <2>1, <2>4, CalmGoto DEF acceptWoken
  <2>5. CASE app' = app
    BY <2>5
  <2> QED BY <2>2, <2>3, <2>4, <2>5 DEF NewMinute, Resend, ThreeSeconds, vars
<1> QED BY <1>1, <1>2, CalmStep

\* A client leaves UDT, or enters it.
LEMMA OutsideStep ==
  ASSUME IInv, DInv, UNCHANGED <<sock, mux, worker>>,
         \A h \in Hosts : gc'[h].todo = gc[h].todo,
         NEW t \in Threads, app' \in [Threads -> AppType],
         app'[t].pc \in {"ready", "leaving", "over"},
         \A u \in Threads \ {t} : app'[u] = app[u],
         InsideInv'
  PROVE  DInv'
<1>1. KeepListed /\ KeepTodo /\ KeepRest
  BY DEF KeepListed, KeepTodo, KeepRest, Is, IInv, Core, Threaded
<1>2. ListedInv' /\ TodoInv' /\ RestInv'
  BY <1>1, KeepListedInv, KeepTodoInv, KeepRestInv DEF IInv, Core, DInv
<1>3. ASSUME NEW c \in Clients
      PROVE  Trying(c, app'[c].pc, sock'[c], mux'[c].list \cup mux'[c].entries)
  <2>1. Trying(c, app[c].pc, sock[c], mux[c].list \cup mux[c].entries)
    BY DEF DInv, TryInv
  <2>2. CASE c = t
    <3>1. sock'[c].where = "none" => sock'[c].flags = {}
      BY <2>1 DEF Trying
    <3> QED BY <2>2, <3>1 DEF Trying
  <2>3. CASE c # t
    BY <2>1, <2>3, IdFacts
  <2> QED BY <2>2, <2>3
<1>4. TryInv'
  BY <1>3 DEF TryInv
<1> QED BY <1>2, <1>4 DEF DInv

\* Who is counted.
LEMMA InsideFacts ==
  /\ Inside \subseteq Clients /\ IsFiniteSet(Inside) /\ Cardinality(Inside) \in Nat
  /\ Cardinality(Inside) = 0 <=> Inside = {}
<1>1. Inside \subseteq Clients /\ IsFiniteSet(Clients)
  BY SocketsAssumption DEF Inside
<1>2. IsFiniteSet(Inside)
  BY <1>1, FS_Subset
<1> QED BY <1>1, <1>2, FS_CardinalityType, FS_EmptySet

LEMMA StartupDeleted ==
  ASSUME IInv, IInv', DInv, NEW t \in Threads, startup(t)
  PROVE  DInv'
<1> DEFINE h == ThreadHost(t)
<1>1. h \in Hosts /\ t # Accepter /\ app[t].pc = "out" /\ ~gc[h].closing
  BY HostFacts DEF startup
<1>2. /\ count' = [count EXCEPT ![h] = @ + 1] /\ Goto(t, "ready")
      /\ gc' = [gc EXCEPT ![h].pc = IF @ = "off" THEN "sleep" ELSE @]
      /\ UNCHANGED <<sock, mux, worker>>
  BY DEF startup
<1>3. t \in Clients => h = "client"
  BY HostFacts
<1>4. t \notin Clients => h = "server"
  BY DEF ThreadHost
<1> HIDE DEF h
<1>5. /\ app' \in [Threads -> AppType] /\ app'[t].pc = "ready"
      /\ \A u \in Threads \ {t} : app'[u] = app[u]
  BY <1>2, GotoDoes DEF AppPcs, IInv
<1>6. \A k \in Hosts : gc'[k].todo = gc[k].todo /\ gc'[k].closing = gc[k].closing
  <2>1. gc[h] \in GcType /\ gc \in [Hosts -> GcType]
    BY <1>1 DEF IInv, Types
  <2> QED BY <1>1, <1>2, <2>1 DEF GcType
<1>7. InsideInv'
  <2>1. CASE t \in Clients
    <3>1. Inside' = Inside \cup {t} /\ t \notin Inside
      BY <1>1, <1>5, <2>1, IdFacts DEF Inside
    <3>2. Cardinality(Inside') = Cardinality(Inside) + 1
      BY <3>1, InsideFacts, FS_AddElement
    <3>3. count'["client"] = count["client"] + 1
      BY <1>1, <1>2, <1>3, <2>1 DEF IInv, Types
    <3>4. count'["client"] = Cardinality(Inside')
      BY <3>2, <3>3 DEF DInv, InsideInv
    <3>5. ~gc["client"].closing
      BY <1>1, <1>3, <2>1
    <3>6. ~gc'["client"].closing
      <4>1. "client" \in Hosts
        BY HostFacts
      <4> QED BY <1>6, <3>5, <4>1
    <3> QED BY <3>4, <3>6 DEF InsideInv
  <2>2. CASE t \notin Clients
    <3>1. Inside' = Inside
      BY <1>5, <2>2, IdFacts DEF Inside
    <3>2. count'["client"] = count["client"]
      BY <1>1, <1>2, <1>4, <2>2, HostFacts DEF IInv, Types
    <3>3. gc'["client"].closing = gc["client"].closing
      BY <1>6, HostFacts
    <3>4. KeepInside
      BY <3>1, <3>2, <3>3 DEF KeepInside
    <3> QED BY <3>4, KeepInsideInv DEF DInv
  <2> QED BY <2>1, <2>2
<1> QED BY <1>2, <1>5, <1>6, <1>7, OutsideStep

LEMMA CleanupDeleted ==
  ASSUME IInv, IInv', DInv, NEW t \in Threads, cleanup(t)
  PROVE  DInv'
<1> DEFINE h == ThreadHost(t)
<1>1. h \in Hosts /\ app[t].pc = "closed"
  BY HostFacts DEF cleanup
<1>2. PICK b \in BOOLEAN, p \in {"leaving", "over"} :
        /\ gc' = [gc EXCEPT ![h].closing = b]
        /\ b <=> count[h] = 1
        /\ Goto(t, p)
        /\ count' = [count EXCEPT ![h] = @ - 1]
        /\ UNCHANGED <<sock, mux, worker>>
  <2>1. PICK b \in BOOLEAN : b <=> count[h] = 1
    OBVIOUS
  <2>2. /\ gc' = [gc EXCEPT ![h].closing = b]
        /\ Goto(t, IF b THEN "leaving" ELSE "over")
        /\ count' = [count EXCEPT ![h] = @ - 1]
        /\ UNCHANGED <<sock, mux, worker>>
    BY <2>1, Zenon DEF cleanup
  <2> HIDE DEF h
  <2> QED BY <2>1, <2>2, Zenon
<1>3. t \in Clients => h = "client"
  BY HostFacts
<1>4. t \notin Clients => h = "server"
  BY DEF ThreadHost
<1> HIDE DEF h
<1>5. /\ app' \in [Threads -> AppType] /\ app'[t].pc \in {"leaving", "over"}
      /\ \A u \in Threads \ {t} : app'[u] = app[u]
  BY <1>2, GotoDoes DEF AppPcs, IInv
<1>6. \A k \in Hosts : gc'[k].todo = gc[k].todo
  <2>1. gc[h] \in GcType /\ gc \in [Hosts -> GcType]
    BY <1>1 DEF IInv, Types
  <2> QED BY <1>1, <1>2, <2>1 DEF GcType
<1>7. InsideInv'
  <2>1. CASE t \in Clients
    <3>1. Inside' = Inside \ {t} /\ t \in Inside
      BY <1>1, <1>5, <2>1, IdFacts DEF Inside
    <3>2. Cardinality(Inside') = Cardinality(Inside) - 1
      BY <3>1, InsideFacts, FS_RemoveElement
    <3>3. count'["client"] = count["client"] - 1
      BY <1>1, <1>2, <1>3, <2>1 DEF IInv, Types
    <3>4. count'["client"] = Cardinality(Inside')
      BY <3>2, <3>3 DEF DInv, InsideInv
    <3>5. gc["client"] \in GcType /\ gc \in [Hosts -> GcType] /\ "client" \in Hosts
      BY HostFacts DEF IInv, Types
    <3>6. gc'["client"].closing = b
      <4>1. [gc["client"] EXCEPT !.closing = b].closing = b
        BY <3>5, Zenon DEF GcType
      <4>2. gc' = [gc EXCEPT !["client"].closing = b]
        BY <1>2, <1>3, <2>1
      <4> QED BY <3>5, <4>2 DEF GcType
    <3>7. b => Inside' = {}
      <4>1. ASSUME b PROVE Inside' = {}
        <5>1. count["client"] = 1
          BY <1>2, <1>3, <2>1, <4>1
        <5>2. Cardinality(Inside) = 1
          BY <5>1 DEF DInv, InsideInv
        <5>3. Cardinality(Inside \ {t}) = 0 /\ IsFiniteSet(Inside \ {t})
          BY <3>1, <5>2, InsideFacts, FS_RemoveElement
        <5>4. Inside \ {t} = {}
          BY <5>3, FS_EmptySet
        <5> QED BY <3>1, <5>4
      <4> QED BY <4>1
    <3>8. gc'["client"].closing => Inside' = {}
      BY <3>6, <3>7, Zenon
    <3> QED BY <3>4, <3>8, Zenon DEF InsideInv
  <2>2. CASE t \notin Clients
    <3>1. Inside' = Inside
      BY <1>5, <2>2, IdFacts DEF Inside
    <3>2. count'["client"] = count["client"] /\ gc'["client"] = gc["client"]
      BY <1>1, <1>2, <1>4, <2>2, HostFacts DEF IInv, Types
    <3>3. KeepInside
      BY <3>1, <3>2 DEF KeepInside
    <3> QED BY <3>3, KeepInsideInv DEF DInv
  <2> QED BY <2>1, <2>2
<1> QED BY <1>2, <1>5, <1>6, <1>7, OutsideStep

LEMMA LeftDeleted ==
  ASSUME IInv, IInv', DInv, NEW t \in Threads, Left(t)
  PROVE  DInv'
<1> DEFINE h == ThreadHost(t)
<1>1. h \in Hosts /\ app[t].pc = "leaving"
  BY HostFacts DEF Left
<1>2. /\ gc' = [gc EXCEPT ![h].closing = FALSE] /\ Goto(t, "over")
      /\ UNCHANGED <<sock, mux, worker, count>>
  BY DEF Left
<1> HIDE DEF h
<1>3. /\ app' \in [Threads -> AppType] /\ app'[t].pc = "over"
      /\ \A u \in Threads \ {t} : app'[u] = app[u]
  BY <1>2, GotoDoes DEF AppPcs, IInv
<1>4. gc[h] \in GcType /\ gc \in [Hosts -> GcType]
  BY <1>1 DEF IInv, Types
<1>5. \A k \in Hosts : gc'[k].todo = gc[k].todo
  BY <1>1, <1>2, <1>4 DEF GcType
<1>6. gc'["client"].closing => gc["client"].closing
  <2>1. CASE h = "client"
    <3>1. ~gc'["client"].closing
      BY <1>1, <1>2, <1>4, <2>1 DEF GcType
    <3> QED BY <3>1
  <2>2. CASE h # "client"
    BY <1>2, <1>4, <2>2, HostFacts
  <2> QED BY <2>1, <2>2
<1>7. Inside' = Inside
  BY <1>1, <1>3, IdFacts DEF Inside
<1>8. KeepInside
  BY <1>2, <1>6, <1>7 DEF KeepInside
<1>9. InsideInv'
  BY <1>8, KeepInsideInv DEF DInv
<1> QED BY <1>2, <1>3, <1>5, <1>9, OutsideStep

Outside == {"out", "leaving", "over"}

\* A step of a client's thread, or on its socket.
LEMMA ClientMoves ==
  ASSUME IInv, DInv, NEW c \in Clients, UNCHANGED <<worker, gc, count>>,
         \A s \in Sockets \ {c} : sock'[s] = sock[s],
         Listed(c) /\ Listable(sock[c]) => Listable(sock'[c]),
         sock[c].where = "closed" /\ "onList" \notin sock[c].flags => "onList" \notin sock'[c].flags,
         \A m \in Muxes : /\ mux'[m].list \subseteq mux[m].list
                          /\ mux'[m].entries \subseteq mux[m].entries
                          /\ mux'[m].listener \in {NoSocket, mux[m].listener},
         app'[c].pc \in Outside <=> app[c].pc \in Outside,
         \A d \in Clients \ {c} : app'[d].pc = app[d].pc,
         Trying(c, app'[c].pc, sock'[c], mux'[c].list \cup mux'[c].entries)
  PROVE  DInv'
<1>1. Listener # c /\ Listener \in Sockets /\ Listener # NoSocket
  BY IdFacts
<1>2. KeepListed
  <2> HIDE DEF Listable
  <2> QED BY DEF KeepListed
<1>3. KeepTodo
  <2>1. ASSUME NEW s \in Sockets, sock[s].where = "closed", ~Is(s, "onList")
        PROVE  "onList" \notin sock'[s].flags
    BY <2>1 DEF Is
  <2>2. \A h \in Hosts : gc'[h].todo \subseteq gc[h].todo
    OBVIOUS
  <2>3. worker'[Listener].pc # "idle" => worker[Listener].pc # "idle"
    OBVIOUS
  <2> QED BY <2>1, <2>2, <2>3 DEF KeepTodo
<1>4. KeepRest
  <2>1. sock'[Listener] = sock[Listener]
    BY <1>1
  <2> QED BY <1>1, <2>1 DEF KeepRest
<1>5. KeepInside
  <2>1. Inside' = Inside
    BY DEF Inside, Outside
  <2> QED BY <2>1 DEF KeepInside
<1>6. ASSUME NEW d \in Clients
      PROVE  Trying(d, app'[d].pc, sock'[d], mux'[d].list \cup mux'[d].entries)
  <2>1. CASE d = c
    BY <2>1
  <2>2. CASE d # c
    <3>1. app'[d].pc = app[d].pc /\ sock'[d] = sock[d]
      BY <2>2, IdFacts
    <3>2. mux'[d].list \cup mux'[d].entries \subseteq mux[d].list \cup mux[d].entries
      BY DEF Muxes
    <3>3. Trying(d, app[d].pc, sock[d], mux[d].list \cup mux[d].entries)
      BY DEF DInv, TryInv
    <3>4. Trying(d, app[d].pc, sock[d], mux'[d].list \cup mux'[d].entries)
      BY <3>2, <3>3, FewerLists
    <3> QED BY <3>1, <3>4
  <2> QED BY <2>1, <2>2
<1>7. TryInv'
  BY <1>6 DEF TryInv
<1> QED BY <1>2, <1>3, <1>4, <1>5, <1>7, KeepDeleted

\* What is known of a client and its socket.
LEMMA ClientKnown ==
  ASSUME IInv, DInv, NEW c \in Clients
  PROVE  /\ Trying(c, app[c].pc, sock[c], mux[c].list \cup mux[c].entries)
         /\ \A m \in Muxes : c \in mux[m].list \cup mux[m].entries => Listable(sock[c])
         /\ sock[c] \in SockType /\ app[c] \in AppType /\ mux[c] \in MuxType
         /\ c \in Muxes /\ c \in Sockets /\ c \in Threads
<1>1. Types /\ Core
  BY DEF IInv
<1>2. sock[c] \in SockType /\ mux[c] \in MuxType /\ c \in Muxes /\ c \in Sockets /\ c \in Threads
  BY <1>1, ClientHas
<1>3. app[c] \in AppType
  BY <1>1, <1>2 DEF Types
<1>4. Trying(c, app[c].pc, sock[c], mux[c].list \cup mux[c].entries)
  BY DEF DInv, TryInv
<1>5. \A m \in Muxes : c \in mux[m].list \cup mux[m].entries => Listable(sock[c])
  BY DEF DInv, ListedInv
<1> QED BY <1>2, <1>3, <1>4, <1>5

\* One socket changes.
LEMMA SockOne ==
  ASSUME Types, NEW s \in Sockets, NEW r, sock' = [sock EXCEPT ![s] = r]
  PROVE  sock'[s] = r /\ \A t \in Sockets \ {s} : sock'[t] = sock[t]
  BY DEF Types

LEMMA SameMuxLists ==
  ASSUME mux' = mux
  PROVE  \A m \in Muxes : /\ mux'[m].list \subseteq mux[m].list
                          /\ mux'[m].entries \subseteq mux[m].entries
                          /\ mux'[m].listener \in {NoSocket, mux[m].listener}
  OBVIOUS

LEMMA NewSocketDeleted ==
  ASSUME IInv, IInv', DInv, NEW t \in Threads, newSocket(t)
  PROVE  DInv'
<1>1. PICK s : s = IF t = Main THEN Listener ELSE t
  OBVIOUS
<1>2. /\ t # Accepter /\ app[t].pc = "ready" /\ sock[s].where = "none"
      /\ sock' = [sock EXCEPT ![s].where = "sockets"]
      /\ Goto(t, "socket") /\ UNCHANGED <<mux, worker, gc, count>>
  BY <1>1 DEF newSocket
<1>3. t = Main \/ t \in Clients
  BY <1>2 DEF Threads, Accepter, Main
<1>4. s \in Sockets
  BY <1>1, <1>3, IdFacts
<1>5. /\ sock'[s].where = "sockets" /\ sock'[s].flags = sock[s].flags
      /\ sock'[s].age = sock[s].age
      /\ \A u \in Sockets \ {s} : sock'[u] = sock[u]
  <2>1. sock[s] \in SockType /\ sock \in [Sockets -> SockType]
    BY <1>4 DEF IInv, Types
  <2> QED BY <1>2, <1>4, <2>1 DEF SockType
<1>6. /\ app'[t].pc = "socket" /\ \A u \in Threads \ {t} : app'[u] = app[u]
  BY <1>2, GotoDoes DEF AppPcs, IInv
<1>7. ~Listable(sock[s])
  BY <1>2 DEF Listable
<1>8. CASE t \in Clients
  <2>1. s = t /\ t \in Clients
    BY <1>1, <1>8, IdFacts
  <2>2. Trying(t, app[t].pc, sock[t], mux[t].list \cup mux[t].entries) /\ t \in Muxes
    BY <2>1, ClientKnown
  <2>3. t \notin mux[t].list \cup mux[t].entries
    BY <1>7, <2>1, <2>2, ClientKnown
  <2>4. sock[t].flags = {}
    BY <1>2, <2>1, <2>2 DEF Trying
  <2>5. Trying(t, app'[t].pc, sock'[t], mux'[t].list \cup mux'[t].entries)
    BY <1>2, <1>5, <1>6, <2>1, <2>3, <2>4 DEF Trying
  <2>6. app'[t].pc \notin Outside /\ app[t].pc \notin Outside
    BY <1>2, <1>6 DEF Outside
  <2>7. \A d \in Clients \ {t} : app'[d].pc = app[d].pc
    BY <1>6, IdFacts
  <2>8. sock[t].where # "closed"
    BY <1>2, <2>1
  <2> HIDE DEF Listable, Trying
  <2> QED BY <1>2, <1>5, <1>7, <2>1, <2>5, <2>6, <2>7, <2>8, SameMuxLists, ClientMoves
<1>9. CASE t \notin Clients
  <2>1. s = Listener /\ t = Main
    BY <1>1, <1>3, <1>9
  <2>2. KeepListed /\ KeepTodo /\ KeepRest
    <3>1. ~AtRest(sock'[Listener])
      BY <1>5, <2>1 DEF AtRest
    <3>2. \A u \in Sockets : Listable(sock[u]) => Listable(sock'[u])
      BY <1>5, <1>7
    <3>3. \A u \in Sockets : sock'[u].flags = sock[u].flags
      BY <1>5
    <3>4. sock'[Listener].where # "deleted"
      BY <1>5, <2>1
    <3> QED BY <1>2, <3>1, <3>2, <3>3, <3>4 DEF KeepListed, KeepTodo, KeepRest, Is
  <2>3. \A c \in Clients : app'[c].pc = app[c].pc /\ sock'[c] = sock[c]
    BY <1>5, <1>6, <2>1, IdFacts
  <2> QED BY <1>2, <2>2, <2>3, ServerStep
<1> QED BY <1>8, <1>9

LEMMA BindDeleted ==
  ASSUME IInv, IInv', DInv, bind
  PROVE  DInv'
<1>1. /\ sock[Listener].where = "sockets"
      /\ sock' = [sock EXCEPT ![Listener].status = "OPENED", ![Listener].mux = Listener,
                              ![Listener].flags = {"opened"}]
      /\ mux' = OwnMux(Listener) /\ UNCHANGED <<worker, gc, count, app>>
      /\ sock[Listener].status = "INIT"
  BY DEF bind, Located
<1>2. /\ sock'[Listener].where = "sockets" /\ sock'[Listener].flags = {"opened"}
      /\ \A u \in Sockets \ {Listener} : sock'[u] = sock[u]
  <2>1. sock[Listener] \in SockType /\ sock \in [Sockets -> SockType] /\ Listener \in Sockets
    BY IdFacts DEF IInv, Types
  <2> QED BY <1>1, <2>1 DEF SockType
<1>3. \A m \in Muxes : Listener \notin mux[m].list \cup mux[m].entries
  BY IdFacts DEF IInv, Core, Threaded, DInv, ListedInv, Muxes
<1>4. PICK x \in MuxType : /\ mux' = [mux EXCEPT ![Listener] = x]
                           /\ x.listener = NoSocket /\ x.list \cup x.entries = {}
  BY <1>1, OwnMuxDoes, IdFacts DEF IInv
<1>5. mux'[Listener] = x /\ \A n \in Muxes \ {Listener} : mux'[n] = mux[n]
  BY <1>4, MuxSet, IdFacts DEF IInv
<1>6. ListedInv'
  <2>1. ASSUME NEW m \in Muxes
        PROVE  /\ \A s \in mux'[m].list \cup mux'[m].entries : Listable(sock'[s])
               /\ mux'[m].list \cap mux'[m].entries = {}
    <3>1. CASE m = Listener
      BY <1>4, <1>5, <3>1
    <3>2. CASE m # Listener
      <4>1. mux'[m] = mux[m] /\ mux[m].list \cup mux[m].entries \subseteq Sockets
        BY <1>5, <3>2 DEF IInv, Types, MuxType
      <4>2. \A s \in mux[m].list \cup mux[m].entries : sock'[s] = sock[s]
        BY <1>2, <1>3, <4>1
      <4> HIDE DEF Listable
      <4> QED BY <4>1, <4>2 DEF DInv, ListedInv
    <3> QED BY <3>1, <3>2
  <2>2. mux'[Listener].list \cup mux'[Listener].entries \subseteq Accepted
    BY <1>4, <1>5
  <2> QED BY <2>1, <2>2 DEF ListedInv, Listable
<1>7. KeepTodo /\ KeepRest
  <2>1. ~AtRest(sock'[Listener])
    BY <1>2 DEF AtRest
  <2>2. \A m \in Muxes : mux'[m].listener \in {NoSocket, mux[m].listener}
    BY <1>4, <1>5
  <2>3. \A u \in Sockets : "onList" \notin sock[u].flags => "onList" \notin sock'[u].flags
    BY <1>2
  <2> QED BY <1>1, <1>2, <2>1, <2>2, <2>3, IdFacts DEF KeepTodo, KeepRest, Is
<1>8. TodoInv' /\ RestInv'
  BY <1>7, KeepTodoInv, KeepRestInv DEF IInv, Core, DInv
<1>9. TryInv'
  <2>1. ASSUME NEW c \in Clients
        PROVE  Trying(c, app'[c].pc, sock'[c], mux'[c].list \cup mux'[c].entries)
    <3>1. app'[c] = app[c] /\ sock'[c] = sock[c] /\ mux'[c] = mux[c]
      BY <1>1, <1>2, <1>5, IdFacts DEF Muxes
    <3> QED BY <3>1, ClientKnown
  <2> QED BY <2>1 DEF TryInv
<1>10. InsideInv'
  BY <1>1 DEF DInv, InsideInv, Inside
<1> QED BY <1>6, <1>8, <1>9, <1>10 DEF DInv

LEMMA ListenDeleted ==
  ASSUME IInv, IInv', DInv, listen
  PROVE  DInv'
<1>1. /\ sock[Listener].where = "sockets"
      /\ mux' = [mux EXCEPT ![Listener].listener = Listener]
      /\ sock' = [sock EXCEPT ![Listener].status = "LISTENING",
                              ![Listener].flags = @ \cup {"listening"}]
      /\ app' = [app EXCEPT ![Main].pc = "listening", ![Accepter].pc = "ready"]
      /\ UNCHANGED <<worker, gc, count>>
  BY DEF listen, Located
<1>2. /\ sock'[Listener].where = "sockets" /\ sock'[Listener].age = sock[Listener].age
      /\ "onList" \in sock'[Listener].flags <=> "onList" \in sock[Listener].flags
      /\ \A u \in Sockets \ {Listener} : sock'[u] = sock[u]
  <2>1. sock[Listener] \in SockType /\ sock \in [Sockets -> SockType] /\ Listener \in Sockets
    BY IdFacts DEF IInv, Types
  <2> QED BY <1>1, <2>1 DEF SockType
<1>3. \A m \in Muxes : mux'[m].list = mux[m].list /\ mux'[m].entries = mux[m].entries
  BY <1>1, IdFacts DEF IInv, Types, MuxType
<1>4. \A c \in Clients : app'[c].pc = app[c].pc /\ sock'[c] = sock[c]
  BY <1>1, <1>2, IdFacts DEF IInv, Types
<1>5. KeepListed /\ KeepTodo
  <2>1. \A u \in Sockets : /\ Listable(sock[u]) => Listable(sock'[u])
                           /\ "onList" \notin sock[u].flags => "onList" \notin sock'[u].flags
    BY <1>1, <1>2 DEF Listable
  <2> HIDE DEF Listable
  <2> QED BY <1>1, <1>3, <2>1 DEF KeepListed, KeepTodo, Is
<1>6. ListedInv' /\ TodoInv'
  BY <1>5, KeepListedInv, KeepTodoInv DEF IInv, Core, DInv
<1>7. RestInv'
  <2>1. ~AtRest(sock'[Listener])
    BY <1>2 DEF AtRest
  <2>2. sock'[Listener].where # "deleted"
    BY <1>2
  <2> QED BY <2>1, <2>2 DEF RestInv, AtRest
<1>8. TryInv'
  <2>1. ASSUME NEW c \in Clients
        PROVE  Trying(c, app'[c].pc, sock'[c], mux'[c].list \cup mux'[c].entries)
    <3>1. c \in Muxes
      BY DEF Muxes
    <3> QED BY <1>3, <1>4, <3>1, ClientKnown
  <2> QED BY <2>1 DEF TryInv
<1>9. InsideInv'
  BY <1>1, <1>4 DEF DInv, InsideInv, Inside
<1> QED BY <1>6, <1>7, <1>8, <1>9 DEF DInv

\* A client's socket is listed by the client's own thread only.
LEMMA ClientsOwn ==
  ASSUME IInv, DInv, NEW c \in Clients, NEW m \in Muxes, c \in mux[m].list \cup mux[m].entries
  PROVE  m = c
<1>1. CASE m = Listener
  BY <1>1, IdFacts DEF DInv, ListedInv
<1>2. CASE m # Listener
  BY <1>2 DEF IInv, Core, Threaded, Muxes
<1> QED BY <1>1, <1>2

\* connect fails, and leaves the socket open.
LEMMA FailMoves ==
  ASSUME IInv, IInv', DInv, NEW c \in Clients, UNCHANGED <<worker, gc, count>>,
         app[c].pc \in {"socket", "failed", "connecting"},
         NEW r \in SockType, r.where = sock[c].where, r.age = sock[c].age,
         \/ "onList" \in r.flags <=> Is(c, "onList")
         \/ sock[c].where # "closed" /\ "onList" \in r.flags,
         Trying(c, "failed", r, mux'[c].list \cup mux'[c].entries),
         NEW why, Fail(c, r, why),
         \A m \in Muxes : /\ mux'[m].list \subseteq mux[m].list
                          /\ mux'[m].entries \subseteq mux[m].entries
                          /\ mux'[m].listener \in {NoSocket, mux[m].listener}
  PROVE  DInv'
<1> DEFINE q == [r EXCEPT !.status = "OPENED"]
<1>1. q.where = r.where /\ q.flags = r.flags
  BY DEF SockType
<1>2. sock' = [sock EXCEPT ![c] = q]
  BY DEF Fail
<1> HIDE DEF q
<1>3. c \in Sockets /\ c \in Threads /\ Types
  BY ClientKnown DEF IInv
<1>4. sock'[c] = q /\ \A s \in Sockets \ {c} : sock'[s] = sock[s]
  BY <1>2, <1>3, SockOne
<1>5. app'[c].pc = "failed" /\ \A d \in Clients \ {c} : app'[d].pc = app[d].pc
  BY <1>3, IdFacts DEF Fail, Types, AppType
<1>6. Trying(c, app'[c].pc, sock'[c], mux'[c].list \cup mux'[c].entries)
  BY <1>1, <1>4, <1>5 DEF Trying
<1>7. app'[c].pc \in Outside <=> app[c].pc \in Outside
  BY <1>5 DEF Outside
<1>8. /\ Listable(sock[c]) => Listable(sock'[c])
      /\ sock[c].where = "closed" /\ "onList" \notin sock[c].flags => "onList" \notin sock'[c].flags
  BY <1>1, <1>4 DEF Listable, Is
<1> HIDE DEF Listable, Trying
<1> QED BY <1>4, <1>5, <1>6, <1>7, <1>8, ClientMoves

LEMMA ConnectDeleted ==
  ASSUME IInv, IInv', DInv, NEW c \in Clients, connect(c)
  PROVE  DInv'
<1>1. /\ Trying(c, app[c].pc, sock[c], mux[c].list \cup mux[c].entries)
      /\ sock[c] \in SockType /\ app[c] \in AppType /\ mux[c] \in MuxType
      /\ c \in Muxes /\ c \in Sockets /\ c \in Threads
  BY ClientKnown
<1>2. /\ app[c].pc \in {"socket", "failed"} /\ sock[c].where = "sockets"
      /\ UNCHANGED <<worker, gc, count>>
  BY DEF connect, Located
<1>3. Types /\ Types'
  BY DEF IInv
<1> DEFINE fresh == sock[c].status = "INIT"
           opened == IF fresh THEN [sock[c] EXCEPT !.flags = {"opened"}, !.mux = c]
                     ELSE sock[c]
           r == [opened EXCEPT !.status = "CONNECTING", !.flags = @ \cup {"connecting"}]
           first == [hs[c] EXCEPT !.isn = @ + 1, !.type = 1]
           known == IF fresh THEN OwnMux(c) ELSE mux
<1>4. CASE /\ ~Is(c, "connecting") /\ ~Is(c, "connected")
           /\ sock' = [sock EXCEPT ![c] = r]
           /\ mux' = [known EXCEPT ![c].connectors = @ \cup {<<c, first.isn>>}]
           /\ Goto(c, "connecting")
  <2>1. c \notin mux[c].list \cup mux[c].entries /\ "broken" \notin sock[c].flags
    BY <1>1, <1>2, <1>4 DEF Trying, Is
  <2>2. /\ r.where = "sockets" /\ "connected" \notin r.flags /\ "broken" \notin r.flags
    <3>1. /\ opened.where = "sockets" /\ "connected" \notin opened.flags
          /\ "broken" \notin opened.flags
      BY <1>1, <1>2, <1>4, <2>1 DEF SockType, Is
    <3>2. opened \in SockType \/ opened = [sock[c] EXCEPT !.flags = {"opened"}, !.mux = c]
      BY <1>1
    <3>3. r.where = opened.where /\ r.flags = opened.flags \cup {"connecting"}
      BY <1>1, <3>2 DEF SockType
    <3> HIDE DEF opened, r
    <3> QED BY <3>1, <3>3
  <2>3. /\ known \in [Muxes -> MuxType]
        /\ \A n \in Muxes : /\ known[n].list \subseteq mux[n].list
                            /\ known[n].entries \subseteq mux[n].entries
                            /\ known[n].listener \in {NoSocket, mux[n].listener}
    <3>1. CASE fresh
      <4>1. PICK y \in MuxType :
              /\ OwnMux(c) = [mux EXCEPT ![c] = y]
              /\ y.refs = 1 /\ y.listener = NoSocket /\ y.list \cup y.entries = {}
        BY <1>1, <1>3, OwnMuxDoes
      <4> QED BY <1>1, <1>3, <3>1, <4>1 DEF Types
    <3>2. CASE ~fresh
      BY <1>3, <3>2 DEF Types
    <3> QED BY <3>1, <3>2
  <2> HIDE DEF opened, r, first, known
  <2>4. \A n \in Muxes : /\ mux'[n].list \subseteq mux[n].list
                         /\ mux'[n].entries \subseteq mux[n].entries
                         /\ mux'[n].listener \in {NoSocket, mux[n].listener}
    <3>1. \A n \in Muxes : /\ mux'[n].list = known[n].list /\ mux'[n].entries = known[n].entries
                           /\ mux'[n].listener = known[n].listener
      BY <1>1, <1>4, <2>3 DEF MuxType
    <3> QED BY <2>3, <3>1
  <2>5. sock'[c] = r /\ \A s \in Sockets \ {c} : sock'[s] = sock[s]
    BY <1>1, <1>3, <1>4, SockOne
  <2>6. app'[c].pc = "connecting" /\ \A d \in Threads \ {c} : app'[d] = app[d]
    BY <1>1, <1>3, <1>4, GotoDoes DEF AppPcs
  <2>7. Trying(c, app'[c].pc, sock'[c], mux'[c].list \cup mux'[c].entries)
    BY <1>1, <2>1, <2>2, <2>4, <2>5, <2>6 DEF Trying
  <2>8. app'[c].pc \in Outside <=> app[c].pc \in Outside
    BY <1>2, <2>6 DEF Outside
  <2>9. \A d \in Clients \ {c} : app'[d].pc = app[d].pc
    BY <2>6, IdFacts
  <2>10. ~Listed(c) /\ sock[c].where # "closed"
    <3>1. ASSUME NEW m \in Muxes PROVE c \notin mux[m].list \cup mux[m].entries
      BY <2>1, <3>1, ClientsOwn
    <3> QED BY <1>2, <3>1 DEF Listed
  <2> HIDE DEF Listable, Trying
  <2> QED BY <1>2, <2>4, <2>5, <2>7, <2>8, <2>9, <2>10, ClientMoves
<1>5. CASE /\ sock' = [sock EXCEPT ![c].status = "OPENED"]
           /\ app' = [app EXCEPT ![c].pc = "failed", ![c].result = "busy"]
           /\ UNCHANGED mux
  <2>1. Fail(c, sock[c], "busy")
    BY <1>5 DEF Fail
  <2>2. Trying(c, "failed", sock[c], mux'[c].list \cup mux'[c].entries)
    BY <1>1, <1>2, <1>5 DEF Trying
  <2>3. "onList" \in sock[c].flags <=> Is(c, "onList")
    BY DEF Is
  <2> HIDE DEF Trying
  <2> QED BY <1>1, <1>2, <1>5, <2>1, <2>2, <2>3, SameMuxLists, FailMoves
<1> QED BY <1>4, <1>5 DEF connect, MayTry

LEMMA ConnectTimeoutDeleted ==
  ASSUME IInv, IInv', DInv, NEW c \in Clients, connectTimeout(c)
  PROVE  DInv'
<1>1. /\ Trying(c, app[c].pc, sock[c], mux[c].list \cup mux[c].entries)
      /\ sock[c] \in SockType
  BY ClientKnown
<1>2. /\ app[c].pc = "connecting" /\ Fail(c, sock[c], "timeout")
      /\ UNCHANGED <<mux, worker, gc, count>>
  BY DEF connectTimeout
<1>3. Trying(c, "failed", sock[c], mux'[c].list \cup mux'[c].entries)
  BY <1>1, <1>2 DEF Trying
<1>4. "onList" \in sock[c].flags <=> Is(c, "onList")
  BY DEF Is
<1> HIDE DEF Trying
<1> QED BY <1>1, <1>2, <1>3, <1>4, SameMuxLists, FailMoves

LEMMA GiveUpDeleted ==
  ASSUME IInv, IInv', DInv, NEW c \in Clients, GiveUp(c)
  PROVE  DInv'
<1>1. /\ Trying(c, app[c].pc, sock[c], mux[c].list \cup mux[c].entries)
      /\ sock[c] \in SockType /\ c \in Sockets /\ Types
  BY ClientKnown DEF IInv
<1>2. /\ sock' = [sock EXCEPT ![c].flags = @ \ {"connecting"}]
      /\ UNCHANGED <<mux, worker, gc, count, app>>
  BY DEF GiveUp
<1>3. /\ sock'[c].flags = sock[c].flags \ {"connecting"} /\ sock'[c].where = sock[c].where
      /\ \A s \in Sockets \ {c} : sock'[s] = sock[s]
  BY <1>1, <1>2 DEF Types, SockType
<1>4. Trying(c, app'[c].pc, sock'[c], mux'[c].list \cup mux'[c].entries)
  BY <1>1, <1>2, <1>3 DEF Trying
<1>5. /\ Listable(sock[c]) => Listable(sock'[c])
      /\ "onList" \notin sock[c].flags => "onList" \notin sock'[c].flags
  BY <1>3 DEF Listable
<1> HIDE DEF Trying, Listable
<1> QED BY <1>2, <1>3, <1>4, <1>5, SameMuxLists, ClientMoves

LEMMA StorePktDeleted ==
  ASSUME IInv, IInv', DInv, NEW c \in Clients, storePkt(c)
  PROVE  DInv'
<1>1. /\ \E p : mux' = [mux EXCEPT ![c].store = Append(@, p)]
      /\ UNCHANGED <<sock, worker, gc, count, app>>
  BY DEF storePkt
<1>2. \A m \in Muxes : /\ mux'[m].list = mux[m].list /\ mux'[m].entries = mux[m].entries
                       /\ mux'[m].listener = mux[m].listener
  BY <1>1 DEF IInv, Types, MuxType
<1>3. /\ Trying(c, app[c].pc, sock[c], mux[c].list \cup mux[c].entries)
      /\ c \in Muxes
  BY ClientKnown
<1>4. Trying(c, app'[c].pc, sock'[c], mux'[c].list \cup mux'[c].entries)
  BY <1>1, <1>2, <1>3
<1> HIDE DEF Trying, Listable
<1> QED BY <1>1, <1>2, <1>4, ClientMoves

\* A response is taken, and connect goes on or ends without a connection.
LEMMA ResponseMoves ==
  ASSUME IInv, IInv', DInv, NEW c \in Clients, UNCHANGED <<worker, gc, count>>,
         app[c].pc = "connecting",
         \A m \in Muxes : /\ mux'[m].list = mux[m].list /\ mux'[m].entries = mux[m].entries
                          /\ mux'[m].listener = mux[m].listener,
         \/ UNCHANGED <<sock, app>>
         \/ \E res : Conclude(c, sock[c], res)
  PROVE  DInv'
<1>1. /\ Trying(c, app[c].pc, sock[c], mux[c].list \cup mux[c].entries)
      /\ sock[c] \in SockType /\ c \in Sockets /\ c \in Muxes /\ c \in Threads /\ Types
  BY ClientKnown DEF IInv
<1>2. \A m \in Muxes : /\ mux'[m].list \subseteq mux[m].list
                       /\ mux'[m].entries \subseteq mux[m].entries
                       /\ mux'[m].listener \in {NoSocket, mux[m].listener}
  OBVIOUS
<1>3. CASE sock' = sock /\ app' = app
  <2>1. Trying(c, app'[c].pc, sock'[c], mux'[c].list \cup mux'[c].entries)
    BY <1>1, <1>3
  <2> HIDE DEF Trying, Listable
  <2> QED BY <1>2, <1>3, <2>1, ClientMoves
<1>4. ASSUME NEW res, Conclude(c, sock[c], res)
      PROVE  DInv'
  <2>1. CASE Verdict(c, res) = "ok"
    <3>1. /\ sock' = [sock EXCEPT ![c] = sock[c]]
          /\ app' = [app EXCEPT ![c].pc = "connected", ![c].result = Verdict(c, res)]
      BY <1>4, <2>1 DEF Conclude
    <3>2. sock' = sock
      BY <1>1, <3>1 DEF Types
    <3>3. app'[c].pc = "connected" /\ \A d \in Clients \ {c} : app'[d].pc = app[d].pc
      BY <1>1, <3>1, IdFacts DEF Types, AppType
    <3>4. Trying(c, app'[c].pc, sock'[c], mux'[c].list \cup mux'[c].entries)
      BY <1>1, <3>2, <3>3 DEF Trying
    <3>5. app'[c].pc \in Outside <=> app[c].pc \in Outside
      BY <3>3 DEF Outside
    <3> HIDE DEF Trying, Listable
    <3> QED BY <1>2, <3>2, <3>3, <3>4, <3>5, ClientMoves
  <2>2. CASE Verdict(c, res) # "ok"
    <3>1. \E why : Fail(c, sock[c], why)
      BY <1>4, <2>2 DEF Conclude
    <3>2. Trying(c, "failed", sock[c], mux'[c].list \cup mux'[c].entries)
      BY <1>1 DEF Trying
    <3>3. "onList" \in sock[c].flags <=> Is(c, "onList")
      BY DEF Is
    <3> HIDE DEF Trying
    <3> QED BY <1>1, <1>2, <3>1, <3>2, <3>3, FailMoves
  <2> QED BY <2>1, <2>2
<1> QED BY <1>3, <1>4

\* A response is taken, and the connection made: from now on the receiver thread
\* is about to list the socket, whether connect likes the response or not.
LEMMA ConnectedMoves ==
  ASSUME IInv, IInv', DInv, NEW c \in Clients, UNCHANGED <<worker, gc, count>>,
         app[c].pc = "connecting",
         NEW r \in SockType, r.where = sock[c].where,
         r.flags = (sock[c].flags \ {"connecting"}) \cup {"connected", "onList"},
         \E res : Conclude(c, r, res),
         \A m \in Muxes \ {c} : mux'[m] = mux[m],
         mux'[c].list = mux[c].list, mux'[c].entries = mux[c].entries \cup {c},
         mux'[c].listener = mux[c].listener
  PROVE  DInv'
<1>1. /\ Trying(c, app[c].pc, sock[c], mux[c].list \cup mux[c].entries)
      /\ sock[c] \in SockType /\ c \in Sockets /\ c \in Muxes /\ c \in Threads /\ Types
  BY ClientKnown DEF IInv
<1>2. /\ sock[c].where = "sockets" /\ "broken" \notin sock[c].flags
      /\ c \notin mux[c].list \cup mux[c].entries
  BY <1>1 DEF Trying
<1>3. PICK res : Conclude(c, r, res)
  OBVIOUS
<1>4. /\ app'[c].pc \in {"connected", "failed"}
      /\ \A d \in Clients \ {c} : app'[d].pc = app[d].pc
  <2>1. \E pc \in {"connected", "failed"} : \E why :
          app' = [app EXCEPT ![c].pc = pc, ![c].result = why]
    BY <1>3 DEF Conclude, Fail
  <2> QED BY <1>1, <2>1, IdFacts DEF Types, AppType
<1>5. PICK q \in SockType : /\ sock' = [sock EXCEPT ![c] = q]
                            /\ q.where = "sockets" /\ q.flags = r.flags
  <2> DEFINE o == [r EXCEPT !.status = "OPENED"]
  <2>1. o \in SockType /\ o.where = r.where /\ o.flags = r.flags
    BY DEF SockType, Statuses
  <2>2. sock' = [sock EXCEPT ![c] = r] \/ sock' = [sock EXCEPT ![c] = o]
    BY <1>3 DEF Conclude, Fail
  <2> HIDE DEF o
  <2> QED BY <1>2, <2>1, <2>2
<1>6. sock'[c] = q /\ \A s \in Sockets \ {c} : sock'[s] = sock[s]
  BY <1>1, <1>5, SockSet
<1>7. /\ Listable(sock'[c]) /\ "connected" \in sock'[c].flags
      /\ "broken" \notin sock'[c].flags
  BY <1>2, <1>5, <1>6 DEF Listable
<1>8. ListedInv'
  <2>1. ASSUME NEW m \in Muxes
        PROVE  /\ \A s \in mux'[m].list \cup mux'[m].entries : Listable(sock'[s])
               /\ mux'[m].list \cap mux'[m].entries = {}
    <3>1. /\ mux[m].list \cup mux[m].entries \subseteq Sockets
          /\ mux[m].list \cap mux[m].entries = {}
          /\ \A s \in mux[m].list \cup mux[m].entries : Listable(sock[s])
      BY <1>1 DEF Types, MuxType, DInv, ListedInv
    <3> HIDE DEF Listable
    <3>2. \A s \in mux[m].list \cup mux[m].entries : Listable(sock'[s])
      BY <1>6, <1>7, <3>1
    <3>3. CASE m = c
      BY <1>2, <1>7, <3>1, <3>2, <3>3
    <3>4. CASE m # c
      BY <3>1, <3>2, <3>4
    <3> QED BY <3>3, <3>4
  <2>2. mux'[Listener] = mux[Listener]
    BY IdFacts
  <2>3. mux'[Listener].list \cup mux'[Listener].entries \subseteq Accepted
    BY <2>2 DEF DInv, ListedInv
  <2> QED BY <2>1, <2>3 DEF ListedInv, Listable
<1>9. KeepTodo /\ KeepRest
  <2>1. sock'[Listener] = sock[Listener]
    BY <1>6, IdFacts
  <2>2. \A s \in Sockets : sock[s].where = "closed" => sock'[s] = sock[s]
    BY <1>2, <1>6
  <2>3. \A m \in Muxes : mux'[m].listener = mux[m].listener
    OBVIOUS
  <2> QED BY <2>1, <2>2, <2>3 DEF KeepTodo, KeepRest, Is
<1>10. TodoInv' /\ RestInv'
  BY <1>9, KeepTodoInv, KeepRestInv DEF IInv, Core, DInv
<1>11. TryInv'
  <2>1. ASSUME NEW d \in Clients
        PROVE  Trying(d, app'[d].pc, sock'[d], mux'[d].list \cup mux'[d].entries)
    <3>1. CASE d = c
      BY <1>4, <1>5, <1>6, <1>7, <3>1 DEF Trying
    <3>2. CASE d # c
      <4>1. app'[d].pc = app[d].pc /\ sock'[d] = sock[d] /\ mux'[d] = mux[d]
        BY <1>4, <1>6, <3>2, ClientKnown
      <4> QED BY <4>1, ClientKnown
    <3> QED BY <3>1, <3>2
  <2> QED BY <2>1 DEF TryInv
<1>12. InsideInv'
  <2>1. Inside' = Inside
    BY <1>4 DEF Inside
  <2> QED BY <2>1 DEF DInv, InsideInv
<1> QED BY <1>8, <1>10, <1>11, <1>12 DEF DInv

LEMMA ConnectResponseDeleted ==
  ASSUME IInv, IInv', DInv, NEW c \in Clients, connectResponse(c)
  PROVE  DInv'
<1>1. /\ sock[c] \in SockType /\ mux[c] \in MuxType /\ c \in Muxes /\ c \in Sockets /\ Types
  BY ClientKnown DEF IInv
<1>2. /\ mux[c].store # <<>> /\ app[c].pc = "connecting"
      /\ UNCHANGED <<worker, gc, count>>
  BY DEF connectResponse
<1> DEFINE p == Head(mux[c].store)
           res == [type |-> p.type, isn |-> p.isn]
           x == [mux[c] EXCEPT !.store = Tail(@)]
           F == (sock[c].flags \ {"connecting"}) \cup {"connected", "onList"}
           r == [sock[c] EXCEPT !.status = "CONNECTED", !.peer = p.id, !.flags = F]
           y == [Forget(x, c) EXCEPT !.entries = @ \cup {c}]
<1>3. p \in ResponseType /\ Tail(mux[c].store) \in Seq(ResponseType)
  <2>1. mux[c].store \in Seq(ResponseType)
    BY <1>1 DEF MuxType
  <2> QED BY <1>2, <2>1
<1>4. p.id \in Sockets
  <2> HIDE DEF p
  <2> QED BY <1>3 DEF ResponseType
<1>5. /\ x \in MuxType /\ x.list = mux[c].list /\ x.entries = mux[c].entries
      /\ x.listener = mux[c].listener
  BY <1>1, <1>3 DEF MuxType
<1>6. r \in SockType /\ r.where = sock[c].where /\ r.flags = F
  <2>1. F \in SUBSET Flags /\ "CONNECTED" \in Statuses
    BY <1>1 DEF SockType, Flags, Statuses
  <2> HIDE DEF F, p
  <2> QED BY <1>1, <1>4, <2>1 DEF SockType
<1>7. /\ y.list = mux[c].list /\ y.entries = mux[c].entries \cup {c}
      /\ y.listener = mux[c].listener
  <2> HIDE DEF x
  <2>1. /\ Forget(x, c) \in MuxType
        /\ Forget(x, c).entries = x.entries /\ Forget(x, c).list = x.list
        /\ Forget(x, c).listener = x.listener
    BY <1>5, ForgetDoes
  <2> QED BY <1>5, <2>1 DEF MuxType
<1>8. \/ Conclude(c, sock[c], hs[c].res) /\ mux' = [mux EXCEPT ![c] = x]
      \/ mux' = [mux EXCEPT ![c] = x] /\ UNCHANGED <<sock, app>>
      \/ Conclude(c, r, res) /\ mux' = [mux EXCEPT ![c] = y]
  BY DEF connectResponse
<1> HIDE DEF p, res, x, r, y
<1>9. ASSUME mux' = [mux EXCEPT ![c] = x],
             UNCHANGED <<sock, app>> \/ \E e : Conclude(c, sock[c], e)
      PROVE  DInv'
  <2>1. \A m \in Muxes : /\ mux'[m].list = mux[m].list /\ mux'[m].entries = mux[m].entries
                         /\ mux'[m].listener = mux[m].listener
    BY <1>1, <1>5, <1>9, MuxSet
  <2> QED BY <1>2, <1>9, <2>1, ResponseMoves
<1>10. CASE Conclude(c, r, res) /\ mux' = [mux EXCEPT ![c] = y]
  <2>1. mux'[c] = y /\ \A m \in Muxes \ {c} : mux'[m] = mux[m]
    BY <1>1, <1>10 DEF Types
  <2> QED BY <1>2, <1>6, <1>7, <1>10, <2>1, ConnectedMoves
<1> QED BY <1>8, <1>9, <1>10

\* Closing a socket leaves it where it is, and listed.
LEMMA EndedKeeps ==
  ASSUME NEW r \in SockType
  PROVE  /\ Ended(r).where = r.where /\ Ended(r).age = r.age
         /\ "onList" \in Ended(r).flags <=> "onList" \in r.flags
         /\ "broken" \in Ended(r).flags <=> "broken" \in r.flags
  BY DEF Ended, SockType

LEMMA ShutKeeps ==
  ASSUME NEW r \in SockType
  PROVE  /\ Shut(r).where = r.where /\ Shut(r) \in SockType
         /\ "onList" \in Shut(r).flags <=> "onList" \in r.flags
<1> DEFINE q == [r EXCEPT !.flags = @ \cup {"broken"}]
<1>1. q.flags = r.flags \cup {"broken"} /\ q.where = r.where /\ q \in SockType
  <2>1. r.flags \cup {"broken"} \in SUBSET Flags
    BY DEF SockType, Flags
  <2> QED BY <2>1 DEF SockType
<1> HIDE DEF q
<1>2. Shut(r) = Ended(q)
  BY DEF q, Shut
<1>3. Ended(q) \in SockType
  BY <1>1, EndedDoes DEF Closing
<1> QED BY <1>1, <1>2, <1>3, EndedKeeps

LEMMA InTableKeeps ==
  ASSUME NEW r \in SockType
  PROVE  InTable(r).where = "closed" /\ InTable(r).flags = r.flags /\ InTable(r).age = 0
  BY DEF InTable, SockType

LEMMA UnheardKeeps ==
  ASSUME Types, NEW S, mux' = Unheard(S)
  PROVE  \A m \in Muxes : /\ mux'[m].list = mux[m].list /\ mux'[m].entries = mux[m].entries
                          /\ mux'[m].listener \in {NoSocket, mux[m].listener}
  BY UnheardDoes

\* A step that touches, of the sockets, at most an accepted one.
LEMMA AcceptedMoves ==
  ASSUME IInv, DInv, NEW s \in Accepted, UNCHANGED <<gc, count>>,
         worker'[Listener].pc # "idle" =>
           worker[Listener].pc # "idle" \/ sock[Listener].where = "sockets",
         \A u \in Sockets \ {s} : sock'[u] = sock[u],
         Listed(s) /\ Listable(sock[s]) => Listable(sock'[s]),
         sock[s].where = "closed" /\ "onList" \notin sock[s].flags => "onList" \notin sock'[s].flags,
         \A m \in Muxes : /\ mux'[m].list = mux[m].list
                          /\ mux'[m].entries = mux[m].entries
                          /\ mux'[m].listener \in {NoSocket, mux[m].listener},
         \A c \in Clients : app'[c].pc = app[c].pc
  PROVE  DInv'
<1>1. s # Listener /\ Listener \in Sockets /\ Listener # NoSocket /\ s \notin Clients
  BY IdFacts
<1>2. sock'[Listener] = sock[Listener] /\ \A c \in Clients : sock'[c] = sock[c]
  BY <1>1, IdFacts
<1>3. KeepListed
  <2> HIDE DEF Listable
  <2> QED BY DEF KeepListed
<1>4. KeepTodo
  <2>1. ASSUME NEW u \in Sockets, sock[u].where = "closed", ~Is(u, "onList")
        PROVE  "onList" \notin sock'[u].flags
    BY <2>1 DEF Is
  <2> QED BY <2>1 DEF KeepTodo
<1>5. KeepRest
  BY <1>1, <1>2 DEF KeepRest
<1> QED BY <1>2, <1>3, <1>4, <1>5, ServerStep

LEMMA CloseDeleted ==
  ASSUME IInv, IInv', DInv, NEW t \in Threads, close(t)
  PROVE  DInv'
<1>1. PICK s : s = Held(t)
  OBVIOUS
<1>2. /\ t # Main /\ app[t].pc \in {"connected", "failed", "serving"}
      /\ UNCHANGED <<worker, gc, count>>
      /\ \/ /\ Located(s) /\ sock' = [sock EXCEPT ![s] = Ended(@)]
            /\ mux' = Unheard({s}) /\ Goto(t, "closing")
         \/ Goto(t, AfterClose(t)) /\ UNCHANGED <<sock, mux>>
  BY <1>1 DEF close
<1>3. s \in Sockets /\ (t = Accepter \/ t \in Clients) /\ Types
  BY <1>1, <1>2, HeldDoes DEF IInv
<1>4. PICK p \in {"closing", "ready", "closed"} : Goto(t, p) /\ (t \in Clients => p # "ready")
  BY <1>2, IdFacts DEF AfterClose
<1>5. app'[t].pc = p /\ \A u \in Threads \ {t} : app'[u] = app[u]
  BY <1>3, <1>4, GotoDoes DEF AppPcs
<1>6. /\ \A u \in Sockets \ {s} : sock'[u] = sock[u]
      /\ sock'[s].where = sock[s].where
      /\ "onList" \in sock'[s].flags <=> "onList" \in sock[s].flags
      /\ sock'[s] = sock[s] \/ sock[s].where = "sockets"
  <2>1. CASE sock' = sock
    BY <2>1
  <2>2. CASE Located(s) /\ sock' = [sock EXCEPT ![s] = Ended(@)]
    <3>1. sock'[s] = Ended(sock[s]) /\ \A u \in Sockets \ {s} : sock'[u] = sock[u]
      BY <1>3, <2>2 DEF Types
    <3>2. sock[s] \in SockType
      BY <1>3 DEF Types
    <3> QED BY <2>2, <3>1, <3>2, EndedKeeps DEF Located
  <2> QED BY <1>2, <2>1, <2>2
<1>7. \A m \in Muxes : /\ mux'[m].list = mux[m].list /\ mux'[m].entries = mux[m].entries
                       /\ mux'[m].listener \in {NoSocket, mux[m].listener}
  BY <1>2, <1>3, UnheardKeeps
<1>8. /\ Listable(sock[s]) => Listable(sock'[s])
      /\ "onList" \notin sock[s].flags => "onList" \notin sock'[s].flags
  BY <1>6 DEF Listable
<1>9. CASE t \in Clients
  <2>1. s = t
    BY <1>1, <1>9, IdFacts DEF Held
  <2>2. Trying(t, app[t].pc, sock[t], mux[t].list \cup mux[t].entries)
    BY <1>9, ClientKnown
  <2>3. Trying(t, app'[t].pc, sock'[t], mux'[t].list \cup mux'[t].entries)
    BY <1>4, <1>5, <1>6, <1>9, <2>1, <2>2 DEF Trying
  <2>4. app'[t].pc \in Outside <=> app[t].pc \in Outside
    BY <1>2, <1>5 DEF Outside
  <2>5. \A d \in Clients \ {t} : app'[d].pc = app[d].pc
    BY <1>5, IdFacts
  <2> HIDE DEF Listable, Trying
  <2> QED BY <1>2, <1>6, <1>7, <1>8, <1>9, <2>1, <2>3, <2>4, <2>5, ClientMoves
<1>10. CASE t = Accepter
  <2>1. s \in Accepted
    BY <1>1, <1>2, <1>10 DEF Held, IInv, AppInv
  <2>2. \A c \in Clients : app'[c].pc = app[c].pc
    BY <1>5, <1>10, IdFacts
  <2> HIDE DEF Listable
  <2> QED BY <1>2, <1>6, <1>7, <1>8, <2>1, <2>2, AcceptedMoves
<1> QED BY <1>3, <1>9, <1>10

LEMMA ClosedDeleted ==
  ASSUME IInv, IInv', DInv, NEW t \in Threads, closed(t)
  PROVE  DInv'
<1>1. PICK s : s = Held(t)
  OBVIOUS
<1>2. /\ app[t].pc = "closing"
      /\ sock' = IF Located(s) THEN [sock EXCEPT ![s] = InTable(@)] ELSE sock
      /\ app' = [app EXCEPT ![t].pc = AfterClose(t), ![t].sock = NoSocket]
      /\ UNCHANGED <<mux, worker, gc, count>>
  BY <1>1 DEF closed
<1>3. t # Main /\ Types
  BY <1>2 DEF IInv, AppInv
<1>4. s \in Sockets /\ (t = Accepter \/ t \in Clients)
  BY <1>1, <1>2, <1>3, HeldDoes
<1>5. app'[t].pc = AfterClose(t) /\ \A u \in Threads \ {t} : app'[u] = app[u]
  BY <1>2, <1>3 DEF Types, AppType
<1>6. /\ \A u \in Sockets \ {s} : sock'[u] = sock[u]
      /\ sock'[s].flags = sock[s].flags
      /\ (sock'[s] = sock[s] \/ (sock[s].where = "sockets" /\ sock'[s].where = "closed"))
  <2>1. CASE Located(s)
    <3>1. sock'[s] = InTable(sock[s]) /\ \A u \in Sockets \ {s} : sock'[u] = sock[u]
      BY <1>2, <1>3, <1>4, <2>1 DEF Types
    <3>2. sock[s] \in SockType
      BY <1>3, <1>4 DEF Types
    <3> QED BY <2>1, <3>1, <3>2, InTableKeeps DEF Located
  <2>2. CASE ~Located(s)
    BY <1>2, <2>2
  <2> QED BY <2>1, <2>2
<1>7. /\ Listable(sock[s]) => Listable(sock'[s])
      /\ "onList" \notin sock[s].flags => "onList" \notin sock'[s].flags
  BY <1>6 DEF Listable
<1>8. CASE t \in Clients
  <2>1. s = t /\ app'[t].pc = "closed"
    BY <1>1, <1>5, <1>8, IdFacts DEF Held, AfterClose
  <2>2. Trying(t, app[t].pc, sock[t], mux[t].list \cup mux[t].entries)
    BY <1>8, ClientKnown
  <2>3. Trying(t, app'[t].pc, sock'[t], mux'[t].list \cup mux'[t].entries)
    BY <1>6, <2>1, <2>2 DEF Trying
  <2>4. app'[t].pc \in Outside <=> app[t].pc \in Outside
    BY <1>2, <2>1 DEF Outside
  <2>5. \A d \in Clients \ {t} : app'[d].pc = app[d].pc
    BY <1>5, IdFacts
  <2> HIDE DEF Listable, Trying
  <2> QED BY <1>2, <1>6, <1>7, <1>8, <2>1, <2>3, <2>4, <2>5, SameMuxLists, ClientMoves
<1>9. CASE t = Accepter
  <2>1. s \in Accepted
    BY <1>1, <1>2, <1>9 DEF Held, IInv, AppInv
  <2>2. \A c \in Clients : app'[c].pc = app[c].pc
    BY <1>5, <1>9, IdFacts
  <2>3. \A m \in Muxes : /\ mux'[m].list = mux[m].list /\ mux'[m].entries = mux[m].entries
                         /\ mux'[m].listener \in {NoSocket, mux[m].listener}
    BY <1>2
  <2> HIDE DEF Listable
  <2> QED BY <1>2, <1>6, <1>7, <2>1, <2>2, <2>3, AcceptedMoves
<1> QED BY <1>4, <1>8, <1>9

LEMMA CloseListenerDeleted ==
  ASSUME IInv, IInv', DInv, closeListener
  PROVE  DInv'
<1>1. /\ sock[Listener].where = "sockets"
      /\ sock' = [sock EXCEPT ![Listener].flags = @ \cup {"broken"}, ![Listener].age = 0]
      /\ Goto(Main, "closed") /\ UNCHANGED <<mux, worker, gc, count>>
  BY DEF closeListener, Located
<1>2. /\ sock'[Listener].where = "sockets"
      /\ "onList" \in sock'[Listener].flags <=> "onList" \in sock[Listener].flags
      /\ \A u \in Sockets \ {Listener} : sock'[u] = sock[u]
  <2>1. sock[Listener] \in SockType /\ sock \in [Sockets -> SockType] /\ Listener \in Sockets
    BY IdFacts DEF IInv, Types
  <2> QED BY <1>1, <2>1 DEF SockType
<1>3. \A c \in Clients : app'[c].pc = app[c].pc /\ sock'[c] = sock[c]
  <2>1. \A c \in Clients : app'[c].pc = app[c].pc
    BY <1>1, IdFacts, CalmGoto DEF IInv
  <2> QED BY <1>2, <2>1, IdFacts
<1>4. KeepListed /\ KeepTodo /\ KeepRest
  <2>1. \A u \in Sockets : /\ Listable(sock[u]) => Listable(sock'[u])
                           /\ "onList" \notin sock[u].flags => "onList" \notin sock'[u].flags
    BY <1>1, <1>2 DEF Listable
  <2>2. ~AtRest(sock'[Listener]) /\ sock'[Listener].where # "deleted"
    BY <1>2 DEF AtRest
  <2> HIDE DEF Listable, AtRest
  <2> QED BY <1>1, <2>1, <2>2 DEF KeepListed, KeepTodo, KeepRest, Is
<1> QED BY <1>1, <1>3, <1>4, ServerStep

\* The receiver thread of the listener goes on with its request.
LEMMA RequestMoves ==
  ASSUME IInv, DInv, UNCHANGED <<sock, mux, gc, count, app>>,
         worker'[Listener].pc # "idle" =>
           worker[Listener].pc # "idle" \/ sock[Listener].where = "sockets"
  PROVE  DInv'
<1>1. KeepListed /\ KeepTodo /\ KeepRest
  BY DEF KeepListed, KeepTodo, KeepRest, Is
<1> QED BY <1>1, ServerStep

LEMMA ListenRequestDeleted ==
  ASSUME IInv, DInv, ~late', listenRequest
  PROVE  DInv'
<1>1. UNCHANGED <<sock, mux, gc, count, app>>
  BY DEF listenRequest
<1>2. worker'[Listener].pc # "idle" => sock[Listener].where = "sockets"
  <2>1. \/ \E p \in Requests : Answer(p, 1, p.from)
        \/ sock[Listener].where = "sockets"
    BY DEF listenRequest, Punctual
  <2>2. worker' = [worker EXCEPT ![Listener] = Idle] => worker'[Listener].pc = "idle"
    BY IdleDoes DEF IInv
  <2> QED BY <2>1, <2>2 DEF Answer
<1> QED BY <1>1, <1>2, RequestMoves

LEMMA LocateRequestDeleted ==
  ASSUME IInv, DInv, locateRequest
  PROVE  DInv'
<1> DEFINE p == worker[Listener].msg
           S == SameRequest(p)
           d == Lowest(S)
<1>1. /\ worker[Listener].pc = "locate" /\ UNCHANGED <<mux, gc, count, app>>
      /\ \/ sock' = sock
         \/ S # {} /\ sock' = [sock EXCEPT ![d].status = "CLOSED", ![d].age = 0]
  BY DEF locateRequest
<1>2. S # {} => d \in Accepted
  <2>1. S \subseteq Accepted /\ S \subseteq Sockets
    BY IdFacts DEF SameRequest
  <2> HIDE DEF S
  <2> QED BY <2>1, ExtremeIds
<1> HIDE DEF p, S, d
<1>3. CASE sock' = sock
  BY <1>1, <1>3, RequestMoves
<1>4. CASE S # {} /\ sock' = [sock EXCEPT ![d].status = "CLOSED", ![d].age = 0]
  <2>1. d \in Accepted /\ d \in Sockets
    BY <1>2, <1>4, IdFacts
  <2>2. /\ sock'[d].where = sock[d].where /\ sock'[d].flags = sock[d].flags
        /\ \A u \in Sockets \ {d} : sock'[u] = sock[u]
    BY <1>4, <2>1 DEF IInv, Types, SockType
  <2>3. Listable(sock[d]) => Listable(sock'[d])
    BY <2>2 DEF Listable
  <2>4. \A m \in Muxes : /\ mux'[m].list = mux[m].list /\ mux'[m].entries = mux[m].entries
                         /\ mux'[m].listener \in {NoSocket, mux[m].listener}
    BY <1>1
  <2> HIDE DEF Listable
  <2> QED BY <1>1, <2>1, <2>2, <2>3, <2>4, AcceptedMoves
<1> QED BY <1>1, <1>3, <1>4

LEMMA InsertConnectionDeleted ==
  ASSUME IInv, DInv, insertConnection
  PROVE  DInv'
<1>1. PICK s : s = worker[Listener].new
  OBVIOUS
<1>2. /\ worker[Listener].pc = "insert" /\ sock' = [sock EXCEPT ![s].where = "sockets"]
      /\ UNCHANGED <<mux, gc, count, app>>
  BY <1>1 DEF insertConnection
<1>3. s \in Accepted /\ s \in Sockets /\ sock[s].where = "private"
  BY <1>1, <1>2, IdFacts DEF IInv, Core, MakingInv
<1>4. /\ sock'[s].where = "sockets" /\ sock'[s].flags = sock[s].flags
      /\ \A u \in Sockets \ {s} : sock'[u] = sock[u]
  BY <1>2, <1>3 DEF IInv, Types, SockType
<1>5. Listable(sock[s]) => Listable(sock'[s])
  BY <1>4 DEF Listable
<1>6. \A m \in Muxes : /\ mux'[m].list = mux[m].list /\ mux'[m].entries = mux[m].entries
                       /\ mux'[m].listener \in {NoSocket, mux[m].listener}
  BY <1>2
<1> HIDE DEF Listable
<1> QED BY <1>2, <1>3, <1>4, <1>5, <1>6, AcceptedMoves

LEMMA QueueConnectionDeleted ==
  ASSUME IInv, DInv, queueConnection
  PROVE  DInv'
<1>1. worker[Listener].pc = "queue" /\ UNCHANGED <<sock, mux, gc, count, app>>
  BY DEF queueConnection
<1> QED BY <1>1, RequestMoves

LEMMA CreateConnectionDeleted ==
  ASSUME IInv, IInv', DInv, createConnection
  PROVE  DInv'
<1> DEFINE p == worker[Listener].msg
           ns == Highest(Fresh)
           r == [where |-> "private", status |-> "CONNECTED", mux |-> Listener,
                 flags |-> {"opened", "connected", "onList"},
                 peer |-> p.from, isn |-> p.isn, age |-> 0]
           x == [Shared(mux[Listener]) EXCEPT !.entries = @ \cup {ns}]
<1>1. worker[Listener].pc = "create" /\ UNCHANGED <<gc, count, app>>
  BY DEF createConnection
<1>2. \/ sock' = sock /\ mux' = mux
      \/ /\ Fresh # {} /\ sock' = [sock EXCEPT ![ns] = r]
         /\ mux' = [mux EXCEPT ![Listener] = x]
  BY DEF createConnection
<1>3. CASE sock' = sock /\ mux' = mux
  BY <1>1, <1>3, RequestMoves
<1>4. CASE /\ Fresh # {} /\ sock' = [sock EXCEPT ![ns] = r]
           /\ mux' = [mux EXCEPT ![Listener] = x]
  <2>1. ns \in Fresh
    <3>1. Fresh \subseteq Sockets
      BY IdFacts DEF Fresh
    <3> QED BY <1>4, <3>1, ExtremeIds
  <2>2. ns \in Accepted /\ ns \in Sockets /\ sock[ns].where = "none" /\ Types
    BY <2>1, IdFacts DEF Fresh, IInv
  <2>3. Listable(r) /\ r.where = "private"
    BY DEF Listable
  <2>4. /\ x.list = mux[Listener].list /\ x.entries = mux[Listener].entries \cup {ns}
        /\ x.listener = mux[Listener].listener
    <3>1. mux[Listener] \in MuxType
      BY <2>2, IdFacts DEF Types
    <3> HIDE DEF ns
    <3> QED BY <3>1 DEF Shared, MuxType
  <2> HIDE DEF r, x, ns
  <2>5. sock'[ns] = r /\ \A u \in Sockets \ {ns} : sock'[u] = sock[u]
    BY <1>4, <2>2, SockOne
  <2>6. mux'[Listener] = x /\ \A m \in Muxes \ {Listener} : mux'[m] = mux[m]
    BY <1>4, <2>2, IdFacts DEF Types
  <2>7. \A m \in Muxes : ns \notin mux[m].list \cup mux[m].entries
    BY <2>2 DEF DInv, ListedInv, Listable
  <2>8. ListedInv'
    <3>1. ASSUME NEW m \in Muxes
          PROVE  /\ \A s \in mux'[m].list \cup mux'[m].entries : Listable(sock'[s])
                 /\ mux'[m].list \cap mux'[m].entries = {}
      <4>1. /\ mux[m].list \cup mux[m].entries \subseteq Sockets
            /\ mux[m].list \cap mux[m].entries = {}
            /\ \A s \in mux[m].list \cup mux[m].entries : Listable(sock[s])
        BY <2>2 DEF Types, MuxType, DInv, ListedInv
      <4> HIDE DEF Listable
      <4>2. \A s \in mux[m].list \cup mux[m].entries : Listable(sock'[s])
        BY <2>5, <2>7, <4>1
      <4>3. CASE m = Listener
        BY <2>3, <2>4, <2>5, <2>6, <2>7, <4>1, <4>2, <4>3
      <4>4. CASE m # Listener
        BY <2>6, <4>1, <4>2, <4>4
      <4> QED BY <4>3, <4>4
    <3>2. mux'[Listener].list \cup mux'[Listener].entries \subseteq Accepted
      BY <2>2, <2>4, <2>6 DEF DInv, ListedInv
    <3> QED BY <3>1, <3>2 DEF ListedInv, Listable
  <2>9. sock'[Listener] = sock[Listener] /\ \A c \in Clients : sock'[c] = sock[c]
    BY <2>2, <2>5, IdFacts
  <2>10. KeepTodo /\ KeepRest
    <3>1. \A s \in Sockets : sock[s].where = "closed" => sock'[s] = sock[s]
      BY <2>2, <2>5
    <3>2. \A m \in Muxes : mux'[m].listener = mux[m].listener
      BY <2>4, <2>6
    <3> QED BY <1>1, <2>9, <3>1, <3>2 DEF KeepTodo, KeepRest, Is
  <2>11. TodoInv' /\ RestInv'
    BY <2>10, KeepTodoInv, KeepRestInv DEF IInv, Core, DInv
  <2>12. TryInv'
    <3>1. ASSUME NEW c \in Clients
          PROVE  Trying(c, app'[c].pc, sock'[c], mux'[c].list \cup mux'[c].entries)
      <4>1. app'[c].pc = app[c].pc /\ sock'[c] = sock[c] /\ mux'[c] = mux[c]
        BY <1>1, <2>6, <2>9, IdFacts, ClientKnown
      <4> QED BY <4>1, ClientKnown
    <3> QED BY <3>1 DEF TryInv
  <2>13. InsideInv'
    BY <1>1 DEF DInv, InsideInv, Inside
  <2> QED BY <2>8, <2>11, <2>12, <2>13 DEF DInv
<1> QED BY <1>2, <1>3, <1>4

LEMMA TakeEntriesDeleted ==
  ASSUME IInv, IInv', DInv, NEW m \in Muxes, takeEntries(m)
  PROVE  DInv'
<1>1. /\ mux' = [mux EXCEPT ![m].list = @ \cup mux[m].entries, ![m].entries = {}]
      /\ UNCHANGED <<sock, worker, gc, count, app>>
  BY DEF takeEntries
<1>2. /\ mux'[m].list = mux[m].list \cup mux[m].entries /\ mux'[m].entries = {}
      /\ \A n \in Muxes : mux'[n].listener = mux[n].listener
      /\ \A n \in Muxes \ {m} : mux'[n] = mux[n]
  BY <1>1 DEF IInv, Types, MuxType
<1>3. \A n \in Muxes : mux'[n].list \cup mux'[n].entries = mux[n].list \cup mux[n].entries
  BY <1>2
<1>4. ListedInv'
  <2> HIDE DEF Listable
  <2>1. ASSUME NEW n \in Muxes
        PROVE  /\ \A s \in mux'[n].list \cup mux'[n].entries : Listable(sock'[s])
               /\ mux'[n].list \cap mux'[n].entries = {}
    <3>1. \A s \in mux'[n].list \cup mux'[n].entries : Listable(sock'[s])
      BY <1>1, <1>3 DEF DInv, ListedInv
    <3>2. mux'[n].list \cap mux'[n].entries = {}
      BY <1>2 DEF DInv, ListedInv
    <3> QED BY <3>1, <3>2
  <2>2. mux'[Listener].list \cup mux'[Listener].entries \subseteq Accepted
    BY <1>3, IdFacts DEF DInv, ListedInv
  <2> QED BY <2>1, <2>2 DEF ListedInv, Listable
<1>5. KeepTodo /\ KeepRest
  BY <1>1, <1>2 DEF KeepTodo, KeepRest, Is
<1>6. TodoInv' /\ RestInv'
  BY <1>5, KeepTodoInv, KeepRestInv DEF IInv, Core, DInv
<1>7. TryInv'
  <2>1. ASSUME NEW c \in Clients
        PROVE  Trying(c, app'[c].pc, sock'[c], mux'[c].list \cup mux'[c].entries)
    BY <1>1, <1>3, ClientKnown
  <2> QED BY <2>1 DEF TryInv
<1>8. InsideInv'
  BY <1>1 DEF DInv, InsideInv, Inside
<1> QED BY <1>4, <1>6, <1>7, <1>8 DEF DInv

LEMMA DropEndedDeleted ==
  ASSUME IInv, IInv', DInv, NEW m \in Muxes, dropEnded(m)
  PROVE  DInv'
<1>1. PICK s \in mux[m].list :
        /\ ~Alive(s) /\ mux' = [mux EXCEPT ![m].list = @ \ {s}]
        /\ sock' = [sock EXCEPT ![s] = OffList(@)]
        /\ UNCHANGED <<worker, gc, count, app>>
  BY DEF dropEnded
<1>2. s \in Sockets /\ Types /\ sock[s] \in SockType
  BY DEF IInv, Types, MuxType
<1>3. /\ sock'[s].flags = sock[s].flags \ {"onList"} /\ sock'[s].where = sock[s].where
      /\ sock'[s].age = sock[s].age
      /\ \A u \in Sockets \ {s} : sock'[u] = sock[u]
  BY <1>1, <1>2 DEF OffList, Types, SockType
<1>4. /\ mux'[m].list = mux[m].list \ {s} /\ mux'[m].entries = mux[m].entries
      /\ \A n \in Muxes : mux'[n].listener = mux[n].listener
      /\ \A n \in Muxes \ {m} : mux'[n] = mux[n]
  BY <1>1, <1>2 DEF Types, MuxType
<1>5. \A n \in Muxes \ {m} : s \notin mux[n].list \cup mux[n].entries
  <2>1. CASE s \in Clients
    BY <2>1, ClientsOwn
  <2>2. CASE s \notin Clients
    <3>1. \A n \in Clients : s \notin mux[n].list \cup mux[n].entries
      BY <2>2 DEF IInv, Core, Threaded
    <3>2. m = Listener
      BY <3>1 DEF Muxes
    <3> QED BY <3>1, <3>2 DEF Muxes
  <2> QED BY <2>1, <2>2
<1>6. s \notin mux[m].entries
  BY DEF DInv, ListedInv
<1>7. ASSUME NEW n \in Muxes
      PROVE  /\ \A u \in mux'[n].list \cup mux'[n].entries : Listable(sock'[u])
             /\ mux'[n].list \cap mux'[n].entries = {}
             /\ mux'[n].list \subseteq mux[n].list /\ mux'[n].entries \subseteq mux[n].entries
  <2>1. /\ mux'[n].list \subseteq mux[n].list /\ mux'[n].entries \subseteq mux[n].entries
        /\ s \notin mux'[n].list \cup mux'[n].entries
    BY <1>4, <1>5, <1>6
  <2>2. /\ mux[n].list \cup mux[n].entries \subseteq Sockets
        /\ mux[n].list \cap mux[n].entries = {}
        /\ \A u \in mux[n].list \cup mux[n].entries : Listable(sock[u])
    BY <1>2 DEF Types, MuxType, DInv, ListedInv
  <2> HIDE DEF Listable
  <2>3. \A u \in mux'[n].list \cup mux'[n].entries : Listable(sock'[u])
    BY <1>3, <2>1, <2>2
  <2> QED BY <2>1, <2>2, <2>3
<1>8. ListedInv'
  <2>1. mux'[Listener].list \cup mux'[Listener].entries \subseteq Accepted
    BY <1>7, IdFacts DEF DInv, ListedInv
  <2> QED BY <1>7, <2>1 DEF ListedInv, Listable
<1>9. KeepTodo /\ KeepRest
  <2>1. \A u \in Sockets : "onList" \notin sock[u].flags => "onList" \notin sock'[u].flags
    BY <1>3
  <2>2. sock'[Listener].where = sock[Listener].where /\ sock'[Listener].age = sock[Listener].age
    BY <1>3, IdFacts
  <2> QED BY <1>1, <1>4, <2>1, <2>2 DEF KeepTodo, KeepRest, Is, AtRest
<1>10. TodoInv' /\ RestInv'
  BY <1>9, KeepTodoInv, KeepRestInv DEF IInv, Core, DInv
<1>11. TryInv'
  <2>1. ASSUME NEW c \in Clients
        PROVE  Trying(c, app'[c].pc, sock'[c], mux'[c].list \cup mux'[c].entries)
    <3>1. Trying(c, app[c].pc, sock[c], mux[c].list \cup mux[c].entries) /\ c \in Muxes
          /\ c \in Sockets
      BY ClientKnown
    <3>2. Trying(c, app[c].pc, sock[c], mux'[c].list \cup mux'[c].entries)
      BY <1>7, <3>1, FewerLists
    <3>3. CASE c = s
      BY <1>1, <1>3, <3>2, <3>3 DEF Trying
    <3>4. CASE c # s
      BY <1>1, <1>3, <3>1, <3>2, <3>4
    <3> QED BY <3>3, <3>4
  <2> QED BY <2>1 DEF TryInv
<1>12. InsideInv'
  BY <1>1 DEF DInv, InsideInv, Inside
<1> QED BY <1>8, <1>10, <1>11, <1>12 DEF DInv

\* A listed connection breaks.
LEMMA ListedBreaks ==
  ASSUME IInv, IInv', DInv, NEW m \in Muxes, NEW s \in mux[m].list, Alive(s),
         NEW F, "onList" \notin F, "connected" \notin F,
         sock' = [sock EXCEPT ![s].flags = @ \cup F],
         UNCHANGED <<mux, worker, gc, count, app>>
  PROVE  DInv'
<1>1. s \in Sockets /\ Types /\ sock[s] \in SockType
  BY DEF IInv, Types, MuxType
<1>2. /\ sock'[s].flags = sock[s].flags \cup F /\ sock'[s].where = sock[s].where
      /\ sock'[s].age = sock[s].age
      /\ \A u \in Sockets \ {s} : sock'[u] = sock[u]
  BY <1>1 DEF Types, SockType
<1>3. /\ Listable(sock[s]) => Listable(sock'[s])
      /\ "onList" \notin sock[s].flags => "onList" \notin sock'[s].flags
  BY <1>2 DEF Listable
<1>4. Listable(sock[s]) /\ "connected" \in sock[s].flags
  BY DEF DInv, ListedInv, Alive, Is
<1>5. CASE s \in Clients
  <2>1. Trying(s, app[s].pc, sock[s], mux[s].list \cup mux[s].entries)
    BY <1>5, ClientKnown
  <2>2. Trying(s, app'[s].pc, sock'[s], mux'[s].list \cup mux'[s].entries)
    BY <1>2, <1>4, <2>1 DEF Trying, Listable
  <2> HIDE DEF Listable, Trying
  <2> QED BY <1>2, <1>3, <1>5, <2>2, SameMuxLists, ClientMoves
<1>6. CASE s \notin Clients
  <2>1. \A c \in Clients : app'[c].pc = app[c].pc /\ sock'[c] = sock[c]
    BY <1>2, <1>6, IdFacts
  <2>2. KeepListed /\ KeepTodo /\ KeepRest
    <3>1. \A u \in Sockets : /\ Listable(sock[u]) => Listable(sock'[u])
                             /\ "onList" \notin sock[u].flags => "onList" \notin sock'[u].flags
      <4> HIDE DEF Listable
      <4> QED BY <1>2, <1>3
    <3>2. sock'[Listener].where = sock[Listener].where /\ sock'[Listener].age = sock[Listener].age
      BY <1>2, IdFacts
    <3> HIDE DEF Listable
    <3> QED BY <3>1, <3>2 DEF KeepListed, KeepTodo, KeepRest, Is, AtRest
  <2> QED BY <2>1, <2>2, ServerStep
<1> QED BY <1>5, <1>6

LEMMA BreaksDeleted ==
  ASSUME IInv, IInv', DInv, NEW m \in Muxes, expire(m) \/ hearShutdown(m)
  PROVE  DInv'
<1>1. \E s \in mux[m].list : /\ Alive(s) /\ UNCHANGED <<mux, worker, gc, count, app>>
        /\ \/ sock' = [sock EXCEPT ![s].flags = @ \cup {"broken", "closing"}]
           \/ sock' = [sock EXCEPT ![s].flags = @ \cup {"shutdown", "broken", "closing"}]
  BY DEF expire, hearShutdown
<1>2. /\ "onList" \notin {"broken", "closing"} /\ "connected" \notin {"broken", "closing"}
      /\ "onList" \notin {"shutdown", "broken", "closing"}
      /\ "connected" \notin {"shutdown", "broken", "closing"}
  OBVIOUS
<1> QED BY <1>1, <1>2, ListedBreaks

LEMMA OlderDeleted ==
  ASSUME IInv, IInv', DInv, NEW s \in Sockets, Older(s)
  PROVE  DInv'
<1>1. /\ ~Busy(s) /\ sock' = [sock EXCEPT ![s].age = @ + 1]
      /\ UNCHANGED <<mux, worker, gc, count, app>>
  BY DEF Older
<1>2. /\ sock'[s].flags = sock[s].flags /\ sock'[s].where = sock[s].where
      /\ \A u \in Sockets \ {s} : sock'[u] = sock[u]
  BY <1>1 DEF IInv, Types, SockType
<1>3. s = Listener => worker[Listener].pc = "idle"
  BY <1>1 DEF Busy
<1>4. KeepListed /\ KeepTodo /\ KeepRest
  <2>1. \A u \in Sockets : /\ Listable(sock[u]) => Listable(sock'[u])
                           /\ "onList" \notin sock[u].flags => "onList" \notin sock'[u].flags
    BY <1>2 DEF Listable
  <2>2. sock'[Listener].where = sock[Listener].where
    BY <1>2, IdFacts
  <2>3. sock'[Listener] = sock[Listener] \/ worker'[Listener].pc = "idle"
    BY <1>1, <1>2, <1>3, IdFacts
  <2> HIDE DEF Listable
  <2> QED BY <1>1, <2>1, <2>2, <2>3 DEF KeepListed, KeepTodo, KeepRest, Is, AtRest
<1>5. KeepInside
  BY <1>1 DEF KeepInside, Inside
<1>6. TryInv'
  <2>1. ASSUME NEW c \in Clients
        PROVE  Trying(c, app'[c].pc, sock'[c], mux'[c].list \cup mux'[c].entries)
    <3>1. sock'[c].flags = sock[c].flags /\ sock'[c].where = sock[c].where
      BY <1>2, ClientKnown
    <3> QED BY <1>1, <3>1, ClientKnown DEF Trying
  <2> QED BY <2>1 DEF TryInv
<1> QED BY <1>4, <1>5, <1>6, KeepDeleted

\* The collector goes on; no socket changes.
LEMMA CollectorMoves ==
  ASSUME IInv, DInv, NEW h \in Hosts, NEW g \in GcType, gc' = [gc EXCEPT ![h] = g],
         g.todo = gc[h].todo, g.closing = gc[h].closing,
         \A m \in Muxes : /\ mux'[m].list \subseteq mux[m].list
                          /\ mux'[m].entries \subseteq mux[m].entries
                          /\ mux'[m].listener \in {NoSocket, mux[m].listener},
         UNCHANGED <<sock, worker, count, app>>
  PROVE  DInv'
<1>1. gc'[h] = g /\ \A k \in Hosts \ {h} : gc'[k] = gc[k]
  BY GcSet DEF IInv
<1>2. \A k \in Hosts : gc'[k].todo = gc[k].todo /\ gc'[k].closing = gc[k].closing
  BY <1>1
<1>3. KeepListed /\ KeepTodo /\ KeepRest
  BY <1>2, IdFacts DEF KeepListed, KeepTodo, KeepRest, Is
<1>4. gc'["client"].closing => gc["client"].closing
  BY <1>2, HostFacts
<1> QED BY <1>3, <1>4, ServerStep

LEMMA JoinWorkerDeleted ==
  ASSUME IInv, IInv', DInv, NEW h \in Hosts, joinWorker(h)
  PROVE  DInv'
<1>1. PICK m : m = gc[h].join
  OBVIOUS
<1>2. /\ gc[h].pc = "join" /\ mux' = [mux EXCEPT ![m] = NoMux]
      /\ gc' = [gc EXCEPT ![h].pc = "remove", ![h].join = NoSocket]
      /\ UNCHANGED <<sock, worker, count, app>>
  BY <1>1 DEF joinWorker
<1>3. m \in Muxes /\ Types
  BY <1>1, <1>2 DEF IInv, Core, RemovingInv
<1>4. mux'[m] = NoMux /\ \A n \in Muxes \ {m} : mux'[n] = mux[n]
  BY <1>2, <1>3 DEF Types
<1>5. NoMux.list = {} /\ NoMux.entries = {} /\ NoMux.listener = NoSocket
  BY DEF NoMux
<1>6. \A n \in Muxes : /\ mux'[n].list \subseteq mux[n].list
                       /\ mux'[n].entries \subseteq mux[n].entries
                       /\ mux'[n].listener \in {NoSocket, mux[n].listener}
  BY <1>4, <1>5
<1> DEFINE g == [gc[h] EXCEPT !.pc = "remove", !.join = NoSocket]
<1>7. g \in GcType /\ g.todo = gc[h].todo /\ g.closing = gc[h].closing
  BY <1>3 DEF Types, GcType
<1>8. gc' = [gc EXCEPT ![h] = g]
  BY <1>2, <1>3 DEF Types
<1> HIDE DEF g
<1> QED BY <1>2, <1>6, <1>7, <1>8, CollectorMoves

LEMMA EndsDeleted ==
  ASSUME IInv, IInv', DInv, NEW h \in Hosts, endPass(h) \/ endCollector(h)
  PROVE  DInv'
<1>0. Types
  BY DEF IInv
<1>1. \A n \in Muxes : /\ mux'[n].list \subseteq mux[n].list
                       /\ mux'[n].entries \subseteq mux[n].entries
                       /\ mux'[n].listener \in {NoSocket, mux[n].listener}
  BY DEF endPass, endCollector
<1>2. CASE endPass(h)
  <2> DEFINE g == [gc[h] EXCEPT !.pc = "sleep"]
  <2>1. g \in GcType /\ g.todo = gc[h].todo /\ g.closing = gc[h].closing
    BY <1>0 DEF Types, GcType
  <2>2. gc' = [gc EXCEPT ![h] = g] /\ UNCHANGED <<sock, worker, count, app>>
    BY <1>2 DEF endPass
  <2> HIDE DEF g
  <2> QED BY <1>1, <2>1, <2>2, CollectorMoves
<1>3. CASE endCollector(h)
  <2> DEFINE g == [gc[h] EXCEPT !.pc = "off", !.final = FALSE]
  <2>1. g \in GcType /\ g.todo = gc[h].todo /\ g.closing = gc[h].closing
    BY <1>0 DEF Types, GcType
  <2>2. gc' = [gc EXCEPT ![h] = g] /\ UNCHANGED <<sock, worker, count, app>>
    BY <1>0, <1>3 DEF endCollector, Types
  <2> HIDE DEF g
  <2> QED BY <1>1, <2>1, <2>2, CollectorMoves
<1> QED BY <1>2, <1>3

LEMMA CheckBrokenSocketsDeleted ==
  ASSUME IInv, IInv', DInv, NEW h \in Hosts, checkBrokenSockets(h)
  PROVE  DInv'
<1>1. Types /\ Core
  BY DEF IInv
<1>2. PICK S \in SUBSET ToBeClosed(h), D \in {ToBeRemoved(h)} : CollectorPass(h, S)
  BY CollectorPasses
<1>3. /\ sock' = [s \in Sockets |-> IF s \in S THEN InTable(sock[s]) ELSE sock[s]]
      /\ gc' = [gc EXCEPT ![h].pc = "remove", ![h].todo = D]
      /\ UNCHANGED <<mux, worker, count, app>>
  BY <1>2 DEF CollectorPass
<1>4. /\ \A s \in S : s \in Sockets /\ sock[s].where = "sockets" /\ "broken" \in sock[s].flags
      /\ \A s \in D : /\ s \in Sockets /\ sock[s].where = "closed" /\ sock[s].age >= 1
                      /\ "onList" \notin sock[s].flags
  BY <1>2 DEF ToBeClosed, ToBeRemoved, SocketsOf, Is
<1>5. \A s \in S : /\ sock'[s].where = "closed" /\ sock'[s].flags = sock[s].flags
                   /\ sock'[s].age = 0
  BY <1>1, <1>3, <1>4, InTableKeeps DEF Types
<1>6. \A s \in Sockets \ S : sock'[s] = sock[s]
  BY <1>3
<1>7. \A s \in Sockets : /\ Listable(sock[s]) => Listable(sock'[s])
                         /\ sock'[s].flags = sock[s].flags
  BY <1>5, <1>6 DEF Listable
<1>8. KeepListed
  BY <1>3, <1>7 DEF KeepListed
<1>9. KeepRest
  <2>1. AtRest(sock'[Listener]) => sock'[Listener] = sock[Listener]
    <3>1. CASE Listener \in S
      <4>1. sock'[Listener].where = "closed" /\ sock'[Listener].age = 0
        BY <1>5, <3>1
      <4> QED BY <4>1 DEF AtRest
    <3>2. CASE Listener \notin S
      BY <1>6, <3>2, IdFacts
    <3> QED BY <3>1, <3>2
  <2>2. sock'[Listener].where = "deleted" => sock[Listener].where = "deleted"
    BY <1>5, <1>6, IdFacts
  <2> QED BY <1>3, <2>1, <2>2 DEF KeepRest
<1>10. /\ gc'[h].todo = D /\ gc'[h].closing = gc[h].closing
       /\ \A k \in Hosts \ {h} : gc'[k] = gc[k]
  BY <1>1, <1>3 DEF Types, GcType
<1>11. TodoInv'
  <2>1. ASSUME NEW k \in Hosts, NEW s \in gc'[k].todo
        PROVE  /\ "onList" \notin sock'[s].flags
               /\ s = Listener => worker'[Listener].pc = "idle"
    <3>1. CASE k = h
      <4>1. s \in Sockets /\ AtRest(sock[s]) /\ "onList" \notin sock[s].flags
        BY <1>4, <1>10, <2>1, <3>1 DEF AtRest
      <4> QED BY <1>3, <1>7, <4>1 DEF DInv, RestInv
    <3>2. CASE k # h
      <4>1. s \in gc[k].todo /\ s \in Sockets
        BY <1>1, <1>10, <2>1, <3>2 DEF Core, RemovingInv, SocketsOf
      <4>2. "onList" \notin sock[s].flags /\ (s = Listener => worker[Listener].pc = "idle")
        BY <4>1 DEF DInv, TodoInv, Is
      <4> QED BY <1>3, <1>7, <4>1, <4>2
    <3> QED BY <3>1, <3>2
  <2> QED BY <2>1 DEF TodoInv, Is
<1>12. InsideInv'
  <2>1. gc'["client"].closing = gc["client"].closing
    BY <1>10, HostFacts
  <2>2. KeepInside
    BY <1>3, <2>1 DEF KeepInside, Inside
  <2> QED BY <2>2, KeepInsideInv DEF DInv
<1>13. TryInv'
  <2>1. ASSUME NEW c \in Clients
        PROVE  Trying(c, app'[c].pc, sock'[c], mux'[c].list \cup mux'[c].entries)
    <3>1. Trying(c, app[c].pc, sock[c], mux[c].list \cup mux[c].entries) /\ c \in Sockets
      BY ClientKnown
    <3>2. CASE c \in S
      BY <1>3, <1>4, <1>5, <3>1, <3>2 DEF Trying
    <3>3. CASE c \notin S
      BY <1>3, <1>6, <3>1, <3>3
    <3> QED BY <3>2, <3>3
  <2> QED BY <2>1 DEF TryInv
<1> QED BY <1>8, <1>9, <1>11, <1>12, <1>13, KeepListedInv, KeepRestInv DEF DInv, IInv

LEMMA CloseAllDeleted ==
  ASSUME IInv, IInv', DInv, NEW h \in Hosts, closeAll(h)
  PROVE  DInv'
<1>1. Types /\ Core
  BY DEF IInv
<1> DEFINE S == {s \in SocketsOf(h) : sock[s].where = "sockets"}
<1>2. S = {s \in SocketsOf(h) : sock[s].where = "sockets"}
  OBVIOUS
<1>3. /\ gc[h].closing
      /\ sock' = [s \in Sockets |->
           CASE s \in S -> [InTable(Shut(sock[s])) EXCEPT !.age = 1]
             [] s \in SocketsOf(h) /\ sock[s].where = "closed" -> [sock[s] EXCEPT !.age = 1]
             [] OTHER   -> sock[s]]
      /\ mux' = Unheard(S)
      /\ gc' = [gc EXCEPT ![h].final = TRUE]
      /\ UNCHANGED <<worker, count, app>>
  BY DEF closeAll
<1> HIDE DEF S
<1>4. ASSUME NEW s \in S
      PROVE  /\ s \in Sockets /\ HostOf(s) = h /\ sock[s].where = "sockets"
             /\ sock'[s].where = "closed"
             /\ "onList" \in sock'[s].flags <=> "onList" \in sock[s].flags
  <2>1. s \in Sockets /\ HostOf(s) = h /\ sock[s].where = "sockets" /\ sock[s] \in SockType
    BY <1>1, <1>2 DEF Types, SocketsOf
  <2>2. PICK q \in SockType : q = Shut(sock[s]) /\ ("onList" \in q.flags <=> "onList" \in sock[s].flags)
    BY <2>1, ShutKeeps
  <2>3. PICK t \in SockType : t = InTable(q) /\ t.where = "closed" /\ t.flags = q.flags
    BY <2>2, InTableKeeps, InTableDoes
  <2>4. sock'[s] = [t EXCEPT !.age = 1]
    <3>1. sock'[s] = [InTable(Shut(sock[s])) EXCEPT !.age = 1]
      BY <1>3, <2>1
    <3> QED BY <2>2, <2>3, <3>1
  <2> QED BY <2>1, <2>2, <2>3, <2>4 DEF SockType
<1>5. ASSUME NEW s \in Sockets \ S
      PROVE  /\ sock'[s].where = sock[s].where /\ sock'[s].flags = sock[s].flags
             /\ HostOf(s) # h => sock'[s] = sock[s]
  <2>1. sock[s] \in SockType
    BY <1>1 DEF Types
  <2>2. sock'[s] = sock[s] \/ sock'[s] = [sock[s] EXCEPT !.age = 1]
    BY <1>3
  <2>3. HostOf(s) # h => sock'[s] = sock[s]
    BY <1>3 DEF SocketsOf
  <2> QED BY <2>1, <2>2, <2>3 DEF SockType
<1>6. \A s \in Sockets : /\ Listable(sock[s]) => Listable(sock'[s])
                         /\ "onList" \notin sock[s].flags => "onList" \notin sock'[s].flags
                         /\ sock'[s].where = "deleted" => sock[s].where = "deleted"
                         /\ sock'[s].where = "none" => sock'[s].flags = sock[s].flags
                         /\ sock'[s].where = "none" => sock[s].where = "none"
                         /\ HostOf(s) # h => sock'[s] = sock[s]
  BY <1>4, <1>5 DEF Listable
<1>7. \A m \in Muxes : /\ mux'[m].list = mux[m].list /\ mux'[m].entries = mux[m].entries
                       /\ mux'[m].listener \in {NoSocket, mux[m].listener}
  BY <1>1, <1>3, UnheardKeeps
<1>8. /\ gc'[h].closing = gc[h].closing
      /\ \A k \in Hosts : gc'[k].todo = gc[k].todo
      /\ \A k \in Hosts \ {h} : gc'[k] = gc[k]
  <2>1. gc[h] \in GcType /\ gc \in [Hosts -> GcType]
    BY <1>1 DEF Types
  <2> QED BY <1>3, <2>1 DEF GcType
<1>9. KeepListed /\ KeepTodo
  <2> HIDE DEF Listable
  <2> QED BY <1>3, <1>6, <1>7, <1>8 DEF KeepListed, KeepTodo, Is
<1>10. KeepRest
  <2>1. CASE h = "server"
    <3>1. worker[Listener].pc = "idle"
      BY <1>1, <1>3, <2>1 DEF Core, Threaded
    <3>2. sock'[Listener].where = "deleted" => sock[Listener].where = "deleted"
      BY <1>6, IdFacts
    <3>3. \A m \in Muxes : mux'[m].listener = Listener => mux[m].listener = Listener
      BY <1>7, IdFacts
    <3> QED BY <1>3, <3>1, <3>2, <3>3 DEF KeepRest
  <2>2. CASE h # "server"
    <3>1. sock'[Listener] = sock[Listener]
      BY <1>6, <2>2, HostFacts, IdFacts
    <3> QED BY <1>3, <1>7, <3>1, IdFacts DEF KeepRest
  <2> QED BY <2>1, <2>2
<1>11. KeepInside
  <2>1. gc'["client"].closing = gc["client"].closing
    BY <1>8, HostFacts
  <2> QED BY <1>3, <2>1 DEF KeepInside, Inside
<1>12. TryInv'
  <2>1. ASSUME NEW c \in Clients
        PROVE  Trying(c, app'[c].pc, sock'[c], mux'[c].list \cup mux'[c].entries)
    <3>1. Trying(c, app[c].pc, sock[c], mux[c].list \cup mux[c].entries) /\ c \in Sockets
          /\ c \in Muxes
      BY ClientKnown
    <3>2. CASE h = "client"
      <4>1. c \notin Inside
        BY <1>3, <3>2 DEF DInv, InsideInv
      <4>2. app[c].pc \in Outside
        BY <4>1 DEF Inside, Outside
      <4> QED BY <1>3, <1>6, <3>1, <4>2 DEF Trying, Outside
    <3>3. CASE h # "client"
      <4>1. sock'[c] = sock[c]
        BY <1>6, <3>1, <3>3, HostFacts
      <4> QED BY <1>3, <1>7, <3>1, <4>1
    <3> QED BY <3>2, <3>3
  <2> QED BY <2>1 DEF TryInv
<1> QED BY <1>9, <1>10, <1>11, <1>12, KeepDeleted

\* The multiplexers forget a listener that is removed.
LEMMA UnheardListener ==
  ASSUME Types, NEW S, Listener \in S, NEW m \in Muxes
  PROVE  Unheard(S)[m].listener # Listener
<1> DEFINE x == IF mux[m].listener \in S THEN [mux[m] EXCEPT !.listener = NoSocket] ELSE mux[m]
<1>1. mux[m] \in MuxType
  BY DEF Types
<1>2. x \in MuxType /\ x.listener # Listener
  BY <1>1, IdFacts DEF MuxType
<1>3. Unheard(S)[m] \in {x, Forget(x, m)}
  BY DEF Unheard
<1> HIDE DEF x
<1> QED BY <1>2, <1>3, ForgetDoes

LEMMA RemoveSocketDeleted ==
  ASSUME IInv, IInv', DInv, NEW h \in Hosts, removeSocket(h)
  PROVE  DInv'
<1>1. Types /\ Core
  BY DEF IInv
<1> DEFINE u == Lowest(gc[h].todo)
           Q == IF u = Listener THEN queue ELSE {}
           m == sock[u].mux
           x == Unheard(Q \cup {u})
<1>2. u = Lowest(gc[h].todo) /\ Q = (IF u = Listener THEN queue ELSE {}) /\ m = sock[u].mux
  OBVIOUS
<1>0. x = Unheard(Q \cup {u})
  OBVIOUS
<1>3. /\ gc[h].pc = "remove" /\ gc[h].todo # {}
      /\ sock' = [s \in Sockets |->
           CASE s = u   -> [sock[s] EXCEPT !.where = "deleted", !.flags = {}]
             [] s \in Q -> InTable(Shut(sock[s]))
             [] OTHER   -> sock[s]]
      /\ Send(Farewells(Q \cup {u}))
      /\ queue' = queue \ Q
      /\ taken' = IF u = Listener THEN {} ELSE taken
      /\ \/ /\ m = NoSocket /\ mux' = x
            /\ gc' = [gc EXCEPT ![h].todo = @ \ {u}]
         \/ /\ m # NoSocket
            /\ mux' = [x EXCEPT ![m].refs = @ - 1]
            /\ gc' = [gc EXCEPT ![h].todo = @ \ {u},
                        ![h].join = IF mux[m].refs = 1 THEN m ELSE NoSocket,
                        ![h].pc = IF mux[m].refs = 1 THEN "join" ELSE "remove"]
      /\ UNCHANGED <<event, worker, count, app, hs, minute, expired, near>>
  BY DEF removeSocket
<1> HIDE DEF u, Q, m, x
<1>4. gc[h].pc = "remove" /\ gc[h].todo # {}
  BY <1>3
<1>5. UNCHANGED <<worker, count, app>>
  BY <1>3
<1>6. /\ u \in gc[h].todo /\ u \in Sockets /\ sock[u].where = "closed" /\ sock[u] \in SockType
      /\ "onList" \notin sock[u].flags /\ (u = Listener => worker[Listener].pc = "idle")
  <2>1. gc[h].todo \in SUBSET Sockets
    BY <1>1 DEF Types, GcType
  <2>2. u \in gc[h].todo
    BY <1>2, <1>4, <2>1, ExtremeIds
  <2> QED BY <1>1, <2>1, <2>2 DEF Core, RemovingInv, Types, DInv, TodoInv, Is
<1>7. Q \subseteq Accepted /\ Q \subseteq Sockets /\ u \notin Q /\ \A s \in Q : sock[s].where = "sockets"
  <2>1. Q \subseteq queue /\ \A s \in queue : sock[s].where = "sockets"
    BY <1>1, <1>2 DEF Core, WaitingInv
  <2> QED BY <1>1, <1>6, <2>1, IdFacts DEF Types
\* The sockets afterwards.
<1>8. sock'[u].where = "deleted" /\ sock'[u].flags = {}
  <2>1. sock'[u] = [sock[u] EXCEPT !.where = "deleted", !.flags = {}]
    <3>1. sock' = [s \in Sockets |->
             CASE s = u   -> [sock[s] EXCEPT !.where = "deleted", !.flags = {}]
               [] s \in Q -> InTable(Shut(sock[s]))
               [] OTHER   -> sock[s]]
      BY <1>3
    <3> QED BY <1>6, <1>7, <3>1
  <2> QED BY <1>6, <2>1 DEF SockType
<1>9. ASSUME NEW s \in Q
      PROVE  sock'[s].where = "closed" /\ ("onList" \in sock'[s].flags <=> "onList" \in sock[s].flags)
  <2>1. s \in Sockets /\ sock[s] \in SockType /\ s # u
    BY <1>1, <1>7 DEF Types
  <2>2. PICK q \in SockType :
          q = Shut(sock[s]) /\ ("onList" \in q.flags <=> "onList" \in sock[s].flags)
    BY <2>1, ShutKeeps
  <2>3. sock'[s] = InTable(q)
    BY <1>3, <2>1, <2>2
  <2> QED BY <2>2, <2>3, InTableKeeps
<1>10. \A s \in Sockets : s # u /\ s \notin Q => sock'[s] = sock[s]
  BY <1>3
\* The multiplexers afterwards.
<1>11. \A n \in Muxes : /\ mux'[n].list = mux[n].list /\ mux'[n].entries = mux[n].entries
                       /\ mux'[n].listener = x[n].listener
                       /\ x[n].listener \in {NoSocket, mux[n].listener}
  <2>1. /\ x \in [Muxes -> MuxType]
        /\ \A n \in Muxes : /\ x[n].entries = mux[n].entries /\ x[n].list = mux[n].list
                            /\ x[n].listener \in {NoSocket, mux[n].listener}
    BY <1>0, <1>1, UnheardDoes
  <2>2. \A n \in Muxes : /\ mux'[n].list = x[n].list /\ mux'[n].entries = x[n].entries
                         /\ mux'[n].listener = x[n].listener
    <3> DEFINE y == [x[m] EXCEPT !.refs = @ - 1]
    <3>1. mux' = x \/ mux' = [x EXCEPT ![m] = y]
      BY <1>3
    <3>2. m \in Muxes => /\ y.entries = x[m].entries /\ y.list = x[m].list
                         /\ y.listener = x[m].listener
      <4>1. m \in Muxes => x[m] \in MuxType
        BY <2>1
      <4> QED BY <4>1 DEF MuxType
    <3> HIDE DEF y
    <3> QED BY <2>1, <3>1, <3>2
  <2> QED BY <2>1, <2>2
<1>12. u = Listener => \A n \in Muxes : mux'[n].listener # Listener
  BY <1>0, <1>1, <1>11, UnheardListener
\* The collector afterwards.
<1>13. /\ gc'[h].closing = gc[h].closing /\ gc'[h].todo \subseteq gc[h].todo
       /\ \A k \in Hosts \ {h} : gc'[k] = gc[k]
  <2>1. gc[h] \in GcType /\ gc \in [Hosts -> GcType]
    BY <1>1 DEF Types
  <2> DEFINE j == IF mux[m].refs = 1 THEN m ELSE NoSocket
             c == IF mux[m].refs = 1 THEN "join" ELSE "remove"
  <2>2. \/ gc' = [gc EXCEPT ![h].todo = @ \ {u}]
        \/ gc' = [gc EXCEPT ![h].todo = @ \ {u}, ![h].join = j, ![h].pc = c]
    BY <1>3
  <2> HIDE DEF j, c
  <2>3. CASE gc' = [gc EXCEPT ![h].todo = @ \ {u}]
    BY <2>1, <2>3 DEF GcType
  <2>4. CASE gc' = [gc EXCEPT ![h].todo = @ \ {u}, ![h].join = j, ![h].pc = c]
    BY <2>1, <2>4 DEF GcType
  <2> QED BY <2>2, <2>3, <2>4
<1>14. KeepListed
  <2>1. ASSUME NEW s \in Sockets, Listable(sock[s]) PROVE Listable(sock'[s])
    BY <1>6, <1>7, <1>9, <1>10, <2>1 DEF Listable
  <2> HIDE DEF Listable
  <2> QED BY <1>11, <2>1 DEF KeepListed
<1>15. KeepTodo
  <2>1. \A s \in Sockets : sock[s].where = "closed" /\ ~Is(s, "onList")
                             => "onList" \notin sock'[s].flags
    BY <1>7, <1>8, <1>10 DEF Is
  <2>2. \A k \in Hosts : gc'[k].todo \subseteq gc[k].todo
    BY <1>13
  <2> QED BY <1>5, <2>1, <2>2 DEF KeepTodo
<1>16. KeepRest
  <2>1. CASE u = Listener
    <3>1. worker'[Listener].pc = "idle"
      BY <1>5, <1>6, <2>1
    <3> QED BY <1>12, <2>1, <3>1 DEF KeepRest
  <2>2. CASE u # Listener
    <3>1. sock'[Listener] = sock[Listener]
      BY <1>7, <1>10, <2>2, IdFacts
    <3>2. \A n \in Muxes : mux'[n].listener = Listener => mux[n].listener = Listener
      BY <1>11, IdFacts
    <3> QED BY <1>5, <3>1, <3>2 DEF KeepRest
  <2> QED BY <2>1, <2>2
<1>17. KeepInside
  <2>1. gc'["client"].closing = gc["client"].closing
    BY <1>13, HostFacts
  <2> QED BY <1>5, <2>1 DEF KeepInside, Inside
<1>18. TryInv'
  <2>1. ASSUME NEW c \in Clients
        PROVE  Trying(c, app'[c].pc, sock'[c], mux'[c].list \cup mux'[c].entries)
    <3>1. /\ Trying(c, app[c].pc, sock[c], mux[c].list \cup mux[c].entries)
          /\ c \in Sockets /\ c \in Muxes /\ c \notin Q
          /\ c \in mux[c].list \cup mux[c].entries => Listable(sock[c])
      BY <1>7, ClientKnown, IdFacts
    <3>2. CASE c = u
      <4>1. c \notin mux[c].list \cup mux[c].entries
        BY <1>6, <3>1, <3>2 DEF Listable
      <4> QED BY <1>5, <1>6, <1>8, <1>11, <3>1, <3>2, <4>1 DEF Trying
    <3>3. CASE c # u
      <4>1. sock'[c] = sock[c]
        BY <1>10, <3>1, <3>3
      <4> QED BY <1>5, <1>11, <3>1, <4>1
    <3> QED BY <3>2, <3>3
  <2> QED BY <2>1 DEF TryInv
<1> QED BY <1>14, <1>15, <1>16, <1>17, <1>18, KeepDeleted

LEMMA InitiallyDeleted ==
  ASSUME Init
  PROVE  DInv
<1>1. /\ sock = [s \in Sockets |-> NewSock]
      /\ mux = [m \in Muxes |-> NoMux]
      /\ worker = [m \in Muxes |-> Idle]
      /\ gc = [h \in Hosts |-> [pc |-> "off", todo |-> {}, join |-> NoSocket,
                                closing |-> FALSE, final |-> FALSE]]
      /\ count = [h \in Hosts |-> 0]
      /\ app = [t \in Threads |-> [pc |-> "out", sock |-> NoSocket, result |-> "none"]]
  BY DEF Init
<1>2. /\ \A s \in Sockets : sock[s].where = "none" /\ sock[s].flags = {}
      /\ \A m \in Muxes : mux[m].list = {} /\ mux[m].entries = {} /\ mux[m].listener = NoSocket
  BY <1>1 DEF NewSock, NoMux
<1>3. /\ \A h \in Hosts : gc[h].todo = {} /\ ~gc[h].closing
      /\ \A c \in Clients : app[c].pc = "out"
      /\ count["client"] = 0
  BY <1>1, IdFacts, HostFacts
<1>4. ListedInv /\ TodoInv
  BY <1>2, <1>3, IdFacts DEF ListedInv, TodoInv
<1>5. RestInv
  BY <1>2, IdFacts DEF RestInv, AtRest
<1>6. TryInv
  BY <1>2, <1>3, IdFacts DEF TryInv, Trying
<1>7. InsideInv
  <2>1. Inside = {}
    BY <1>3 DEF Inside
  <2> QED BY <1>3, <2>1, FS_EmptySet, HostFacts DEF InsideInv
<1> QED BY <1>4, <1>5, <1>6, <1>7 DEF DInv

LEMMA InductiveDeleted ==
  ASSUME IInv, DInv, ~late', [Next]_vars
  PROVE  DInv'
<1>0. IInv'
  BY Inductive
<1>1. CASE AppStep
  BY <1>0, <1>1, StartupDeleted, CleanupDeleted, LeftDeleted, NewSocketDeleted, CloseDeleted,
     ClosedDeleted, BindDeleted, ListenDeleted, CalmSteps, ConnectDeleted, ConnectTimeoutDeleted,
     ConnectResponseDeleted DEF AppStep
<1>2. CASE WorkerStep
  BY <1>0, <1>2, ListenRequestDeleted, LocateRequestDeleted, CreateConnectionDeleted,
     InsertConnectionDeleted, QueueConnectionDeleted, TakeEntriesDeleted, DropEndedDeleted,
     BreaksDeleted, StorePktDeleted, CalmSteps, GiveUpDeleted DEF WorkerStep
<1>3. CASE CollectorStep
  BY <1>0, <1>3, CheckBrokenSocketsDeleted, RemoveSocketDeleted, JoinWorkerDeleted, EndsDeleted,
     CloseAllDeleted DEF CollectorStep
<1>4. CASE Clock
  BY <1>0, <1>4, CalmSteps, OlderDeleted DEF Clock
<1>5. CASE closeListener
  BY <1>0, <1>5, CloseListenerDeleted
<1>6. CASE Faults
  BY <1>0, <1>6, CalmSteps, BreaksDeleted DEF Faults
<1>7. CASE Over \/ UNCHANGED vars
  BY <1>7, CalmSteps DEF Over
<1> QED BY <1>1, <1>2, <1>3, <1>4, <1>5, <1>6, <1>7 DEF Next

(* A socket whose object the collector has deleted is on no receive list,  *)
(* about to join none, and nobody's listener, and the receiver thread      *)
(* serves no request for it any more (checkBrokenSockets waits a second    *)
(* and for m_bOnList, removeSocket tells the multiplexers), until a        *)
(* connection is asked for too late.                                       *)
THEOREM DeletedAreForgotten == Spec => [](late \/ DeletedIsForgotten)
<1> DEFINE J == late \in BOOLEAN /\ (late \/ (IInv /\ DInv))
<1>1. Init => J
  BY Initially, InitiallyDeleted DEF Init
<1>2. J /\ [Next]_vars => J'
  BY Inductive, InductiveDeleted, LateStays
<1>3. J => late \/ DeletedIsForgotten
  <2> SUFFICES ASSUME IInv, DInv, NEW s \in Sockets, sock[s].where = "deleted"
               PROVE  /\ \A m \in Muxes : s \notin mux[m].list \cup mux[m].entries
                                                     \cup {mux[m].listener}
                      /\ s = Listener => worker[Listener].pc = "idle"
    BY DEF DeletedIsForgotten
  <2>1. \A m \in Muxes : s \notin mux[m].list \cup mux[m].entries
    BY DEF DInv, ListedInv, Listable
  <2>2. \A m \in Muxes : mux[m].listener \in {NoSocket, Listener}
    BY DEF IInv, Types, MuxType
  <2>3. \A m \in Muxes : s # mux[m].listener
    BY <2>2, IdFacts DEF DInv, RestInv
  <2> QED BY <2>1, <2>3 DEF DInv, RestInv, AtRest
<1> HIDE DEF J
<1> QED BY <1>1, <1>2, <1>3, PTL DEF Spec

-----------------------------------------------------------------------------
(***************************************************************************)
(* Peers.  Where both hosts are followed, a response that announces a      *)
(* connection names a socket that the listening host has made for that     *)
(* very attempt, and such a socket keeps its peer and its number for ever. *)
(* A client takes its peer from such a response only.                      *)
(***************************************************************************)
MadeFor(s, c, i) ==
  s \in Accepted /\ sock[s].where # "none" /\ sock[s].peer = c /\ sock[s].isn = i

AnswersInv ==
  \A p \in net \cap ResponseType : p.type = -1 => MadeFor(p.id, p.to, p.isn)

StoredInv ==
  \A c \in Clients : \A i \in DOMAIN mux[c].store :
    mux[c].store[i] \in net /\ mux[c].store[i].to = c

PairedInv ==
  \A c \in Clients :
    app[c].pc = "connected" /\ Is(c, "connected") => MadeFor(sock[c].peer, c, hs[c].isn)

PeerInv == AnswersInv /\ StoredInv /\ PairedInv

\* What most steps do to a socket: it stays the one it was, and is not connected.
Later(r, q) ==
  /\ q.peer = r.peer /\ q.isn = r.isn
  /\ q.where = "none" => r.where = "none"
  /\ "connected" \in q.flags => "connected" \in r.flags

SocketsLater == \A s \in Sockets : Later(sock[s], sock'[s])

\* Every announcement is an old one, or names a socket that is there.
AnswersKept ==
  \A p \in net' \cap ResponseType : p.type = -1 => p \in net \/ MadeFor(p.id, p.to, p.isn)

StoresKept == net \subseteq net' /\ \A c \in Clients : mux'[c].store \in {mux[c].store, <<>>}

\* Nobody returns from connect.
Settled ==
  \A c \in Clients : app'[c].pc = "connected" => app[c].pc = "connected" /\ hs'[c].isn = hs[c].isn

LEMMA KeepStored ==
  ASSUME StoredInv, StoresKept
  PROVE  StoredInv'
<1>1. ASSUME NEW c \in Clients, NEW i \in DOMAIN mux'[c].store
      PROVE  mux'[c].store[i] \in net' /\ mux'[c].store[i].to = c
  <2>1. mux'[c].store = mux[c].store
    BY <1>1 DEF StoresKept
  <2> QED BY <1>1, <2>1 DEF StoredInv, StoresKept
<1> QED BY <1>1 DEF StoredInv

LEMMA KeepPeers ==
  ASSUME PeerInv, SocketsLater, AnswersKept, Settled, StoredInv'
  PROVE  PeerInv'
<1>1. ASSUME NEW s, NEW c, NEW i, MadeFor(s, c, i)
      PROVE  /\ s \in Accepted /\ sock'[s].where # "none"
             /\ sock'[s].peer = c /\ sock'[s].isn = i
  BY <1>1, IdFacts DEF MadeFor, SocketsLater, Later
<1>2. AnswersInv'
  <2>1. ASSUME NEW p \in net' \cap ResponseType, p.type = -1
        PROVE  MadeFor(p.id, p.to, p.isn)
    BY <2>1 DEF PeerInv, AnswersInv, AnswersKept
  <2> QED BY <1>1, <2>1 DEF AnswersInv, MadeFor
<1>3. PairedInv'
  <2>1. ASSUME NEW c \in Clients, app'[c].pc = "connected", "connected" \in sock'[c].flags
        PROVE  /\ MadeFor(sock[c].peer, c, hs[c].isn) /\ sock'[c].peer = sock[c].peer
               /\ hs'[c].isn = hs[c].isn
    <3>1. app[c].pc = "connected" /\ hs'[c].isn = hs[c].isn
      BY <2>1 DEF Settled
    <3>2. Later(sock[c], sock'[c])
      BY IdFacts DEF SocketsLater
    <3> QED BY <2>1, <3>1, <3>2 DEF PeerInv, PairedInv, Later, Is
  <2> QED BY <1>1, <2>1 DEF PairedInv, MadeFor, Is
<1> QED BY <1>2, <1>3 DEF PeerInv

\* What a step sends that announces nothing.
LEMMA SendKept ==
  ASSUME NEW P, Send(P), \A p \in P : p \notin ResponseType \/ p.type # -1
  PROVE  AnswersKept /\ net \subseteq net'
  BY DEF Send, AnswersKept

LEMMA NothingSent ==
  ASSUME net' = net
  PROVE  AnswersKept /\ net \subseteq net'
  BY DEF AnswersKept

LEMMA RequestKept ==
  ASSUME NEW c, NEW r, Send({Request(c, r)})
  PROVE  AnswersKept /\ net \subseteq net'
<1>1. Request(c, r) \notin ResponseType
  BY DEF Request, ResponseType
<1> QED BY <1>1, SendKept

LEMMA FarewellsKept ==
  ASSUME NEW S, Send(Farewells(S))
  PROVE  AnswersKept /\ net \subseteq net'
<1>1. \A p \in Farewells(S) : p \notin ResponseType
  BY DEF Farewells, Shutdown, ResponseType
<1> QED BY <1>1, SendKept

\* Nobody's thread moves.
LEMMA SettledSame ==
  ASSUME UNCHANGED <<app, hs>>
  PROVE  Settled
  BY DEF Settled

LEMMA SettledGoto ==
  ASSUME Types, NEW t \in Threads, NEW pc \in AppPcs, pc # "connected", Goto(t, pc), UNCHANGED hs
  PROVE  Settled
<1>1. app'[t].pc = pc /\ \A u \in Threads \ {t} : app'[u] = app[u]
  BY GotoDoes
<1> QED BY <1>1, IdFacts DEF Settled

LEMMA SameLater ==
  ASSUME sock' = sock
  PROVE  SocketsLater
  BY DEF SocketsLater, Later

LEMMA OneLater ==
  ASSUME Types, NEW s \in Sockets, NEW q, sock' = [sock EXCEPT ![s] = q], Later(sock[s], q)
  PROVE  SocketsLater
<1>1. \A t \in Sockets \ {s} : Later(sock[t], sock[t])
  BY DEF Later
<1>2. sock'[s] = q /\ \A t \in Sockets \ {s} : sock'[t] = sock[t]
  BY DEF Types
<1> HIDE DEF Later
<1> QED BY <1>1, <1>2 DEF SocketsLater

\* Closing disconnects.
LEMMA ClosingLater ==
  ASSUME NEW r \in SockType
  PROVE  /\ Later(r, Ended(r)) /\ Later(r, InTable(r)) /\ Later(r, InTable(Shut(r)))
         /\ Later(r, [InTable(Shut(r)) EXCEPT !.age = 1])
<1>1. ASSUME NEW q \in SockType
      PROVE  /\ "connected" \in Ended(q).flags => "connected" \in q.flags
             /\ "connected" \in Shut(q).flags => "connected" \in q.flags
             /\ InTable(q).flags = q.flags
  <2>1. "connected" \in Ended(q).flags => "connected" \in q.flags
    BY DEF Ended, SockType
  <2>2. "connected" \in Shut(q).flags => "connected" \in q.flags
    <3> DEFINE b == [q EXCEPT !.flags = @ \cup {"broken"}]
    <3>1. b.flags = q.flags \cup {"broken"} /\ b \in SockType
      <4>1. q.flags \cup {"broken"} \in SUBSET Flags
        BY DEF SockType, Flags
      <4> QED BY <4>1 DEF SockType
    <3>2. Shut(q) = Ended(b)
      BY DEF Shut
    <3> HIDE DEF b
    <3>3. "connected" \in Ended(b).flags => "connected" \in b.flags
      BY <3>1 DEF Ended, SockType
    <3> QED BY <3>1, <3>2, <3>3
  <2>3. InTable(q).flags = q.flags
    BY InTableKeeps
  <2> QED BY <2>1, <2>2, <2>3
<1>2. Later(r, Ended(r))
  BY <1>1, EndedDoes DEF Closing, Later
<1>3. Later(r, InTable(r))
  BY InTableDoes DEF Later
<1>4. PICK q \in SockType : q = Shut(r) /\ q.peer = r.peer /\ q.isn = r.isn
                            /\ ("connected" \in q.flags => "connected" \in r.flags)
  BY <1>1, EndedDoes DEF Closing
<1>5. PICK t \in SockType : t = InTable(q) /\ t.peer = r.peer /\ t.isn = r.isn
                            /\ t.where = "closed" /\ t.flags = q.flags
  BY <1>4, InTableDoes
<1>6. Later(r, t) /\ Later(r, [t EXCEPT !.age = 1])
  BY <1>4, <1>5 DEF Later, SockType
<1> QED BY <1>2, <1>3, <1>4, <1>5, <1>6

\* Steps that change no socket, and nobody returns from connect.
LEMMA StartupPeers ==
  ASSUME IInv, PeerInv, NEW t \in Threads, startup(t) \/ cleanup(t) \/ Left(t)
  PROVE  PeerInv'
<1>1. UNCHANGED <<sock, mux, hs, net>>
  BY DEF startup, cleanup, Left
<1>2. \E pc \in {"ready", "leaving", "over"} : Goto(t, pc)
  BY DEF startup, cleanup, Left
<1>3. Settled
  BY <1>1, <1>2, SettledGoto DEF AppPcs, IInv
<1>4. StoresKept /\ SocketsLater /\ AnswersKept
  BY <1>1, NothingSent, SameLater DEF StoresKept
<1> QED BY <1>3, <1>4, KeepStored, KeepPeers DEF PeerInv

LEMMA CalmPeers ==
  ASSUME PeerInv, UNCHANGED <<sock, app, hs>>, StoresKept, AnswersKept
  PROVE  PeerInv'
  BY SettledSame, SameLater, KeepStored, KeepPeers DEF PeerInv

LEMMA AcceptPeers ==
  ASSUME IInv, PeerInv, accept \/ acceptLook \/ acceptWoken
  PROVE  PeerInv'
<1>1. UNCHANGED <<sock, mux, hs, net>>
  BY DEF accept, acceptLook, acceptWoken
<1>2. Settled
  <2>1. \/ \E pc \in {"look", "over", "wait"} : Goto(Accepter, pc)
        \/ \E u : app' = [app EXCEPT ![Accepter].pc = "serving", ![Accepter].sock = u]
    BY DEF accept, acceptLook, acceptWoken
  <2>2. CASE \E pc \in {"look", "over", "wait"} : Goto(Accepter, pc)
    BY <1>1, <2>2, SettledGoto, IdFacts DEF AppPcs, IInv
  <2>3. CASE \E u : app' = [app EXCEPT ![Accepter].pc = "serving", ![Accepter].sock = u]
    <3>1. \A c \in Clients : app'[c] = app[c]
      BY <2>3, IdFacts DEF IInv, Types
    <3> QED BY <1>1, <3>1 DEF Settled
  <2> QED BY <2>1, <2>2, <2>3
<1>3. StoresKept /\ SocketsLater /\ AnswersKept
  BY <1>1, NothingSent, SameLater DEF StoresKept
<1> QED BY <1>2, <1>3, KeepStored, KeepPeers DEF PeerInv

LEMMA QuietPeers ==
  ASSUME IInv, PeerInv,
         \/ queueConnection \/ NewMinute \/ UNCHANGED vars
         \/ (\E c \in Clients : ThreeSeconds(c))
         \/ (\E h \in Hosts : endPass(h) \/ endCollector(h))
  PROVE  PeerInv'
<1>1. UNCHANGED <<sock, app, mux, hs, net>>
  BY DEF queueConnection, NewMinute, vars, ThreeSeconds, endPass, endCollector
<1>2. StoresKept /\ AnswersKept
  BY <1>1, NothingSent DEF StoresKept
<1> QED BY <1>1, <1>2, CalmPeers

LEMMA TakeEntriesPeers ==
  ASSUME IInv, PeerInv, NEW m \in Muxes, takeEntries(m)
  PROVE  PeerInv'
<1>1. /\ mux' = [mux EXCEPT ![m].list = @ \cup mux[m].entries, ![m].entries = {}]
      /\ UNCHANGED <<sock, app, hs, net>>
  BY DEF takeEntries
<1>2. \A n \in Muxes : mux'[n].store = mux[n].store
  BY <1>1 DEF IInv, Types, MuxType
<1>3. StoresKept /\ AnswersKept
  BY <1>1, <1>2, NothingSent DEF StoresKept, Muxes
<1> QED BY <1>1, <1>3, CalmPeers

LEMMA JoinWorkerPeers ==
  ASSUME IInv, PeerInv, NEW h \in Hosts, joinWorker(h)
  PROVE  PeerInv'
<1>1. /\ mux' = [mux EXCEPT ![gc[h].join] = NoMux]
      /\ UNCHANGED <<sock, app, hs, net>>
  BY DEF joinWorker
<1>2. \A n \in Muxes : mux'[n].store \in {mux[n].store, <<>>}
  <2>1. \A n \in Muxes : mux'[n] \in {mux[n], NoMux}
    BY <1>1 DEF IInv, Types
  <2>2. NoMux.store = <<>>
    BY DEF NoMux
  <2> QED BY <2>1, <2>2
<1>3. StoresKept /\ AnswersKept
  BY <1>1, <1>2, NothingSent DEF StoresKept, Muxes
<1> QED BY <1>1, <1>3, CalmPeers

LEMMA ResendPeers ==
  ASSUME PeerInv, NEW c \in Clients, Resend(c)
  PROVE  PeerInv'
<1>1. Send({Request(c, hs[c])}) /\ UNCHANGED <<sock, app, mux, hs>>
  BY DEF Resend
<1>2. StoresKept /\ AnswersKept
  BY <1>1, RequestKept DEF StoresKept
<1> QED BY <1>1, <1>2, CalmPeers

\* The listening host answers.
LEMMA ListenRequestPeers ==
  ASSUME IInv, PeerInv, listenRequest
  PROVE  PeerInv'
<1>1. UNCHANGED <<sock, app, mux, hs>>
  BY DEF listenRequest
<1>2. \/ net' = net
      \/ \E p \in Requests : Send({Response(p.from, p.isn, 1, p.from)})
  BY DEF listenRequest, Answer
<1>3. AnswersKept /\ net \subseteq net'
  <2>1. ASSUME NEW p PROVE Response(p.from, p.isn, 1, p.from).type # -1
    BY DEF Response
  <2> QED BY <1>2, <2>1, NothingSent, SendKept
<1>4. StoresKept
  BY <1>1, <1>3 DEF StoresKept
<1> QED BY <1>1, <1>3, <1>4, CalmPeers

LEMMA StorePktPeers ==
  ASSUME IInv, PeerInv, near = Hosts, NEW c \in Clients, storePkt(c)
  PROVE  PeerInv'
<1>1. UNCHANGED <<sock, app, hs, net>>
  BY DEF storePkt
<1>2. PICK p \in net : mux' = [mux EXCEPT ![c].store = Append(@, p)] /\ p.to = c
  <2>1. Responses(c) = {p \in net : p.kind = "response" /\ p.to = c}
    BY DEF Responses, Hosts
  <2>2. \E p \in Responses(c) : mux' = [mux EXCEPT ![c].store = Append(@, p)]
    BY DEF storePkt
  <2> QED BY <2>1, <2>2
<1>3. mux[c].store \in Seq(ResponseType) /\ c \in Muxes /\ mux[c] \in MuxType /\ Types
  BY DEF IInv, Types, MuxType, Muxes
<1>4. /\ mux'[c].store = Append(mux[c].store, p)
      /\ \A n \in Muxes \ {c} : mux'[n] = mux[n]
  BY <1>2, <1>3 DEF Types, MuxType
<1>5. StoredInv'
  <2>1. ASSUME NEW d \in Clients, NEW i \in DOMAIN mux'[d].store
        PROVE  mux'[d].store[i] \in net' /\ mux'[d].store[i].to = d
    <3>1. CASE d = c
      <4> DEFINE q == mux[c].store
      <4>1. DOMAIN Append(q, p) = DOMAIN q \cup {Len(q) + 1}
            /\ Append(q, p)[Len(q) + 1] = p
            /\ \A k \in DOMAIN q : Append(q, p)[k] = q[k]
        <5>1. q \in Seq(ResponseType)
          BY <1>3
        <5> HIDE DEF q
        <5> QED BY <5>1
      <4> QED BY <1>1, <1>2, <1>4, <2>1, <3>1, <4>1 DEF PeerInv, StoredInv
    <3>2. CASE d # c
      BY <1>1, <1>4, <2>1, <3>2 DEF PeerInv, StoredInv, Muxes
    <3> QED BY <3>1, <3>2
  <2> QED BY <2>1 DEF StoredInv
<1> QED BY <1>1, <1>5, NothingSent, SettledSame, SameLater, KeepPeers

\* Steps on sockets.
LEMMA NewSocketPeers ==
  ASSUME IInv, PeerInv, NEW t \in Threads, newSocket(t)
  PROVE  PeerInv'
<1>1. PICK s : s = IF t = Main THEN Listener ELSE t
  OBVIOUS
<1>2. /\ t # Accepter /\ sock' = [sock EXCEPT ![s].where = "sockets"]
      /\ Goto(t, "socket") /\ UNCHANGED <<mux, hs, net>>
  BY <1>1 DEF newSocket
<1>3. s \in Sockets /\ Types
  BY <1>1, <1>2, IdFacts DEF Threads, Accepter, Main, IInv
<1>4. SocketsLater
  <2> DEFINE q == [sock[s] EXCEPT !.where = "sockets"]
  <2>1. Later(sock[s], q)
    BY <1>3 DEF Later, Types, SockType
  <2>2. sock' = [sock EXCEPT ![s] = q]
    BY <1>2, <1>3 DEF Types
  <2> HIDE DEF q
  <2> QED BY <1>3, <2>1, <2>2, OneLater
<1>5. Settled
  BY <1>2, <1>3, SettledGoto DEF AppPcs
<1>6. StoresKept /\ AnswersKept
  BY <1>2, NothingSent DEF StoresKept
<1> QED BY <1>4, <1>5, <1>6, KeepStored, KeepPeers DEF PeerInv

LEMMA BindPeers ==
  ASSUME IInv, PeerInv, bind
  PROVE  PeerInv'
<1>1. /\ sock[Listener].where = "sockets"
      /\ sock' = [sock EXCEPT ![Listener].status = "OPENED", ![Listener].mux = Listener,
                              ![Listener].flags = {"opened"}]
      /\ mux' = OwnMux(Listener) /\ UNCHANGED <<app, hs, net>>
  BY DEF bind, Located
<1>2. Types /\ Listener \in Sockets /\ sock[Listener] \in SockType
  BY IdFacts DEF IInv, Types
<1>3. SocketsLater
  <2> DEFINE q == [sock[Listener] EXCEPT !.status = "OPENED", !.mux = Listener,
                                         !.flags = {"opened"}]
  <2>1. Later(sock[Listener], q)
    BY <1>1, <1>2 DEF Later, SockType
  <2>2. sock' = [sock EXCEPT ![Listener] = q]
    BY <1>1, <1>2 DEF Types
  <2> HIDE DEF q
  <2> QED BY <1>2, <2>1, <2>2, OneLater
<1>4. \A c \in Clients : mux'[c].store = mux[c].store
  BY <1>1, IdFacts DEF OwnMux, IInv, Types, Muxes
<1>5. StoresKept /\ AnswersKept
  BY <1>1, <1>4, NothingSent DEF StoresKept
<1> QED BY <1>1, <1>3, <1>5, SettledSame, KeepStored, KeepPeers DEF PeerInv

LEMMA ListenPeers ==
  ASSUME IInv, PeerInv, listen
  PROVE  PeerInv'
<1>1. /\ sock[Listener].where = "sockets"
      /\ mux' = [mux EXCEPT ![Listener].listener = Listener]
      /\ sock' = [sock EXCEPT ![Listener].status = "LISTENING",
                              ![Listener].flags = @ \cup {"listening"}]
      /\ app' = [app EXCEPT ![Main].pc = "listening", ![Accepter].pc = "ready"]
      /\ UNCHANGED <<hs, net>>
  BY DEF listen, Located
<1>2. Types /\ Listener \in Sockets /\ sock[Listener] \in SockType
  BY IdFacts DEF IInv, Types
<1>3. SocketsLater
  <2> DEFINE q == [sock[Listener] EXCEPT !.status = "LISTENING", !.flags = @ \cup {"listening"}]
  <2>1. Later(sock[Listener], q)
    BY <1>1, <1>2 DEF Later, SockType
  <2>2. sock' = [sock EXCEPT ![Listener] = q]
    BY <1>1, <1>2 DEF Types
  <2> HIDE DEF q
  <2> QED BY <1>2, <2>1, <2>2, OneLater
<1>4. \A c \in Clients : mux'[c].store = mux[c].store /\ app'[c] = app[c]
  BY <1>1, IdFacts DEF IInv, Types, Muxes
<1>5. StoresKept /\ AnswersKept /\ Settled
  BY <1>1, <1>4, NothingSent DEF StoresKept, Settled
<1> QED BY <1>3, <1>5, KeepStored, KeepPeers DEF PeerInv

LEMMA ClosedPeers ==
  ASSUME IInv, PeerInv, NEW t \in Threads, closed(t)
  PROVE  PeerInv'
<1>1. PICK s : s = Held(t)
  OBVIOUS
<1>2. /\ app[t].pc = "closing"
      /\ sock' = IF Located(s) THEN [sock EXCEPT ![s] = InTable(@)] ELSE sock
      /\ app' = [app EXCEPT ![t].pc = AfterClose(t), ![t].sock = NoSocket]
      /\ UNCHANGED <<mux, hs, net>>
  BY <1>1 DEF closed
<1>3. t # Main /\ Types
  BY <1>2 DEF IInv, AppInv
<1>4. s \in Sockets
  BY <1>1, <1>2, <1>3, HeldDoes
<1>5. SocketsLater
  <2>1. CASE Located(s)
    <3>1. sock' = [sock EXCEPT ![s] = InTable(sock[s])] /\ Later(sock[s], InTable(sock[s]))
      BY <1>2, <1>3, <1>4, <2>1, ClosingLater DEF Types
    <3> QED BY <1>3, <1>4, <3>1, OneLater
  <2>2. CASE ~Located(s)
    BY <1>2, <2>2, SameLater
  <2> QED BY <2>1, <2>2
<1>6. Settled
  <2>1. app'[t].pc = AfterClose(t) /\ \A u \in Threads \ {t} : app'[u] = app[u]
    BY <1>2, <1>3 DEF Types, AppType
  <2>2. AfterClose(t) # "connected"
    BY DEF AfterClose
  <2> QED BY <1>2, <2>1, <2>2, IdFacts DEF Settled
<1>7. StoresKept /\ AnswersKept
  BY <1>2, NothingSent DEF StoresKept
<1> QED BY <1>5, <1>6, <1>7, KeepStored, KeepPeers DEF PeerInv

\* One socket's flags or age change, and nobody notices.
LEMMA OnePeers ==
  ASSUME IInv, PeerInv, UNCHANGED <<app, hs, net>>,
         \A c \in Clients : mux'[c].store = mux[c].store,
         NEW s \in Sockets, NEW q, sock' = [sock EXCEPT ![s] = q], Later(sock[s], q)
  PROVE  PeerInv'
<1>1. SocketsLater
  BY OneLater DEF IInv
<1>2. StoresKept /\ AnswersKept
  BY NothingSent DEF StoresKept
<1> QED BY <1>1, <1>2, SettledSame, KeepStored, KeepPeers DEF PeerInv

LEMMA FlagsLater ==
  ASSUME Types, NEW s \in Sockets
  PROVE  /\ \A F : "connected" \notin F =>
               Later(sock[s], [sock[s] EXCEPT !.flags = @ \cup F])
         /\ \A F : Later(sock[s], [sock[s] EXCEPT !.flags = @ \ F])
         /\ \A a : Later(sock[s], [sock[s] EXCEPT !.age = a])
         /\ Later(sock[s], [sock[s] EXCEPT !.where = "sockets"])
         /\ Later(sock[s], [sock[s] EXCEPT !.status = "CLOSED", !.age = 0])
<1>1. sock[s] \in SockType
  BY DEF Types
<1> QED BY <1>1 DEF Later, SockType

LEMMA FlagsPeers ==
  ASSUME IInv, PeerInv,
         \/ \E c \in Clients : GiveUp(c)
         \/ \E m \in Muxes : dropEnded(m) \/ hearShutdown(m) \/ expire(m)
         \/ \E s \in Sockets : Older(s)
  PROVE  PeerInv'
<1>1. Types /\ \A m \in Muxes : mux[m].list \subseteq Sockets
  BY DEF IInv, Types, MuxType
<1>2. UNCHANGED <<app, hs, net>>
  BY DEF GiveUp, dropEnded, hearShutdown, expire, Older
<1>3. ASSUME NEW c \in Clients, GiveUp(c) PROVE PeerInv'
  <2>1. sock' = [sock EXCEPT ![c] = [sock[c] EXCEPT !.flags = @ \ {"connecting"}]]
        /\ mux' = mux /\ c \in Sockets
    BY <1>1, <1>3, IdFacts DEF GiveUp, Types
  <2>2. Later(sock[c], [sock[c] EXCEPT !.flags = @ \ {"connecting"}])
    BY <1>1, <2>1, FlagsLater
  <2> QED BY <1>2, <2>1, <2>2, OnePeers
<1>4. ASSUME NEW m \in Muxes, dropEnded(m) PROVE PeerInv'
  <2>1. PICK s \in mux[m].list : /\ mux' = [mux EXCEPT ![m].list = @ \ {s}]
                                 /\ sock' = [sock EXCEPT ![s] = OffList(@)]
    BY <1>4 DEF dropEnded
  <2>2. s \in Sockets /\ sock' = [sock EXCEPT ![s] = [sock[s] EXCEPT !.flags = @ \ {"onList"}]]
    BY <1>1, <2>1 DEF OffList, Types
  <2>3. Later(sock[s], [sock[s] EXCEPT !.flags = @ \ {"onList"}])
    BY <1>1, <2>2, FlagsLater
  <2>4. \A c \in Clients : mux'[c].store = mux[c].store
    BY <1>1, <2>1 DEF Types, MuxType, Muxes
  <2> QED BY <1>2, <2>2, <2>3, <2>4, OnePeers
<1>5. ASSUME NEW m \in Muxes, hearShutdown(m) \/ expire(m) PROVE PeerInv'
  <2>1. PICK s \in mux[m].list :
          /\ mux' = mux
          /\ \E F \in {{"broken", "closing"}, {"shutdown", "broken", "closing"}} :
               sock' = [sock EXCEPT ![s].flags = @ \cup F]
    BY <1>5 DEF hearShutdown, expire
  <2>2. PICK F \in {{"broken", "closing"}, {"shutdown", "broken", "closing"}} :
          sock' = [sock EXCEPT ![s].flags = @ \cup F]
    BY <2>1
  <2>3. s \in Sockets /\ sock' = [sock EXCEPT ![s] = [sock[s] EXCEPT !.flags = @ \cup F]]
    BY <1>1, <2>2 DEF Types
  <2>4. Later(sock[s], [sock[s] EXCEPT !.flags = @ \cup F])
    <3>1. "connected" \notin F
      OBVIOUS
    <3> QED BY <1>1, <2>3, <3>1, FlagsLater
  <2> QED BY <1>2, <2>1, <2>3, <2>4, OnePeers
<1>6. ASSUME NEW s \in Sockets, Older(s) PROVE PeerInv'
  <2>1. sock' = [sock EXCEPT ![s] = [sock[s] EXCEPT !.age = sock[s].age + 1]] /\ mux' = mux
    BY <1>1, <1>6 DEF Older, Types
  <2>2. Later(sock[s], [sock[s] EXCEPT !.age = sock[s].age + 1])
    BY <1>1, FlagsLater
  <2> QED BY <1>2, <2>1, <2>2, OnePeers
<1> QED BY <1>3, <1>4, <1>5, <1>6

LEMMA InsertConnectionPeers ==
  ASSUME IInv, PeerInv, insertConnection
  PROVE  PeerInv'
<1>1. PICK s : s = worker[Listener].new
  OBVIOUS
<1>2. /\ worker[Listener].pc = "insert" /\ sock' = [sock EXCEPT ![s].where = "sockets"]
      /\ UNCHANGED <<mux, app, hs, net>>
  BY <1>1 DEF insertConnection
<1>3. s \in Sockets /\ Types
  BY <1>1, <1>2, IdFacts DEF IInv, Core, MakingInv
<1>4. sock' = [sock EXCEPT ![s] = [sock[s] EXCEPT !.where = "sockets"]]
  BY <1>2, <1>3 DEF Types
<1>5. Later(sock[s], [sock[s] EXCEPT !.where = "sockets"])
  BY <1>3, FlagsLater
<1> QED BY <1>2, <1>3, <1>4, <1>5, OnePeers

LEMMA UnheardStores ==
  ASSUME Types, NEW S
  PROVE  \A m \in Muxes : Unheard(S)[m].store \in {mux[m].store, <<>>}
<1>1. ASSUME NEW m \in Muxes
      PROVE  Unheard(S)[m].store \in {mux[m].store, <<>>}
  <2> DEFINE x == IF mux[m].listener \in S
                  THEN [mux[m] EXCEPT !.listener = NoSocket] ELSE mux[m]
  <2>1. mux[m] \in MuxType
    BY DEF Types
  <2>2. x.store = mux[m].store /\ x \in MuxType
    BY <2>1 DEF MuxType
  <2>3. Unheard(S)[m] = Forget(x, m) \/ Unheard(S)[m] = x
    BY DEF Unheard
  <2> HIDE DEF x
  <2>4. Forget(x, m).store = <<>>
    BY <2>2 DEF Forget, MuxType
  <2> QED BY <2>2, <2>3, <2>4
<1> QED BY <1>1

\* The collector closes sockets and removes them.
LEMMA CheckBrokenSocketsPeers ==
  ASSUME IInv, PeerInv, NEW h \in Hosts, checkBrokenSockets(h)
  PROVE  PeerInv'
<1>1. PICK S \in SUBSET ToBeClosed(h) : CollectorPass(h, S)
  BY CollectorPasses
<1>2. /\ sock' = [s \in Sockets |-> IF s \in S THEN InTable(sock[s]) ELSE sock[s]]
      /\ UNCHANGED <<mux, app, hs, net>>
  BY <1>1 DEF CollectorPass
<1>3. \A s \in Sockets : sock[s] \in SockType
  BY DEF IInv, Types
<1>4. SocketsLater
  <2>1. ASSUME NEW s \in Sockets PROVE Later(sock[s], sock'[s])
    <3>1. sock'[s] = InTable(sock[s]) \/ sock'[s] = sock[s]
      BY <1>2
    <3>2. Later(sock[s], InTable(sock[s])) /\ Later(sock[s], sock[s])
      BY <1>3, ClosingLater DEF Later
    <3> QED BY <3>1, <3>2
  <2> QED BY <2>1 DEF SocketsLater
<1>5. StoresKept /\ AnswersKept
  BY <1>2, NothingSent DEF StoresKept
<1> QED BY <1>2, <1>4, <1>5, SettledSame, KeepStored, KeepPeers DEF PeerInv

LEMMA RemoveSocketPeers ==
  ASSUME IInv, PeerInv, NEW h \in Hosts, removeSocket(h)
  PROVE  PeerInv'
<1>1. Types
  BY DEF IInv
<1> DEFINE u == Lowest(gc[h].todo)
           Q == IF u = Listener THEN queue ELSE {}
           m == sock[u].mux
           x == Unheard(Q \cup {u})
<1>2. x = Unheard(Q \cup {u})
  OBVIOUS
<1>3. /\ sock' = [s \in Sockets |->
           CASE s = u   -> [sock[s] EXCEPT !.where = "deleted", !.flags = {}]
             [] s \in Q -> InTable(Shut(sock[s]))
             [] OTHER   -> sock[s]]
      /\ Send(Farewells(Q \cup {u}))
      /\ mux' = x \/ mux' = [x EXCEPT ![m].refs = @ - 1]
      /\ UNCHANGED <<app, hs>>
  BY Zenon DEF removeSocket
<1> HIDE DEF u, Q, m, x
<1>4. SocketsLater
  <2>1. ASSUME NEW s \in Sockets PROVE Later(sock[s], sock'[s])
    <3> DEFINE d == [sock[s] EXCEPT !.where = "deleted", !.flags = {}]
    <3>1. sock[s] \in SockType
      BY <1>1 DEF Types
    <3>2. Later(sock[s], d)
      BY <3>1 DEF Later, SockType
    <3>3. sock'[s] \in {d, InTable(Shut(sock[s])), sock[s]}
      BY <1>3
    <3> HIDE DEF d
    <3>4. Later(sock[s], InTable(Shut(sock[s]))) /\ Later(sock[s], sock[s])
      BY <3>1, ClosingLater DEF Later
    <3> QED BY <3>2, <3>3, <3>4
  <2> QED BY <2>1 DEF SocketsLater
<1>5. \A n \in Muxes : mux'[n].store \in {mux[n].store, <<>>}
  <2>1. x \in [Muxes -> MuxType]
    BY <1>1, <1>2, UnheardDoes
  <2>2. \A n \in Muxes : x[n].store \in {mux[n].store, <<>>}
    BY <1>1, <1>2, UnheardStores
  <2>3. \A n \in Muxes : mux'[n].store = x[n].store
    <3> DEFINE y == [x[m] EXCEPT !.refs = @ - 1]
    <3>1. mux' = x \/ mux' = [x EXCEPT ![m] = y]
      BY <1>3
    <3>2. m \in Muxes => y.store = x[m].store
      <4>1. m \in Muxes => x[m] \in MuxType
        BY <2>1
      <4> QED BY <4>1 DEF MuxType
    <3> HIDE DEF y
    <3> QED BY <2>1, <3>1, <3>2
  <2> QED BY <2>2, <2>3
<1>6. AnswersKept /\ net \subseteq net'
  BY <1>3, FarewellsKept
<1>7. StoresKept
  BY <1>5, <1>6 DEF StoresKept, Muxes
<1>8. Settled
  BY <1>3, SettledSame
<1> QED BY <1>4, <1>6, <1>7, <1>8, KeepStored, KeepPeers DEF PeerInv

LEMMA CloseAllPeers ==
  ASSUME IInv, PeerInv, NEW h \in Hosts, closeAll(h)
  PROVE  PeerInv'
<1>1. Types
  BY DEF IInv
<1> DEFINE S == {s \in SocketsOf(h) : sock[s].where = "sockets"}
<1>2. /\ sock' = [s \in Sockets |->
           CASE s \in S -> [InTable(Shut(sock[s])) EXCEPT !.age = 1]
             [] s \in SocketsOf(h) /\ sock[s].where = "closed" -> [sock[s] EXCEPT !.age = 1]
             [] OTHER   -> sock[s]]
      /\ mux' = Unheard(S) /\ Send(Farewells(S))
      /\ UNCHANGED <<app, hs>>
  BY DEF closeAll
<1> HIDE DEF S
<1>3. SocketsLater
  <2>1. ASSUME NEW s \in Sockets PROVE Later(sock[s], sock'[s])
    <3>1. sock[s] \in SockType
      BY <1>1 DEF Types
    <3>2. \/ sock'[s] = [InTable(Shut(sock[s])) EXCEPT !.age = 1]
          \/ sock'[s] = [sock[s] EXCEPT !.age = 1]
          \/ sock'[s] = sock[s]
      BY <1>2
    <3>3. Later(sock[s], [InTable(Shut(sock[s])) EXCEPT !.age = 1])
      BY <3>1, ClosingLater
    <3>4. Later(sock[s], [sock[s] EXCEPT !.age = 1]) /\ Later(sock[s], sock[s])
      BY <3>1 DEF Later, SockType
    <3> HIDE DEF Later
    <3> QED BY <3>2, <3>3, <3>4
  <2> QED BY <2>1 DEF SocketsLater
<1>4. AnswersKept /\ net \subseteq net'
  BY <1>2, FarewellsKept
<1>5. StoresKept
  BY <1>1, <1>2, <1>4, UnheardStores DEF StoresKept, Muxes
<1> QED BY <1>2, <1>3, <1>4, <1>5, SettledSame, KeepStored, KeepPeers DEF PeerInv

\* connect begins, or fails.
LEMMA ConnectPeers ==
  ASSUME IInv, PeerInv, NEW c \in Clients, connect(c)
  PROVE  PeerInv'
<1>1. /\ sock[c] \in SockType /\ mux[c] \in MuxType /\ c \in Muxes /\ c \in Sockets
      /\ c \in Threads /\ Types
  BY ClientHas DEF IInv
<1> DEFINE fresh == sock[c].status = "INIT"
           opened == IF fresh THEN [sock[c] EXCEPT !.flags = {"opened"}, !.mux = c]
                     ELSE sock[c]
           r == [opened EXCEPT !.status = "CONNECTING", !.flags = @ \cup {"connecting"}]
           first == [hs[c] EXCEPT !.isn = @ + 1, !.type = 1]
           known == IF fresh THEN OwnMux(c) ELSE mux
<1>2. CASE /\ sock' = [sock EXCEPT ![c] = r]
           /\ hs' = [hs EXCEPT ![c] = first]
           /\ mux' = [known EXCEPT ![c].connectors = @ \cup {<<c, first.isn>>}]
           /\ Send({Request(c, first)})
           /\ Goto(c, "connecting")
  <2>1. Later(sock[c], r)
    <3>1. /\ opened.where = sock[c].where /\ opened.peer = sock[c].peer
          /\ opened.isn = sock[c].isn
          /\ "connected" \in opened.flags => "connected" \in sock[c].flags
      BY <1>1 DEF SockType
    <3>2. /\ r.where = opened.where /\ r.flags = opened.flags \cup {"connecting"}
          /\ r.peer = opened.peer /\ r.isn = opened.isn
      BY <1>1 DEF SockType
    <3> HIDE DEF opened, r
    <3> QED BY <3>1, <3>2 DEF Later
  <2>2. /\ known \in [Muxes -> MuxType]
        /\ \A n \in Muxes : known[n].store \in {mux[n].store, <<>>}
    <3>1. CASE fresh
      <4>1. PICK y \in MuxType : OwnMux(c) = [mux EXCEPT ![c] = y] /\ y.store = <<>>
        BY <1>1, OwnMuxDoes
      <4> QED BY <1>1, <3>1, <4>1 DEF Types
    <3>2. CASE ~fresh
      BY <1>1, <3>2 DEF Types
    <3> QED BY <3>1, <3>2
  <2> HIDE DEF opened, r, first, known
  <2>3. \A n \in Muxes : mux'[n].store \in {mux[n].store, <<>>}
    <3>1. \A n \in Muxes : mux'[n].store = known[n].store
      BY <1>1, <1>2, <2>2 DEF MuxType
    <3> QED BY <2>2, <3>1
  <2>4. SocketsLater
    BY <1>1, <1>2, <2>1, OneLater
  <2>5. AnswersKept /\ net \subseteq net'
    BY <1>2, RequestKept
  <2>6. StoresKept
    BY <2>3, <2>5 DEF StoresKept, Muxes
  <2>7. Settled
    <3>1. app'[c].pc = "connecting" /\ \A d \in Threads \ {c} : app'[d] = app[d]
      BY <1>1, <1>2, GotoDoes DEF AppPcs
    <3>2. \A d \in Clients \ {c} : hs'[d] = hs[d]
      BY <1>1, <1>2 DEF Types
    <3> QED BY <3>1, <3>2, IdFacts DEF Settled
  <2> QED BY <2>4, <2>5, <2>6, <2>7, KeepStored, KeepPeers DEF PeerInv
<1>3. CASE /\ sock' = [sock EXCEPT ![c].status = "OPENED"]
           /\ hs' = [hs EXCEPT ![c].isn = Attempts]
           /\ app' = [app EXCEPT ![c].pc = "failed", ![c].result = "busy"]
           /\ UNCHANGED <<mux, net>>
  <2> DEFINE q == [sock[c] EXCEPT !.status = "OPENED"]
  <2>1. Later(sock[c], q)
    BY <1>1 DEF Later, SockType
  <2>2. sock' = [sock EXCEPT ![c] = q]
    BY <1>1, <1>3 DEF Types
  <2> HIDE DEF q
  <2>3. SocketsLater
    BY <1>1, <2>1, <2>2, OneLater
  <2>4. Settled
    <3>1. app'[c].pc = "failed" /\ \A d \in Clients \ {c} : app'[d] = app[d]
      BY <1>1, <1>3, IdFacts DEF Types, AppType
    <3>2. \A d \in Clients \ {c} : hs'[d] = hs[d]
      BY <1>1, <1>3 DEF Types
    <3> QED BY <3>1, <3>2 DEF Settled
  <2>5. StoresKept /\ AnswersKept
    BY <1>3, NothingSent DEF StoresKept
  <2> QED BY <2>3, <2>4, <2>5, KeepStored, KeepPeers DEF PeerInv
<1> QED BY <1>2, <1>3 DEF connect

\* The end of connect: only the client's own socket changes.
LEMMA ClientPeers ==
  ASSUME PeerInv, NEW c \in Clients,
         \A s \in Sockets \ {c} : sock'[s] = sock[s],
         \A d \in Clients \ {c} : app'[d].pc = app[d].pc /\ hs'[d] = hs[d],
         app'[c].pc = "connected" /\ "connected" \in sock'[c].flags
           => MadeFor(sock'[c].peer, c, hs'[c].isn),
         AnswersKept, StoredInv'
  PROVE  PeerInv'
<1>1. ASSUME NEW s, NEW d, NEW i, MadeFor(s, d, i)
      PROVE  /\ s \in Accepted /\ sock'[s].where # "none"
             /\ sock'[s].peer = d /\ sock'[s].isn = i
  BY <1>1, IdFacts DEF MadeFor
<1>2. AnswersInv'
  <2>1. ASSUME NEW p \in net' \cap ResponseType, p.type = -1
        PROVE  MadeFor(p.id, p.to, p.isn)
    BY <2>1 DEF PeerInv, AnswersInv, AnswersKept
  <2> QED BY <1>1, <2>1 DEF AnswersInv, MadeFor
<1>3. PairedInv'
  <2>1. ASSUME NEW d \in Clients, app'[d].pc = "connected", "connected" \in sock'[d].flags
        PROVE  MadeFor(sock'[d].peer, d, hs'[d].isn)
    <3>1. CASE d = c
      BY <2>1, <3>1
    <3>2. CASE d # c
      <4>1. sock'[d] = sock[d] /\ app[d].pc = "connected" /\ hs'[d] = hs[d]
        BY <2>1, <3>2, IdFacts
      <4> QED BY <2>1, <4>1 DEF PeerInv, PairedInv, Is
    <3> QED BY <3>1, <3>2
  <2> QED BY <1>1, <2>1 DEF PairedInv, MadeFor, Is
<1> QED BY <1>2, <1>3 DEF PeerInv

LEMMA FailApp ==
  ASSUME Types, NEW c \in Clients, NEW pc, NEW why,
         app' = [app EXCEPT ![c].pc = pc, ![c].result = why]
  PROVE  app'[c].pc = pc /\ \A d \in Clients \ {c} : app'[d].pc = app[d].pc
  BY IdFacts DEF Types, AppType

LEMMA ConnectTimeoutPeers ==
  ASSUME IInv, PeerInv, NEW c \in Clients, connectTimeout(c)
  PROVE  PeerInv'
<1>1. /\ sock' = [sock EXCEPT ![c] = [sock[c] EXCEPT !.status = "OPENED"]]
      /\ app' = [app EXCEPT ![c].pc = "failed", ![c].result = "timeout"]
      /\ UNCHANGED <<mux, hs, net>>
  BY DEF connectTimeout, Fail
<1>2. c \in Sockets /\ Types
  BY IdFacts DEF IInv
<1>3. \A s \in Sockets \ {c} : sock'[s] = sock[s]
  BY <1>1, <1>2, SockOne
<1>4. app'[c].pc = "failed" /\ \A d \in Clients \ {c} : app'[d].pc = app[d].pc
  BY <1>1, <1>2, FailApp
<1>5. StoresKept /\ AnswersKept
  BY <1>1, NothingSent DEF StoresKept
<1> QED BY <1>1, <1>3, <1>4, <1>5, KeepStored, ClientPeers DEF PeerInv

LEMMA ConnectResponsePeers ==
  ASSUME IInv, DInv, PeerInv, NEW c \in Clients, connectResponse(c)
  PROVE  PeerInv'
<1>1. /\ sock[c] \in SockType /\ mux[c] \in MuxType /\ c \in Muxes /\ c \in Sockets
      /\ hs[c] \in HsType /\ Types
  BY ClientHas DEF IInv
<1>2. mux[c].store # <<>> /\ app[c].pc = "connecting"
  BY DEF connectResponse
<1>3. "connected" \notin sock[c].flags
  BY <1>2 DEF DInv, TryInv, Trying
<1> DEFINE S == mux[c].store
           p == Head(S)
           res == [type |-> p.type, isn |-> p.isn]
           x == [mux[c] EXCEPT !.store = Tail(@)]
           again == [hs[c] EXCEPT !.type = -1, !.cookie = p.cookie, !.res = res]
           r == [sock[c] EXCEPT !.status = "CONNECTED", !.peer = p.id,
                   !.flags = (@ \ {"connecting"}) \cup {"connected", "onList"}]
           y == [Forget(x, c) EXCEPT !.entries = @ \cup {c}]
<1>4. \/ /\ Conclude(c, sock[c], hs[c].res) /\ mux' = [mux EXCEPT ![c] = x]
         /\ UNCHANGED <<hs, net>>
      \/ /\ hs' = [hs EXCEPT ![c] = again] /\ Send({Request(c, again)})
         /\ mux' = [mux EXCEPT ![c] = x] /\ UNCHANGED <<sock, app>>
      \/ /\ p.type # 1 /\ Conclude(c, r, res) /\ mux' = [mux EXCEPT ![c] = y]
         /\ hs' = [hs EXCEPT ![c].res = res] /\ UNCHANGED net
  BY DEF connectResponse
<1>5. /\ S \in Seq(ResponseType) /\ S # <<>> /\ S = mux[c].store
      /\ \A i \in DOMAIN S : S[i] \in net /\ S[i].to = c
  BY <1>1, <1>2 DEF MuxType, PeerInv, StoredInv
<1>6. /\ p \in ResponseType /\ p \in net /\ p.to = c
      /\ \A i \in DOMAIN Tail(S) : Tail(S)[i] \in net /\ Tail(S)[i].to = c
  <2> HIDE DEF S
  <2>1. p = S[1] /\ 1 \in DOMAIN S
    BY <1>5
  <2>2. \A i \in DOMAIN Tail(S) : Tail(S)[i] = S[i + 1] /\ i + 1 \in DOMAIN S
    BY <1>5
  <2> QED BY <1>5, <2>1, <2>2
<1>7. x.store = Tail(S) /\ x \in MuxType
  <2> HIDE DEF S
  <2>1. Tail(S) \in Seq(ResponseType)
    BY <1>5
  <2>2. x = [mux[c] EXCEPT !.store = Tail(S)]
    BY <1>5
  <2> HIDE DEF x
  <2> QED BY <1>1, <2>1, <2>2 DEF MuxType
<1>8. y.store = <<>>
  <2>1. Forget(x, c) \in MuxType /\ Forget(x, c).store = <<>>
    <3> HIDE DEF x
    <3> QED BY <1>7, ForgetDoes DEF Forget, MuxType
  <2> HIDE DEF x
  <2> QED BY <2>1 DEF MuxType
<1>9. /\ \A d \in Clients \ {c} : hs'[d] = hs[d] /\ mux'[d] = mux[d]
      /\ hs'[c].isn = hs[c].isn /\ mux'[c] \in {x, y}
  <2> HIDE DEF x, y, res
  <2>1. hs \in [Clients -> HsType] /\ mux \in [Muxes -> MuxType]
    BY <1>1 DEF Types
  <2>2. \A d \in Clients \ {c} : mux'[d] = mux[d] /\ mux'[c] \in {x, y}
    BY <1>1, <1>4, <2>1 DEF Muxes
  <2>3. mux'[c] \in {x, y}
    BY <1>1, <1>4, <2>1
  <2>4. again.isn = hs[c].isn
    BY <1>1 DEF HsType
  <2> HIDE DEF again
  <2>5. /\ \A d \in Clients \ {c} : hs'[d] = hs[d]
        /\ hs'[c].isn = hs[c].isn
    BY <1>1, <1>4, <2>1, <2>4 DEF HsType
  <2> QED BY <2>2, <2>3, <2>5
<1>10. AnswersKept /\ net \subseteq net'
  <2> HIDE DEF x, y, res, r, again
  <2> QED BY <1>4, NothingSent, RequestKept
<1>11. StoredInv'
  <2>1. ASSUME NEW d \in Clients, NEW i \in DOMAIN mux'[d].store
        PROVE  mux'[d].store[i] \in net' /\ mux'[d].store[i].to = d
    <3>1. CASE d = c
      <4>1. mux'[c].store = Tail(S) \/ mux'[c].store = <<>>
        <5> HIDE DEF x, y, S
        <5> QED BY <1>7, <1>8, <1>9
      <4> DEFINE T == Tail(S)
      <4>2. \A j \in DOMAIN T : T[j] \in net /\ T[j].to = c
        BY <1>6
      <4> HIDE DEF T
      <4>3. CASE mux'[c].store = T
        BY <1>10, <2>1, <3>1, <4>2, <4>3
      <4>4. CASE mux'[c].store = <<>>
        BY <2>1, <3>1, <4>4
      <4> HIDE DEF S
      <4> QED BY <4>1, <4>3, <4>4 DEF T
    <3>2. CASE d # c
      BY <1>9, <1>10, <2>1, <3>2 DEF PeerInv, StoredInv
    <3> QED BY <3>1, <3>2
  <2> QED BY <2>1 DEF StoredInv
<1>12. /\ \A s \in Sockets \ {c} : sock'[s] = sock[s]
       /\ \A d \in Clients \ {c} : app'[d].pc = app[d].pc
  <2>1. ASSUME NEW q, NEW e, Conclude(c, q, e)
        PROVE  /\ \A s \in Sockets \ {c} : sock'[s] = sock[s]
               /\ \A d \in Clients \ {c} : app'[d].pc = app[d].pc
    <3>1. \E k : sock' = [sock EXCEPT ![c] = k]
      BY <2>1 DEF Conclude, Fail
    <3>2. \E pc, why : app' = [app EXCEPT ![c].pc = pc, ![c].result = why]
      BY <2>1 DEF Conclude, Fail
    <3>3. \A s \in Sockets \ {c} : sock'[s] = sock[s]
      BY <1>1, <3>1, SockOne
    <3>4. \A d \in Clients \ {c} : app'[d].pc = app[d].pc
      BY <1>1, <3>2, FailApp
    <3> QED BY <3>3, <3>4
  <2> HIDE DEF x, y, res, r, again
  <2> QED BY <1>4, <2>1
<1>13. ASSUME app'[c].pc = "connected", "connected" \in sock'[c].flags
       PROVE  MadeFor(sock'[c].peer, c, hs'[c].isn)
  <2>1. ASSUME NEW q, NEW e, Conclude(c, q, e)
        PROVE  sock'[c] = q /\ Verdict(c, e) = "ok"
    <3>1. CASE Verdict(c, e) = "ok"
      <4>1. sock' = [sock EXCEPT ![c] = q]
        BY <2>1, <3>1 DEF Conclude
      <4> QED BY <1>1, <3>1, <4>1, SockOne
    <3>2. CASE Verdict(c, e) # "ok"
      <4>1. app' = [app EXCEPT ![c].pc = "failed", ![c].result = Verdict(c, e)]
        BY <2>1, <3>2 DEF Conclude, Fail
      <4>2. app'[c].pc = "failed"
        BY <1>1, <4>1, FailApp
      <4> QED BY <1>13, <4>2
    <3> QED BY <3>1, <3>2
  <2>2. p.type # 1 /\ sock'[c] = r /\ Verdict(c, res) = "ok"
    <3> HIDE DEF x, y, res, r, again, p
    <3> QED BY <1>2, <1>3, <1>4, <1>13, <2>1
  <2>3. p.type = -1 /\ p.isn = hs[c].isn
    <3>1. p.type \in {1, -1, 1002}
      <4> HIDE DEF p
      <4> QED BY <1>6 DEF ResponseType
    <3>2. res.type # 1002 /\ res.isn = hs[c].isn
      <4> HIDE DEF res
      <4> QED BY <2>2 DEF Verdict
    <3> HIDE DEF p
    <3> QED BY <2>2, <3>1, <3>2
  <2>4. MadeFor(p.id, p.to, p.isn)
    <3> HIDE DEF p
    <3> QED BY <1>6, <2>3 DEF PeerInv, AnswersInv
  <2>5. sock'[c].peer = p.id
    <3> HIDE DEF p
    <3> QED BY <1>1, <2>2 DEF SockType
  <2> HIDE DEF p
  <2> QED BY <1>6, <1>9, <2>3, <2>4, <2>5
<1> HIDE DEF x, y, res, r, again, p, S
<1> QED BY <1>9, <1>10, <1>11, <1>12, <1>13, ClientPeers

LEMMA LocateRequestPeers ==
  ASSUME IInv, PeerInv, locateRequest
  PROVE  PeerInv'
<1> DEFINE p == worker[Listener].msg
           S == SameRequest(p)
           d == Lowest(S)
<1>1. /\ worker[Listener].pc = "locate" /\ UNCHANGED <<mux, app, hs>>
      /\ \/ sock' = sock
         \/ S # {} /\ sock' = [sock EXCEPT ![d].status = "CLOSED", ![d].age = 0]
  BY DEF locateRequest
<1>2. \/ net' = net
      \/ Send({Response(p.from, p.isn, 1002, p.from)})
      \/ S # {} /\ Send({Response(p.from, p.isn, -1, d)})
  BY DEF locateRequest, Answer
<1>3. p \in RequestType /\ Types
  BY <1>1 DEF IInv, Core, Threaded
<1>4. S # {} => d \in S /\ d \in Sockets
  <2>1. S \subseteq Sockets
    BY IdFacts DEF SameRequest
  <2> HIDE DEF S
  <2> QED BY <2>1, ExtremeIds
<1>5. S # {} => MadeFor(d, p.from, p.isn)
  <2> HIDE DEF p, d
  <2> QED BY <1>4 DEF SameRequest, MadeFor
<1> HIDE DEF p, S, d
<1>6. SocketsLater
  <2>1. CASE sock' = sock
    BY <2>1, SameLater
  <2>2. CASE S # {} /\ sock' = [sock EXCEPT ![d].status = "CLOSED", ![d].age = 0]
    <3> DEFINE q == [sock[d] EXCEPT !.status = "CLOSED", !.age = 0]
    <3>1. d \in Sockets
      BY <1>4, <2>2
    <3>2. sock' = [sock EXCEPT ![d] = q]
      BY <1>3, <2>2, <3>1 DEF Types
    <3>3. Later(sock[d], q)
      BY <1>3, <3>1, FlagsLater
    <3> HIDE DEF q
    <3> QED BY <1>3, <3>1, <3>2, <3>3, OneLater
  <2> QED BY <1>1, <2>1, <2>2
<1>7. AnswersKept /\ net \subseteq net'
  <2>1. CASE net' = net
    BY <2>1, NothingSent
  <2>2. CASE Send({Response(p.from, p.isn, 1002, p.from)})
    <3>1. Response(p.from, p.isn, 1002, p.from).type # -1
      BY DEF Response
    <3> QED BY <2>2, <3>1, SendKept
  <2>3. CASE S # {} /\ Send({Response(p.from, p.isn, -1, d)})
    <3> DEFINE a == Response(p.from, p.isn, -1, d)
    <3>1. a.id = d /\ a.to = p.from /\ a.isn = p.isn
      BY DEF Response
    <3>2. net \subseteq net' /\ \A e \in net' : e \in net \/ e = a
      BY <2>3 DEF Send
    <3> HIDE DEF a
    <3>3. MadeFor(a.id, a.to, a.isn)
      BY <1>5, <2>3, <3>1
    <3> QED BY <3>2, <3>3 DEF AnswersKept
  <2> QED BY <1>2, <2>1, <2>2, <2>3
<1>8. StoresKept
  BY <1>1, <1>7 DEF StoresKept
<1> QED BY <1>1, <1>6, <1>7, <1>8, SettledSame, KeepStored, KeepPeers DEF PeerInv

LEMMA CreateConnectionPeers ==
  ASSUME IInv, PeerInv, createConnection
  PROVE  PeerInv'
<1> DEFINE p == worker[Listener].msg
           ns == Highest(Fresh)
           r == [where |-> "private", status |-> "CONNECTED", mux |-> Listener,
                 flags |-> {"opened", "connected", "onList"},
                 peer |-> p.from, isn |-> p.isn, age |-> 0]
           x == [Shared(mux[Listener]) EXCEPT !.entries = @ \cup {ns}]
           a == Response(p.from, p.isn, -1, ns)
<1>1. /\ UNCHANGED <<app, hs>>
      /\ \/ /\ Send({Response(p.from, p.isn, 1002, p.from)}) /\ UNCHANGED <<sock, mux>>
         \/ /\ Fresh # {} /\ sock' = [sock EXCEPT ![ns] = r]
            /\ mux' = [mux EXCEPT ![Listener] = x] /\ Send({a})
  BY DEF createConnection, Answer
<1>2. CASE Send({Response(p.from, p.isn, 1002, p.from)}) /\ UNCHANGED <<sock, mux>>
  <2>1. Response(p.from, p.isn, 1002, p.from).type # -1
    BY DEF Response
  <2>2. AnswersKept /\ net \subseteq net'
    BY <1>2, <2>1, SendKept
  <2>3. StoresKept
    BY <1>2, <2>2 DEF StoresKept
  <2> QED BY <1>1, <1>2, <2>2, <2>3, CalmPeers
<1>3. CASE /\ Fresh # {} /\ sock' = [sock EXCEPT ![ns] = r]
           /\ mux' = [mux EXCEPT ![Listener] = x] /\ Send({a})
  <2>1. ns \in Fresh
    <3>1. Fresh \subseteq Sockets
      BY IdFacts DEF Fresh
    <3> QED BY <1>3, <3>1, ExtremeIds
  <2>2. ns \in Accepted /\ ns \in Sockets /\ sock[ns].where = "none" /\ Types
    BY <2>1, IdFacts DEF Fresh, IInv
  <2>3. r.where = "private" /\ r.peer = p.from /\ r.isn = p.isn
    OBVIOUS
  <2>4. a.id = ns /\ a.to = p.from /\ a.isn = p.isn
    BY DEF Response
  <2> HIDE DEF r, x, ns, a
  <2>5. sock'[ns] = r /\ \A u \in Sockets \ {ns} : sock'[u] = sock[u]
    BY <1>3, <2>2, SockOne
  <2>6. net \subseteq net' /\ \A e \in net' : e \in net \/ e = a
    BY <1>3 DEF Send
  <2>7. ASSUME NEW s, NEW c, NEW i, MadeFor(s, c, i)
        PROVE  /\ s \in Accepted /\ sock'[s].where # "none"
               /\ sock'[s].peer = c /\ sock'[s].isn = i
    BY <2>2, <2>5, <2>7, IdFacts DEF MadeFor
  <2>8. AnswersInv'
    <3>1. ASSUME NEW e \in net' \cap ResponseType, e.type = -1
          PROVE  /\ e.id \in Accepted /\ sock'[e.id].where # "none"
                 /\ sock'[e.id].peer = e.to /\ sock'[e.id].isn = e.isn
      <4>1. CASE e \in net
        BY <2>7, <3>1, <4>1 DEF PeerInv, AnswersInv
      <4>2. CASE e = a
        BY <2>2, <2>3, <2>4, <2>5, <4>2
      <4> QED BY <2>6, <4>1, <4>2
    <3> QED BY <3>1 DEF AnswersInv, MadeFor
  <2>9. StoredInv'
    <3>1. \A c \in Clients : mux'[c] = mux[c]
      BY <1>3, <2>2, IdFacts DEF Types, Muxes
    <3>2. StoresKept
      BY <2>6, <3>1 DEF StoresKept
    <3> QED BY <3>2, KeepStored DEF PeerInv
  <2>10. PairedInv'
    <3>1. ASSUME NEW c \in Clients, app'[c].pc = "connected", "connected" \in sock'[c].flags
          PROVE  MadeFor(sock[c].peer, c, hs'[c].isn) /\ sock'[c].peer = sock[c].peer
      <4>1. sock'[c] = sock[c]
        BY <2>2, <2>5, IdFacts
      <4> QED BY <1>1, <3>1, <4>1 DEF PeerInv, PairedInv, Is
    <3> QED BY <2>7, <3>1 DEF PairedInv, MadeFor, Is
  <2> QED BY <2>8, <2>9, <2>10 DEF PeerInv
<1> HIDE DEF p, r, x, ns, a
<1> QED BY <1>1, <1>2, <1>3

\* No step brings a host near or takes it away.
LEMMA NearStays ==
  ASSUME [Next]_vars
  PROVE  near' = near
<1>1. CASE AppStep
  <2>1. ASSUME NEW t \in Threads,
               startup(t) \/ cleanup(t) \/ Left(t) \/ newSocket(t) \/ close(t) \/ closed(t)
        PROVE  near' = near
    BY <2>1 DEF startup, cleanup, Left, newSocket, close, closed
  <2>2. CASE bind \/ listen \/ accept \/ acceptLook \/ acceptWoken
    BY <2>2 DEF bind, listen, accept, acceptLook, acceptWoken
  <2>3. ASSUME NEW c \in Clients, connect(c) \/ connectTimeout(c) \/ connectResponse(c)
        PROVE  near' = near
    BY <2>3 DEF connect, connectTimeout, connectResponse
  <2> QED BY <1>1, <2>1, <2>2, <2>3 DEF AppStep
<1>2. CASE WorkerStep
  <2>1. CASE listenRequest \/ locateRequest \/ createConnection \/ insertConnection
             \/ queueConnection
    BY <2>1 DEF listenRequest, locateRequest, createConnection, insertConnection, queueConnection
  <2>2. ASSUME NEW m \in Muxes, takeEntries(m) \/ dropEnded(m) \/ hearShutdown(m)
        PROVE  near' = near
    BY <2>2 DEF takeEntries, dropEnded, hearShutdown
  <2>3. ASSUME NEW c \in Clients, storePkt(c) \/ Resend(c) \/ GiveUp(c)
        PROVE  near' = near
    BY <2>3 DEF storePkt, Resend, GiveUp
  <2> QED BY <1>2, <2>1, <2>2, <2>3 DEF WorkerStep
<1>3. CASE CollectorStep
  <2>1. ASSUME NEW h \in Hosts,
               \/ checkBrokenSockets(h) \/ removeSocket(h) \/ joinWorker(h)
               \/ endPass(h) \/ closeAll(h) \/ endCollector(h)
        PROVE  near' = near
    BY <2>1 DEF checkBrokenSockets, removeSocket, joinWorker, endPass, closeAll, endCollector
  <2> QED BY <1>3, <2>1 DEF CollectorStep
<1>4. CASE Clock
  BY <1>4 DEF Clock, ThreeSeconds, Older
<1>5. CASE closeListener
  BY <1>5 DEF closeListener
<1>6. CASE Faults
  BY <1>6 DEF Faults, NewMinute, expire
<1>7. CASE Over \/ UNCHANGED vars
  BY <1>7 DEF Over, vars
<1> QED BY <1>1, <1>2, <1>3, <1>4, <1>5, <1>6, <1>7 DEF Next

LEMMA InitiallyPeers ==
  ASSUME Init
  PROVE  PeerInv
<1>1. /\ net = {} /\ mux = [m \in Muxes |-> NoMux]
      /\ app = [t \in Threads |-> [pc |-> "out", sock |-> NoSocket, result |-> "none"]]
  BY DEF Init
<1>2. AnswersInv
  BY <1>1 DEF AnswersInv
<1>3. StoredInv
  BY <1>1 DEF StoredInv, NoMux, Muxes
<1>4. PairedInv
  BY <1>1, IdFacts DEF PairedInv
<1> QED BY <1>2, <1>3, <1>4 DEF PeerInv

\* Where both hosts are near nobody closes a socket.
LEMMA InductivePeers ==
  ASSUME IInv, DInv, PeerInv, near = Hosts, [Next]_vars
  PROVE  PeerInv'
<1>0. ~Ending
  BY DEF Ending
<1>1. CASE AppStep
  <2>1. \A t \in Threads : ~close(t)
    BY <1>0 DEF close
  <2> QED BY <1>1, <2>1, StartupPeers, NewSocketPeers, ClosedPeers, BindPeers, ListenPeers,
        AcceptPeers, ConnectPeers, ConnectTimeoutPeers, ConnectResponsePeers DEF AppStep
<1>2. CASE WorkerStep
  BY <1>2, ListenRequestPeers, LocateRequestPeers, CreateConnectionPeers,
     InsertConnectionPeers, QuietPeers, TakeEntriesPeers, FlagsPeers, StorePktPeers,
     ResendPeers DEF WorkerStep
<1>3. CASE CollectorStep
  BY <1>3, CheckBrokenSocketsPeers, RemoveSocketPeers, JoinWorkerPeers, QuietPeers,
     CloseAllPeers DEF CollectorStep
<1>4. CASE Clock
  BY <1>4, QuietPeers, FlagsPeers DEF Clock
<1>5. CASE closeListener
  BY <1>0, <1>5 DEF closeListener
<1>6. CASE Faults
  BY <1>6, QuietPeers, FlagsPeers DEF Faults
<1>7. CASE Over \/ UNCHANGED vars
  BY <1>7, QuietPeers DEF Over
<1> QED BY <1>1, <1>2, <1>3, <1>4, <1>5, <1>6, <1>7 DEF Next

(* When connect has succeeded and the socket is still connected, its peer  *)
(* is a socket that the listening host made for this very attempt          *)
(* (CUDT::connect compares the number of the response with its own), until *)
(* a connection is asked for too late.                                     *)
THEOREM PeersAlwaysBelongTogether == Spec => [](late \/ PeersBelongTogether)
<1> DEFINE I == IInv /\ DInv /\ (near = Hosts => PeerInv)
           J == late \in BOOLEAN /\ (late \/ I)
<1>1. Init => J
  BY Initially, InitiallyDeleted, InitiallyPeers DEF Init
<1>2. J /\ [Next]_vars => J'
  <2> SUFFICES ASSUME IInv, DInv, near = Hosts => PeerInv, ~late', [Next]_vars PROVE I'
    BY LateStays
  <2>1. IInv' /\ DInv'
    BY Inductive, InductiveDeleted
  <2>2. near' = near
    BY NearStays
  <2>3. near' = Hosts => PeerInv'
    BY <2>2, InductivePeers
  <2> QED BY <2>1, <2>3
<1>3. J => late \/ PeersBelongTogether
  <2> SUFFICES ASSUME I, NEW c \in Clients,
                      near = Hosts, app[c].pc = "connected", Is(c, "connected")
               PROVE  /\ sock[c].peer \in Accepted
                      /\ sock[sock[c].peer].peer = c
                      /\ sock[sock[c].peer].isn = hs[c].isn
    BY DEF PeersBelongTogether
  <2> QED BY DEF PeerInv, PairedInv, MadeFor
<1> HIDE DEF J
<1> QED BY <1>1, <1>2, <1>3, PTL DEF Spec
=============================================================================
