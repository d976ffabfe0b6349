------------------------------ MODULE UdtQueues ------------------------------
(***************************************************************************)
(* The lists of sockets of a UDT multiplexer, src/udt4/src/queue.cpp:      *)
(* CSndUList, the heap of the sockets with something to send, ordered by   *)
(* the time they may; CRcvUList, the list of all its sockets, least        *)
(* recently heard of first; CHash, which finds a socket by its number; and *)
(* the thread of CSndQueue that sleeps until the first of the heap is due. *)
(***************************************************************************)
EXTENDS Integers, Sequences, FiniteSets, SequencesExt

CONSTANTS
  SocketIds,  \* the sockets of the multiplexer, numbers
  Talkers,    \* those of them that have something to send, for the thread
  HashSize,   \* m_iHashSize
  MaxTime,    \* bound: readings of the clock
  MaxPuts     \* bound: times a socket is listed that may send at once

ASSUME QueuesAssumption ==
  /\ SocketIds \subseteq Nat /\ IsFiniteSet(SocketIds) /\ Talkers \subseteq SocketIds
  /\ HashSize \in Nat \ {0} /\ MaxTime \in Nat

VARIABLES
  heap,       \* CSndUList: m_pHeap, with the m_iHeapLoc and m_llTimeStamp of
              \* the sockets and m_iLastEntry
  rcvOrder,   \* CRcvUList: the links, and m_llTimeStamp of the sockets
  buckets,    \* CHash
  newEntries, \* CRcvQueue::m_vNewEntry
  onList,     \* m_bOnList of the sockets
  alive,      \* sockets connected and not broken
  onHash,     \* the sockets rcvOrder and buckets stand for, oldest news first
  worker,     \* CSndQueue::worker: where it is and the time it read
  due,        \* the sockets with something to send, and when they may
  sched,      \* CTimer::m_ullSchedTime
  cond,       \* the event m_WindowCond is set
  closing,    \* m_bClosing
  now,        \* the clock
  puts        \* times a socket was listed that may send at once

heapVars == <<heap>>
listVars == <<rcvOrder, buckets, newEntries, onList, alive, onHash>>
workerVars == <<worker, due, sched, cond, closing, now, puts>>

-----------------------------------------------------------------------------
(* CSndUList, places counted from 0 *)

NoPlace == -1
NoSocket == -1
Slots == 0 .. Cardinality(SocketIds) - 1

EmptyHeap ==
  [node |-> [i \in Slots |-> NoSocket], loc |-> [u \in SocketIds |-> NoPlace],
   time |-> [u \in SocketIds |-> 0], last |-> -1]

TimeAt(h, i) == h.time[h.node[i]]

\* Two places exchange their nodes.
Swap(h, p, q) ==
  [h EXCEPT !.node = [@ EXCEPT ![p] = h.node[q], ![q] = h.node[p]],
            !.loc = [@ EXCEPT ![h.node[q]] = p, ![h.node[p]] = q]]

\* The node at x.q rises one place, unless its parent is not later.
RiseOnce(x) ==
  LET p == (x.q - 1) \div 2 IN
  IF x.q = 0 THEN x
  ELSE IF TimeAt(x.h, p) > TimeAt(x.h, x.q) THEN [h |-> Swap(x.h, p, x.q), q |-> p]
  ELSE x

SiftUp(h, q) ==
  LET after[k \in Nat] == IF k = 0 THEN [h |-> h, q |-> q] ELSE RiseOnce(after[k - 1])
  IN after[q].h

\* The node at x.q sinks one place, unless both its children are not earlier.
SinkOnce(x) ==
  LET left == 2 * x.q + 1
      p == IF left + 1 <= x.h.last /\ TimeAt(x.h, left) > TimeAt(x.h, left + 1)
           THEN left + 1 ELSE left
  IN IF left > x.h.last THEN x
     ELSE IF TimeAt(x.h, x.q) > TimeAt(x.h, p) THEN [h |-> Swap(x.h, p, x.q), q |-> p]
     ELSE x

SiftDown(h, q) ==
  LET after[k \in Nat] == IF k = 0 THEN [h |-> h, q |-> q] ELSE SinkOnce(after[k - 1])
  IN after[h.last + 1].h

\* insert_(ts, u)
HeapInsert(h, ts, u) ==
  IF h.loc[u] >= 0 THEN h
  ELSE SiftUp([h EXCEPT !.last = @ + 1, !.node[h.last + 1] = u,
                        !.loc[u] = h.last + 1, !.time[u] = ts], h.last + 1)

\* remove_(u): the last node takes the place of u and sinks from there.
HeapRemove(h, u) ==
  LET q == h.loc[u]
      m == [h EXCEPT !.node = [@ EXCEPT ![q] = h.node[h.last], ![h.last] = NoSocket],
                     !.loc = [@ EXCEPT ![h.node[h.last]] = q, ![u] = NoPlace],
                     !.time[u] = 0, !.last = @ - 1]
  IN IF q < 0 THEN h ELSE SiftDown(m, q)

\* update(u, reschedule)
HeapUpdate(h, u, reschedule) ==
  IF h.loc[u] < 0 THEN HeapInsert(h, 1, u)
  ELSE IF ~reschedule THEN h
  ELSE IF h.loc[u] = 0 THEN [h EXCEPT !.time[u] = 1]
  ELSE HeapInsert(HeapRemove(h, u), 1, u)

Scheduled(h) == {u \in SocketIds : h.loc[u] >= 0}

HeapInit == heap = EmptyHeap

\* The application or a control packet has the socket send.
HeapPut(u, reschedule) == heap' = HeapUpdate(heap, u, reschedule)

\* pop: the first socket packs a packet; ts is when it may send again, 0 when
\* it has nothing more.
HeapPop(ts) ==
  LET u == heap.node[0] IN
  /\ heap.last >= 0
  /\ heap' = IF ts > 0 THEN HeapInsert(HeapRemove(heap, u), ts, u)
             ELSE HeapRemove(heap, u)

\* The socket is closed.
HeapDrop(u) == heap' = HeapRemove(heap, u)

HeapStep ==
  \/ \E u \in SocketIds, reschedule \in BOOLEAN : HeapPut(u, reschedule)
  \/ \E ts \in 0 .. MaxTime : HeapPop(ts)
  \/ \E u \in SocketIds : HeapDrop(u)

HeapSpec == HeapInit /\ [][HeapStep]_heapVars

\* Nodes and places agree, whatever was inserted, moved up or taken out of the
\* middle: the socket a node stands for is found at the place it remembers, so
\* that closing a socket takes that socket out of the heap and no other.
HeapAgrees ==
  /\ \A u \in Scheduled(heap) : heap.node[heap.loc[u]] = u
  /\ {heap.loc[u] : u \in Scheduled(heap)} = 0 .. heap.last
  /\ Cardinality(Scheduled(heap)) = heap.last + 1

-----------------------------------------------------------------------------
(* CRcvUList and CHash *)

EmptyList == [next |-> [u \in SocketIds |-> NoSocket], prev |-> [u \in SocketIds |-> NoSocket],
           head |-> NoSocket, last |-> NoSocket]

\* insert(u), at the end
ListInsert(l, u) ==
  IF l.head = NoSocket
  THEN [l EXCEPT !.prev[u] = NoSocket, !.next[u] = NoSocket, !.head = u, !.last = u]
  ELSE [l EXCEPT !.prev[u] = l.last,
                 !.next = [@ EXCEPT ![u] = NoSocket, ![l.last] = u], !.last = u]

\* Mutant: the link back from the next socket is left.
UnlinkOneWay(l, u) ==
  LET p == l.prev[u]
      n == l.next[u]
  IN [l EXCEPT !.head = IF p = NoSocket THEN n ELSE @,
               !.last = IF n = NoSocket THEN p ELSE @,
               !.next = IF p = NoSocket THEN @ ELSE [@ EXCEPT ![p] = n]]

\* The neighbours of u are joined: first lines of remove and of update.
Unlink(l, u) ==
  LET p == l.prev[u]
      n == l.next[u]
  IN [l EXCEPT !.head = IF p = NoSocket THEN n ELSE @,
               !.last = IF n = NoSocket THEN p ELSE @,
               !.next = IF p = NoSocket THEN @ ELSE [@ EXCEPT ![p] = n],
               !.prev = IF n = NoSocket THEN @ ELSE [@ EXCEPT ![n] = p]]

\* remove(u)
ListRemove(l, u) ==
  [Unlink(l, u) EXCEPT !.next[u] = NoSocket, !.prev[u] = NoSocket]

\* update(u): to the end, unless it is there.
ListUpdate(l, u) ==
  IF l.next[u] = NoSocket THEN l ELSE ListInsert(Unlink(l, u), u)

HashOf(u) == u % HashSize

\* remove(u) of CHash
HashRemove(bs, u) == [bs EXCEPT ![HashOf(u)] = RemoveFirst(@, u)]

ListInit ==
  /\ rcvOrder = EmptyList
  /\ buckets = [i \in 0 .. HashSize - 1 |-> <<>>]
  /\ newEntries = <<>> /\ onHash = <<>>
  /\ onList = [u \in SocketIds |-> FALSE] /\ alive = {}

\* connect: the socket is on the list from now on, though the worker has not
\* put it there yet.
ListConnect(u) ==
  /\ ~onList[u] /\ u \notin alive
  /\ onList' = [onList EXCEPT ![u] = TRUE]
  /\ newEntries' = Append(newEntries, u)
  /\ alive' = alive \cup {u}
  /\ UNCHANGED <<rcvOrder, buckets, onHash>>

\* worker: a new entry is put on the list and into the hash table.
ListTakeNew ==
  /\ newEntries # <<>>
  /\ LET u == Head(newEntries) IN
       /\ rcvOrder' = ListInsert(rcvOrder, u)
       /\ buckets' = [buckets EXCEPT ![HashOf(u)] = <<u>> \o @]
       /\ onHash' = Append(onHash, u)
  /\ newEntries' = Tail(newEntries)
  /\ UNCHANGED <<onList, alive>>

\* worker: a packet for a socket, or its timers; it was heard of last.
ListHeard(u) ==
  /\ newEntries = <<>>
  /\ u \in alive
  /\ \E k \in DOMAIN buckets[HashOf(u)] : buckets[HashOf(u)][k] = u
  /\ rcvOrder' = ListUpdate(rcvOrder, u)
  /\ onHash' = Append(RemoveFirst(onHash, u), u)
  /\ UNCHANGED <<buckets, newEntries, onList, alive>>

\* The socket is closed or broken; the worker is not told.
ListBreak(u) ==
  /\ alive' = alive \ {u}
  /\ UNCHANGED <<rcvOrder, buckets, newEntries, onList, onHash>>

\* worker, TIMER_CHECK: the sockets not heard of lately, from the first of the
\* list on; one that is not connected leaves the hash table, then the list.
ListTimer ==
  LET u == rcvOrder.head IN
  /\ newEntries = <<>>
  /\ u # NoSocket
  /\ IF u \in alive
     THEN /\ rcvOrder' = ListUpdate(rcvOrder, u)
          /\ onHash' = Append(RemoveFirst(onHash, u), u)
          /\ UNCHANGED <<buckets, onList>>
     ELSE /\ buckets' = HashRemove(buckets, u)
          /\ rcvOrder' = ListRemove(rcvOrder, u)
          /\ onList' = [onList EXCEPT ![u] = FALSE]
          /\ onHash' = RemoveFirst(onHash, u)
  /\ UNCHANGED <<newEntries, alive>>

ListStep ==
  \/ \E u \in SocketIds : ListConnect(u) \/ ListHeard(u) \/ ListBreak(u)
  \/ ListTakeNew
  \/ ListTimer

ListSpec == ListInit /\ [][ListStep]_listVars

\* The list is in the order the sockets were last heard of, first to last and
\* back, and the hash table finds exactly its sockets.  A socket not marked on
\* the list, which the garbage collector may delete, is in neither, nor about
\* to be put there.
NewsInOrder ==
  /\ rcvOrder.head = IF onHash = <<>> THEN NoSocket ELSE onHash[1]
  /\ rcvOrder.last = IF onHash = <<>> THEN NoSocket ELSE onHash[Len(onHash)]
  /\ \A k \in DOMAIN onHash :
       /\ rcvOrder.next[onHash[k]] = IF k = Len(onHash) THEN NoSocket ELSE onHash[k + 1]
       /\ rcvOrder.prev[onHash[k]] = IF k = 1 THEN NoSocket ELSE onHash[k - 1]
  /\ \A u \in SocketIds :
       /\ (\E k \in DOMAIN buckets[HashOf(u)] : buckets[HashOf(u)][k] = u)
            <=> \E k \in DOMAIN onHash : onHash[k] = u
       /\ ~onList[u] => /\ \A k \in DOMAIN onHash : onHash[k] # u
                        /\ \A k \in DOMAIN newEntries : newEntries[k] # u

-----------------------------------------------------------------------------
(* CSndQueue::worker and CTimer; of the heap only the due times *)

NotListed == -1
Listed == {u \in Talkers : due[u] # NotListed}
Earliest == CHOOSE u \in Listed : \A v \in Listed : due[u] <= due[v]

WorkerInit ==
  /\ worker = [at |-> "top", ts |-> 0]
  /\ due = [u \in Talkers |-> NotListed]
  /\ sched = 0 /\ cond = FALSE /\ closing = FALSE /\ now = 1 /\ puts = 0

GoTo(place) == worker' = [worker EXCEPT !.at = place]

\* "while (!self->m_bClosing)", getNextProcTime and the comparison with now.
WorkerTop ==
  /\ worker.at = "top"
  /\ IF closing THEN GoTo("exit")
     ELSE IF Listed = {} THEN GoTo("wait")
     ELSE worker' = [at |-> IF now < due[Earliest] THEN "sleepto" ELSE "pop",
                     ts |-> due[Earliest]]
  /\ UNCHANGED <<due, sched, cond, closing, now, puts>>

\* sleepto writes the time other threads may change, then waits for it; what
\* they wrote before is lost.
WorkerSleepTo ==
  /\ worker.at = "sleepto"
  /\ sched' = worker.ts
  /\ GoTo("sleep")
  /\ UNCHANGED <<due, cond, closing, now, puts>>

WorkerWake ==
  /\ worker.at = "sleep"
  /\ now >= sched
  /\ GoTo("pop")
  /\ UNCHANGED <<due, sched, cond, closing, now, puts>>

\* The first of the heap may send by now.
IsDue == IF Listed = {} THEN FALSE ELSE now >= due[Earliest]

\* pop: the socket packs a packet and is put back for the time ts of its next
\* one, also when that is past by then; with 0 it has nothing more to send.
\* MaxPuts bounds how often it is put back with a time that is past.  An
\* interrupt of the worker by itself is left out, since it writes the time
\* again before it sleeps.
WorkerPop(ts) ==
  /\ worker.at = "pop"
  /\ \/ /\ ~IsDue
        /\ UNCHANGED <<due, cond, puts>>
     \/ /\ IsDue
        /\ ts \in 1 .. now => puts < MaxPuts
        /\ due' = [due EXCEPT ![Earliest] = IF ts > 0 THEN ts ELSE NotListed]
        /\ cond' = (cond \/ (ts > 0 /\ Cardinality(Listed) = 1))
        /\ puts' = IF ts \in 1 .. now THEN puts + 1 ELSE puts
  /\ GoTo("top")
  /\ UNCHANGED <<sched, closing, now>>

WorkerWait ==
  /\ worker.at = "wait"
  /\ cond
  /\ cond' = FALSE
  /\ GoTo("top")
  /\ UNCHANGED <<due, sched, closing, now, puts>>

\* Mutant: the first entry does not set the event.
WorkerPutQuietly(u, reschedule) ==
  /\ puts < MaxPuts /\ ~closing
  /\ puts' = puts + 1
  /\ due' = IF u \notin Listed \/ reschedule THEN [due EXCEPT ![u] = 1] ELSE due
  /\ sched' = now
  /\ UNCHANGED <<worker, cond, closing, now>>

\* update(u, reschedule): a first entry sets the event, an earliest one
\* interrupts the sleep.
WorkerPut(u, reschedule) ==
  LET moved == u \notin Listed \/ reschedule
      earliest == moved /\ \A v \in Listed \ {u} : 1 < due[v]
  IN /\ puts < MaxPuts /\ ~closing
     /\ puts' = puts + 1
     /\ due' = IF moved THEN [due EXCEPT ![u] = 1] ELSE due
     /\ sched' = IF earliest THEN now ELSE sched
     /\ cond' = (cond \/ Listed = {})
     /\ UNCHANGED <<worker, closing, now>>

\* remove(u), when a socket is closed.
WorkerDrop(u) ==
  /\ u \in Listed
  /\ due' = [due EXCEPT ![u] = NotListed]
  /\ sched' = IF Cardinality(Listed) = 2 THEN now ELSE sched
  /\ UNCHANGED <<worker, cond, closing, now, puts>>

\* ~CSndQueue: by then no socket of the multiplexer is left.
WorkerClose ==
  /\ ~closing /\ Listed = {}
  /\ closing' = TRUE
  /\ cond' = TRUE
  /\ UNCHANGED <<worker, due, sched, now, puts>>

WorkerTick ==
  /\ now < MaxTime
  /\ now' = now + 1
  /\ UNCHANGED <<worker, due, sched, cond, closing, puts>>

WorkerRun ==
  WorkerTop \/ WorkerSleepTo \/ WorkerWake \/ WorkerWait
    \/ \E ts \in 0 .. MaxTime : WorkerPop(ts)

WorkerStep ==
  \/ WorkerRun
  \/ \E u \in Talkers, reschedule \in BOOLEAN : WorkerPut(u, reschedule)
  \/ \E u \in Talkers : WorkerDrop(u)
  \/ WorkerClose
  \/ WorkerTick

\* The heap of the sender and the list of the receiver hold the sockets that
\* are marked as held there, each once.
QueuesAgree == HeapAgrees /\ NewsInOrder
=============================================================================
