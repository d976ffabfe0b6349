------------------------------ MODULE UdtEpoll ------------------------------
(***************************************************************************)
(* UDT's epoll (epoll.cpp): the sets a program waits on and what the       *)
(* threads of UDT tell them, for one connection.  m_EPollLock guards each  *)
(* access, but nothing guards the steps from what a thread sees in the     *)
(* buffers to what it tells.  Reading and writing do not meet: a behaviour *)
(* is about one of the two kinds of events.                                *)
(***************************************************************************)
EXTENDS Integers, FiniteSets

CONSTANTS Eids,      \* epoll ids, in the order they are made
          MaxStock   \* m_iSndBufSize, and the bound of what waits for recv

ASSUME EpollAssumption == Eids \subseteq Nat /\ MaxStock \in Nat \ {0}

VARIABLES
  polls,      \* m_mPolls: what each watches and what is ready, of the socket
  pollIds,    \* m_sPollID of the socket
  conn,       \* "open", "broken" (m_bBroken, m_bClosing) or "closed"
  located,    \* CUDTUnited::locate finds the socket
  kind,       \* "in" or "out"
  stock,      \* packets that wait for recv, or that send has room for
  user,       \* the thread of the program that adds, removes and releases
  io,         \* the thread that sends and receives
  teller,     \* the receiver thread of UDT: an event it is about to tell
  closer,     \* the thread in CUDT::close, and how far it is
  dropped,    \* history: ids the socket was removed from, as long as it was there
  missed,     \* history: events taken back though they had come again
  torn        \* history: close left the ids behind a released one alone

epVars == <<polls, pollIds, conn, located, kind, stock, user, io, teller,
            closer, dropped, missed, torn>>

Events == {"in", "out"}
Idle == [at |-> "idle", eid |-> 0]

EpInit ==
  /\ polls = [e \in Eids |-> [state |-> "none", watch |-> {}, ready |-> {}]]
  /\ pollIds = {} /\ conn = "open" /\ located = TRUE
  /\ kind \in Events /\ stock = IF kind = "in" THEN 0 ELSE MaxStock
  /\ user = Idle /\ io = "idle" /\ teller = {} /\ closer = "idle"
  /\ dropped = {} /\ missed = FALSE /\ torn = FALSE

Live(e) == polls[e].state = "live"

Offers == stock > 0

\* update_epoll_sets in each poll of E that is there.  Nobody can watch
\* UDT_EPOLL_ERR: add_usock has no case for it.
Updated(E, evs, enable) ==
  [e \in Eids |->
     IF e \notin E \/ ~Live(e) THEN polls[e]
     ELSE [polls[e] EXCEPT !.ready = IF enable
                                     THEN @ \cup (evs \cap polls[e].watch)
                                     ELSE @ \ evs]]

\* The ids of polls that are no more are forgotten.
update_events(evs, enable) ==
  /\ polls' = Updated(pollIds, evs, enable)
  /\ pollIds' = {e \in pollIds : Live(e)}

-----------------------------------------------------------------------------
(* The thread of the program that has the epolls.                          *)
create(e) ==
  /\ user.at = "idle"
  /\ polls[e].state = "none" /\ \A d \in Eids : d < e => polls[d].state # "none"
  /\ polls' = [polls EXCEPT ![e].state = "live"]
  /\ UNCHANGED <<pollIds, conn, located, kind, stock, user, io, teller, closer,
                 dropped, missed, torn>>

release(e) ==
  /\ user.at = "idle" /\ Live(e)
  /\ polls' = [polls EXCEPT ![e] = [state |-> "gone", watch |-> {}, ready |-> {}]]
  /\ UNCHANGED <<pollIds, conn, located, kind, stock, user, io, teller, closer,
                 dropped, missed, torn>>

add_usock(e, evs) ==
  /\ user.at = "idle" /\ located /\ Live(e)
  /\ polls' = [polls EXCEPT ![e].watch = @ \cup evs]
  /\ user' = [at |-> "insert", eid |-> e]
  /\ dropped' = dropped \ {e}
  /\ UNCHANGED <<pollIds, conn, located, kind, stock, io, teller, closer,
                 missed, torn>>

(* Mutant: what the buffers hold already is not looked at.                 *)
AfterInsertIdle == Idle

AfterInsert == IF conn = "open" THEN [user EXCEPT !.at = "test"] ELSE Idle

\* addEPoll: the id, and then what there is by now.
addEPoll ==
  /\ user.at = "insert"
  /\ pollIds' = pollIds \cup {user.eid}
  /\ user' = AfterInsert
  /\ UNCHANGED <<polls, conn, located, kind, stock, io, teller, closer, dropped, missed, torn>>

addTests ==
  /\ user.at = "test"
  /\ user' = IF Offers THEN [user EXCEPT !.at = "tell"] ELSE Idle
  /\ UNCHANGED <<polls, pollIds, conn, located, kind, stock, io, teller, closer,
                 dropped, missed, torn>>

addTells ==
  /\ user.at = "tell"
  /\ update_events({kind}, TRUE)
  /\ user' = Idle /\ missed' = FALSE
  /\ UNCHANGED <<conn, located, kind, stock, io, teller, closer, dropped,
                 torn>>

Unwatched(poll) == [poll EXCEPT !.watch = {}]

\* A socket that is no more is ignored, its events left as they are.
remove_usock(e) ==
  /\ user.at = "idle" /\ Live(e)
  /\ polls' = [polls EXCEPT ![e] = Unwatched(@)]
  /\ user' = IF located THEN [at |-> "clear", eid |-> e] ELSE Idle
  /\ UNCHANGED <<pollIds, conn, located, kind, stock, io, teller, closer, dropped, missed, torn>>

removeEPollClears ==
  /\ user.at = "clear"
  /\ polls' = Updated({user.eid}, Events, FALSE)
  /\ user' = [user EXCEPT !.at = "erase"]
  /\ UNCHANGED <<pollIds, conn, located, kind, stock, io, teller, closer, dropped, missed, torn>>

removeEPollErases ==
  /\ user.at = "erase"
  /\ pollIds' = pollIds \ {user.eid}
  /\ user' = Idle /\ dropped' = dropped \cup {user.eid}
  /\ UNCHANGED <<polls, conn, located, kind, stock, io, teller, closer, missed, torn>>

-----------------------------------------------------------------------------
(* recv and send: what they leave behind is looked at, and then told.      *)
uses ==
  /\ io = "idle" /\ located /\ Offers
  /\ kind = "out" => conn = "open"
  /\ \E n \in 1..stock : stock' = stock - n
  /\ io' = IF stock' = 0 THEN "clear" ELSE "idle"
  /\ UNCHANGED <<polls, pollIds, conn, located, kind, user, teller, closer,
                 dropped, missed, torn>>

takesBack ==
  /\ io = "clear"
  /\ update_events({kind}, FALSE)
  /\ io' = "idle" /\ missed' = Offers
  /\ UNCHANGED <<conn, located, kind, stock, user, teller, closer, dropped,
                 torn>>

-----------------------------------------------------------------------------
(* The receiver thread of UDT: an ACK sent leaves more to read, one that   *)
(* was heard more room to write.                                           *)
acknowledges ==
  /\ teller = {} /\ conn = "open"
  /\ \E n \in 1 .. MaxStock - stock : stock' = stock + n
  /\ teller' = {kind}
  /\ UNCHANGED <<polls, pollIds, conn, located, kind, user, io, closer, dropped, missed, torn>>

tells ==
  /\ teller # {}
  /\ update_events(teller, TRUE)
  /\ teller' = {} /\ missed' = FALSE
  /\ UNCHANGED <<conn, located, kind, stock, user, io, closer, dropped,
                 torn>>

\* EXP tells everything; the shutdown of the peer nothing.
breaks ==
  /\ teller = {} /\ conn = "open"
  /\ conn' = "broken"
  /\ teller' \in {{}, {"in", "out", "err"}}
  /\ UNCHANGED <<polls, pollIds, located, kind, stock, user, io, closer, dropped, missed, torn>>

-----------------------------------------------------------------------------
(* CUDT::close, by the program or, for a connection that broke, by the     *)
(* collector: more than a second after the socket can no longer be found.  *)
collects ==
  /\ conn = "broken" /\ located
  /\ located' = FALSE
  /\ UNCHANGED <<polls, pollIds, conn, kind, stock, user, io, teller, closer,
                 dropped, missed, torn>>

close ==
  /\ closer = "idle" /\ user.at = "idle"
  /\ closer' = "unwatch"
  /\ update_events({"err"}, TRUE)
  /\ UNCHANGED <<conn, located, kind, stock, user, io, teller, dropped,
                 missed, torn>>

(* Mutant: the socket is taken out of the lowest id alone.                 *)
LeavesFirst ==
  LET L == {e \in pollIds : \A d \in pollIds : e <= d} IN
  [e \in Eids |-> IF e \in L /\ Live(e) THEN Unwatched(polls[e]) ELSE polls[e]]

\* The first id that is no more ends the loop.
Leaves ==
  [e \in Eids |-> IF e \in pollIds /\ \A d \in pollIds : d <= e => Live(d)
                  THEN Unwatched(polls[e]) ELSE polls[e]]

closes ==
  /\ closer = "unwatch" /\ user.at = "idle"
  /\ polls' = Leaves
  /\ torn' = \E e \in pollIds : ~Live(e)
  /\ conn' = "closed" /\ located' = FALSE /\ closer' = "done"
  /\ UNCHANGED <<pollIds, kind, stock, user, io, teller, dropped, missed>>

-----------------------------------------------------------------------------
(* The loop of epoll_wait, which changes nothing: it is left with an       *)
(* exception when the id is gone, or when nothing at all is watched        *)
(* (:193-210), and with events.  alone: no other socket is watched in e;   *)
(* one that is has nothing to tell.                                        *)
WaitIsOver(e, alone) ==
  \/ ~Live(e)
  \/ alone /\ polls[e].watch = {}
  \/ polls[e].ready # {}

-----------------------------------------------------------------------------
EpUser ==
  \/ \E e \in Eids : \/ create(e) \/ release(e) \/ remove_usock(e)
                    \/ \E evs \in {{kind}, Events} : add_usock(e, evs)
  \/ addEPoll \/ addTests \/ addTells \/ removeEPollClears \/ removeEPollErases

EpOthers ==
  \/ uses \/ takesBack \/ acknowledges \/ tells \/ breaks
  \/ collects \/ close \/ closes

EpStep == EpUser \/ EpOthers

\* What is obliged to go on, each thread for itself: a call that watches or
\* unwatches, recv or send (takesBack), the receiver thread (tells), and the
\* collector.
EpCalls == \/ addEPoll \/ addTests \/ addTells
           \/ removeEPollClears \/ removeEPollErases
EpCollector == collects \/ (~located /\ close) \/ closes

EpSpec == EpInit /\ [][EpStep]_epVars

-----------------------------------------------------------------------------
(* The variables hold values of their kind.                                *)
EpTypeOK ==
  /\ polls \in [Eids -> [state : {"none", "live", "gone"},
                         watch : SUBSET Events, ready : SUBSET Events]]
  /\ pollIds \subseteq Eids /\ dropped \subseteq Eids
  /\ conn \in {"open", "broken", "closed"} /\ located \in BOOLEAN
  /\ kind \in Events /\ stock \in 0 .. MaxStock
  /\ \/ user = Idle
     \/ user \in [at : {"insert", "test", "tell", "clear", "erase"}, eid : Eids]
  /\ io \in {"idle", "clear"} /\ closer \in {"idle", "unwatch", "done"}
  /\ teller = {} \/ (kind \in teller /\ teller \subseteq Events \cup {"err"})
  /\ missed \in BOOLEAN /\ torn \in BOOLEAN

(* Once a socket is taken out of an epoll, nothing is told about it there, *)
(* whatever the threads of UDT were about to tell (core.cpp, removeEPoll:  *)
(* "since this happens after the epoll ID has been removed, they cannot be *)
(* set again").                                                            *)
RemovedIsSilent == \A e \in dropped : polls[e].ready = {}

(* What is there is told, or about to be, in every epoll that watches it,  *)
(* unless recv or send took it back after it had come again.               *)
NothingMissed ==
  \A e \in pollIds :
    Live(e) /\ kind \in polls[e].watch /\ conn = "open" /\ Offers =>
      \/ kind \in polls[e].ready \cup teller
      \/ missed
      \/ user.at # "idle" /\ user.eid = e

(* Who waits for as long as it takes, beside other sockets or not, returns *)
(* when there is something to read, or room to write, that stays there,    *)
(* unless recv or send took the event back.                                *)
ReadyIsReturned(e) ==
  <>[](/\ Live(e) /\ e \in pollIds /\ kind \in polls[e].watch
       /\ conn = "open" /\ Offers /\ ~missed)
    => <>[]WaitIsOver(e, FALSE)

(* Who waits for this socket alone returns once the connection has ended,  *)
(* at the latest when the collector closes the socket, which takes it out  *)
(* of every epoll unless one of them is released meanwhile.  Beside other  *)
(* sockets nothing is sure: a shutdown is not told, and what EXP tells is  *)
(* taken back with the last packet that is read.                           *)
EndIsReturned ==
  <>(conn # "open") => <>[](torn \/ \A e \in Eids : WaitIsOver(e, TRUE))

(* No wait goes on for ever over what is there, or for what is no more.    *)
WaitReturns == EndIsReturned /\ \A e \in Eids : ReadyIsReturned(e)

\* Events are told where the socket is watched, and nowhere else, and the
\* variables hold values of their kind.
EpollTells == EpTypeOK /\ RemovedIsSilent /\ NothingMissed
=============================================================================
