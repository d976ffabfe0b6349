------------------------------ MODULE TrayHook ------------------------------
(***************************************************************************)
(* The tray icon: src/src/trayhook_dll.cpp.  Main and the receiving thread *)
(* call UpdateTray, which stores its arguments under a lock and posts a    *)
(* message that says nothing but that there is something to read; the UI   *)
(* thread makes the window and the icon, then handles its messages one by  *)
(* one and reads what was stored last.  A critical section is one step.    *)
(*                                                                         *)
(* The model stands between StartTrayHook and the end of the UI thread;    *)
(* wmain never comes to StopTrayHook.                                      *)
(***************************************************************************)
EXTENDS Naturals, Sequences

CONSTANTS
  Callers,     \* threads that call UpdateTray
  QueueLimit,  \* messages a thread's queue holds; what is posted beyond is lost
  MaxUpdates,  \* bound: calls of UpdateTray
  MaxMenus,    \* bound: right clicks on the icon
  MaxClicks    \* bound: clicks on the desktop

\* Windows lets 10,000 messages wait; they are updates, but for a few.
ASSUME TrayBounds ==
  /\ MaxUpdates \in Nat
  /\ MaxMenus \in Nat
  /\ MaxClicks \in Nat
  /\ QueueLimit \in Nat
  /\ QueueLimit > 2 * MaxMenus

VARIABLES
  calling,  \* calling[c]: "idle", "write" or "post", where c is in UpdateTray
  arg,      \* arg[c]: the update c was called with, known by its number
  latest,   \* g_state, g_cur, g_total, g_error: the update written last
  window,   \* g_hwnd: "none", "made", or "gone", a handle gone stale
  queue,    \* messages posted to the UI thread
  ui,       \* where the UI thread is
  back,     \* the loop ApplyTray returns to: its own or that of the menu
  snap,     \* what ApplyTray read
  icon,     \* the update the icon shows
  unseen,   \* nobody was told of the latest update, or the icon's file is missing
  fired,    \* calls of g_trigger
  updates, menus, clicks   \* counters, for the bounds

callerVars == <<calling, arg>>
uiVars == <<ui, back, snap, icon>>
counters == <<updates, menus, clicks>>
trayVars == <<callerVars, latest, window, queue, uiVars, unseen, fired, counters>>

NoIcon == MaxUpdates + 1

\* Update 0 is the one of StartTrayHook, "Not connected".
TrayInit ==
  /\ calling = [c \in Callers |-> "idle"]
  /\ arg = [c \in Callers |-> 0]
  /\ latest = 0
  /\ window = "none"
  /\ queue = <<>>
  /\ ui = "create"
  /\ back = "loop"
  /\ snap = 0
  /\ icon = NoIcon
  /\ unseen = FALSE
  /\ fired = 0
  /\ updates = 0
  /\ menus = 0
  /\ clicks = 0

\* PostMessageW reaches a window that exists and whose queue has room.
Post(m) ==
  queue' = IF window = "made" /\ Len(queue) < QueueLimit
           THEN Append(queue, m) ELSE queue

-----------------------------------------------------------------------------
(* UpdateTray *)

Call(c) ==
  /\ calling[c] = "idle"
  /\ updates < MaxUpdates
  /\ updates' = updates + 1
  /\ arg' = [arg EXCEPT ![c] = updates + 1]
  /\ calling' = [calling EXCEPT ![c] = "write"]
  /\ UNCHANGED <<latest, window, queue, uiVars, unseen, fired, menus, clicks>>

Store(c) ==
  /\ calling[c] = "write"
  /\ latest' = arg[c]
  /\ calling' = [calling EXCEPT ![c] = "post"]
  /\ UNCHANGED <<arg, window, queue, uiVars, unseen, fired, counters>>

\* (mutant: no message is posted while others wait)
PostUpdateCoalesced(c) ==
  /\ calling[c] = "post"
  /\ IF queue = <<>> THEN Post("update") ELSE UNCHANGED queue
  /\ unseen' = (window # "made")
  /\ calling' = [calling EXCEPT ![c] = "idle"]
  /\ UNCHANGED <<arg, latest, window, uiVars, fired, counters>>

\* The window may not be there yet, or no more: then nobody is told.
PostUpdate(c) ==
  /\ calling[c] = "post"
  /\ Post("update")
  /\ unseen' = (window # "made")
  /\ calling' = [calling EXCEPT ![c] = "idle"]
  /\ UNCHANGED <<arg, latest, window, uiVars, fired, counters>>

-----------------------------------------------------------------------------
(* UiThread *)

CreateWindow ==
  /\ ui = "create"
  /\ ui' = "add"
  /\ window' = "made"
  /\ UNCHANGED <<callerVars, latest, queue, back, snap, icon, unseen, fired, counters>>

\* The icon says "Not connected", whatever was written meanwhile; the mouse
\* hook is set.
AddIcon ==
  /\ ui = "add"
  /\ ui' = "loop"
  /\ icon' = 0
  /\ unseen' = (latest # 0 /\ queue = <<>>)
  /\ UNCHANGED <<callerVars, latest, window, queue, back, snap, fired, counters>>

\* A message is taken by the loop, or by the one TrackPopupMenu runs.
Take(m) ==
  /\ ui \in {"loop", "menu"}
  /\ queue # <<>>
  /\ Head(queue) = m
  /\ queue' = Tail(queue)

\* (mutant: the icon is updated only when the menu is closed)
ApplyInLoop ==
  /\ ui = "loop"
  /\ Take("update")
  /\ snap' = latest
  /\ back' = ui
  /\ ui' = "show"
  /\ UNCHANGED <<callerVars, latest, window, icon, unseen, fired, counters>>

\* WM_UPDATE_STATE: ApplyTray reads what was stored last...
Apply ==
  /\ Take("update")
  /\ snap' = latest
  /\ back' = ui
  /\ ui' = "show"
  /\ UNCHANGED <<callerVars, latest, window, icon, unseen, fired, counters>>

\* ... and tells the shell, if the icon's file can be loaded.
Show ==
  /\ ui = "show"
  /\ ui' = back
  /\ \/ icon' = snap /\ unseen' = FALSE
     \/ unseen' = TRUE /\ UNCHANGED icon
  /\ UNCHANGED <<callerVars, latest, window, queue, back, snap, fired, counters>>

\* WM_TRAYICON: a menu, and no second one while it is open.
Menu ==
  /\ Take("menu")
  /\ ui' = "menu"
  /\ UNCHANGED <<callerVars, latest, window, back, snap, icon, unseen, fired, counters>>

\* TrackPopupMenu returns: nothing, the peer's address, or Exit was chosen.
Choose ==
  /\ ui = "menu"
  /\ ui' = "loop"
  /\ \/ UNCHANGED <<queue, fired>>
     \/ fired' = fired + 1 /\ UNCHANGED queue
     \/ Post("close") /\ UNCHANGED fired
  /\ UNCHANGED <<callerVars, latest, window, back, snap, icon, unseen, counters>>

\* (mutant: WM_DESTROY is not handled)
DestroyUnhandled ==
  /\ Take("close")
  /\ window' = "gone"
  /\ ui' = "loop"
  /\ UNCHANGED <<callerVars, latest, back, snap, icon, unseen, fired, counters>>

\* WM_CLOSE destroys the window, WM_DESTROY removes the icon and ends the loop;
\* what is still posted to the window is dropped.  Nobody tells wmain.
Destroy ==
  /\ Take("close")
  /\ window' = "gone"
  /\ icon' = NoIcon
  /\ ui' = "ended"
  /\ UNCHANGED <<callerVars, latest, back, snap, unseen, fired, counters>>

UiThread ==
  CreateWindow \/ AddIcon \/ Apply \/ Show \/ Menu \/ Destroy

-----------------------------------------------------------------------------
(* The user *)

RightClick ==
  /\ icon # NoIcon
  /\ menus < MaxMenus
  /\ menus' = menus + 1
  /\ Post("menu")
  /\ UNCHANGED <<callerVars, latest, window, uiVars, unseen, fired, updates, clicks>>

\* LowLevelMouseProc runs on the UI thread, when that waits for messages.
ClickDesktop ==
  /\ ui \in {"loop", "menu"}
  /\ clicks < MaxClicks
  /\ clicks' = clicks + 1
  /\ fired' = fired + 1
  /\ UNCHANGED <<callerVars, latest, window, queue, uiVars, unseen, updates, menus>>

TrayNext ==
  \/ \E c \in Callers : Call(c) \/ Store(c) \/ PostUpdate(c)
  \/ UiThread \/ Choose \/ RightClick \/ ClickDesktop

TraySpec == TrayInit /\ [][TrayNext]_trayVars

-----------------------------------------------------------------------------
(* Properties *)

TrayTypeOK ==
  /\ calling \in [Callers -> {"idle", "write", "post"}]
  /\ arg \in [Callers -> 0..updates]
  /\ latest \in 0..updates
  /\ window \in {"none", "made", "gone"}
  /\ queue \in Seq({"update", "menu", "close"})
  /\ Len(queue) <= QueueLimit
  /\ ui \in {"create", "add", "loop", "menu", "show", "ended"}
  /\ back \in {"loop", "menu"}
  /\ snap \in 0..updates
  /\ icon \in 0..updates \cup {NoIcon}
  /\ unseen \in BOOLEAN
  /\ fired \in Nat
  /\ updates \in 0..MaxUpdates
  /\ menus \in Nat
  /\ clicks \in Nat

\* When the UI thread has nothing to do and nobody is about to tell it
\* something, the icon shows what was written last, whoever wrote it and in
\* whatever order the messages came, also when the queue was full.
IconCatchesUp ==
  /\ ui \in {"loop", "menu"}
  /\ queue = <<>>
  /\ \A c \in Callers : calling[c] # "post"
  /\ ~unseen
  => icon = latest

\* What was written last is shown in the end, a menu left open or not, unless
\* it came before the window or after its end.
LatestIsShown ==
  \A u \in 1..MaxUpdates :
    latest = u ~> (icon = u \/ latest # u \/ unseen \/ window = "gone")

\* Exit ends the UI thread, whatever is in the queue before it.
ExitEndsUi ==
  (\E k \in 1..Len(queue) : queue[k] = "close") ~> ui = "ended"

\* The variables hold values of their kind, and the icon catches up.
IconIsRight == TrayTypeOK /\ IconCatchesUp
=============================================================================
