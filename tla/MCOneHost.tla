----------------------------- MODULE MCOneHost -----------------------------
(***************************************************************************)
(* What a host keeps in its file, over kills and new starts (Config), and  *)
(* what it shows in its tray (TrayHook).  The two share nothing: a         *)
(* behaviour is about one of them, the subject, and the other stays as it  *)
(* is.                                                                     *)
(***************************************************************************)
EXTENDS Config, TrayHook, TLC

\* Two displays that differ in size, and two that differ in DPI alone.
MCScreens == {[w |-> 1366, h |-> 768, dpi |-> 96],
              [w |-> 1920, h |-> 1080, dpi |-> 96],
              [w |-> 1920, h |-> 1080, dpi |-> 120]}

MCPeers == {7}

\* A desktop_layout.txt for the second of them, with a corner of its own; the
\* file has no DPI, and 96 is the default.
MCTxts == {[LayoutOf(1920, 1080, 96) EXCEPT ![<<"Corner", "min_x">>] = 100]}

CONSTANTS main, server   \* the threads that call UpdateTray

VARIABLE subject

hostVars == <<vars, trayVars, subject>>

HostInit ==
  /\ Init /\ TrayInit
  /\ subject \in {"file", "tray"}
  /\ subject = "tray" => txt = NoTxt /\ screen = CHOOSE s \in Screens : TRUE

File(A) == subject = "file" /\ A /\ UNCHANGED <<trayVars, subject>>
Tray(A) == subject = "tray" /\ A /\ UNCHANGED <<vars, subject>>

HostNext == File(Next) \/ Tray(TrayNext)

\* The threads run; the user may leave the menu open forever.
HostSpec ==
  /\ HostInit /\ [][HostNext]_hostVars
  /\ WF_hostVars(Tray(UiThread))
  /\ \A c \in Callers : WF_hostVars(Tray(Store(c) \/ PostUpdate(c)))
=============================================================================
