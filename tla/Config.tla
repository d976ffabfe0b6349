------------------------------- MODULE Config -------------------------------
(***************************************************************************)
(* desktopsync.ini: src/src/config_dll.cpp, and the calls wmain makes to   *)
(* it.  The file is written key by key, by WritePrivateProfileString; the  *)
(* program may be killed between two keys, a write may fail unnoticed, and *)
(* the display may change at any time.                                     *)
(*                                                                         *)
(* All numbers are integers.  The sizes of the grid, doubles in the code,  *)
(* are counted in millionths, the precision they are written with; the     *)
(* right and bottom edges of the cells, which LoadFromIni computes from    *)
(* the rest, are left out.                                                 *)
(***************************************************************************)
EXTENDS Integers, Sequences

CONSTANTS
  Screens,     \* displays the machine may have
  Txts,        \* layouts desktop_layout.txt may hold
  NoTxt,       \* there is no such file
  Peers,       \* addresses of peers, as numbers
  NoState,     \* no state
  MaxStarts,   \* bound: starts of the program
  MaxChanges,  \* bound: changes of the display
  MaxTime,     \* bound: readings of the clock
  MaxFailures  \* bound: writes that fail

\* No display is so small that a cell of the grid is less than a pixel.
ASSUME ScreensAssumption ==
  /\ Screens # {}
  /\ Screens \subseteq [w : Nat, h : Nat, dpi : Nat]
  /\ \A s \in Screens : s.w >= 15 /\ s.h >= 12 /\ s.dpi > 0

ASSUME BoundsAssumption ==
  /\ MaxStarts \in Nat
  /\ MaxChanges \in Nat
  /\ MaxTime \in Nat
  /\ MaxFailures \in Nat
  /\ Peers \subseteq Nat \ {0}

Width == <<"Display", "ResolutionWidth">>
Height == <<"Display", "ResolutionHeight">>
Dpi == <<"Display", "DPI">>
GridW == <<"Grid", "cell_width">>
GridH == <<"Grid", "cell_height">>
Cell(i, j, axis) == <<"Cells", i, j, axis>>
Ipv4 == <<"p2pip", "ipv4">>
LastSync == <<"State", "last_sync">>

\* The keys of a layout, in the order SaveIni writes them.
LayoutOrder ==
  <<Width, Height, Dpi, <<"Corner", "min_x">>, <<"Corner", "min_y">>,
    <<"Corner", "max_x">>, <<"Corner", "max_y">>, GridW, GridH>>
  \o [n \in 1..18 |-> LET c == (n - 1) \div 2 IN
                      Cell(c % 3, c \div 3, IF n % 2 = 1 THEN "x" ELSE "y")]

\* (mutant: the cells are not saved)
SaveOrderNoCells == SubSeq(LayoutOrder, 1, 9) \o <<Ipv4, LastSync>>
SaveOrder == LayoutOrder \o <<Ipv4, LastSync>>

LayoutKeys == {LayoutOrder[n] : n \in 1..Len(LayoutOrder)}
Keys == LayoutKeys \cup {Ipv4, LastSync}

\* What the file holds are coordinates; NoTxt and NoState are neither layouts
\* nor states.
ASSUME TxtsAssumption ==
  /\ Txts \subseteq [LayoutKeys -> Nat]
  /\ NoTxt \notin Txts
  /\ NoState \notin [Keys -> Nat]

VARIABLES
  pc,      \* wmain: "off", "check", "compute", "save" or "run"
  mem,     \* the IniState: a value for each key
  next,    \* key SaveIni writes next
  ini,     \* the file; a key that is absent reads as 0
  screen,  \* the display
  txt,     \* the layout in desktop_layout.txt, or NoTxt; it stays
  starts, changes, time, failures,   \* counters, for the bounds
  calm,    \* the display has not changed since the program was started
  torn,    \* the file holds the result of a save that was cut short
  kept     \* what the next start has to find, if that is certain

history == <<calm, torn, kept>>
vars == <<pc, mem, next, ini, screen, txt, starts, changes, time, failures, history>>

-----------------------------------------------------------------------------
(* Layouts *)

\* n / d in millionths, as "%.6f" rounds it.
Millionths(n, d) == (n * 1000000 + d \div 2) \div d

\* Three by three cells in the lower right corner, a cell being a fifteenth of
\* the width and a twelfth of the height of the display.
LayoutOf(w, h, dpi) ==
  LET minX == (13 * w - 150) \div 15
      minY == (10 * h - 120) \div 12
      Value(k) ==
        CASE k = Width -> w
          [] k = Height -> h
          [] k = Dpi -> dpi
          [] k = <<"Corner", "min_x">> -> minX
          [] k = <<"Corner", "min_y">> -> minY
          [] k = <<"Corner", "max_x">> -> w - 10
          [] k = <<"Corner", "max_y">> -> h - 10
          [] k = GridW -> Millionths(w, 15)
          [] k = GridH -> Millionths(h, 12)
          [] k[1] = "Cells" -> IF k[4] = "x" THEN minX + (k[2] * w) \div 15
                                             ELSE minY + (k[3] * h) \div 12
  IN [k \in LayoutKeys |-> Value(k)]

\* ComputeDefaultLayout.
DefaultLayout(s) == LayoutOf(s.w, s.h, s.dpi)

\* What LoadFromIni returns, beside the state it read.
Loaded(m) ==
  /\ m[Width] > 0 /\ m[Height] > 0
  /\ m[GridW] > 100000 /\ m[GridH] > 100000

IsIncomplete(m, s) ==
  \/ m[Width] <= 0 \/ m[Height] <= 0
  \/ m[GridW] < 1000000 \/ m[GridH] < 1000000
  \/ m[Width] # s.w \/ m[Height] # s.h
  \/ m[Dpi] > 0 /\ m[Dpi] # s.dpi

\* TryLoadLayoutTxt takes a file that has the size of a display.
TxtCounts == txt # NoTxt /\ (txt[Width] > 0 /\ txt[Height] > 0)

-----------------------------------------------------------------------------
Init ==
  /\ pc = "off"
  /\ mem = [k \in Keys |-> 0]
  /\ next = 1
  /\ ini = [k \in Keys |-> 0]
  /\ screen \in Screens
  /\ txt \in Txts \cup {NoTxt}
  /\ starts = 0 /\ changes = 0 /\ time = 0 /\ failures = 0
  /\ calm = TRUE
  /\ torn = FALSE
  /\ kept = NoState

(* LoadOrInitConfig *)

\* LoadFromIni.
Load ==
  /\ pc = "off"
  /\ starts < MaxStarts
  /\ starts' = starts + 1
  /\ mem' = ini
  /\ calm' = TRUE
  /\ pc' = "check"
  /\ UNCHANGED <<next, ini, screen, txt, changes, time, failures, torn, kept>>

\* Is the file good for this display?
Check ==
  /\ pc = "check"
  /\ pc' = IF ~Loaded(mem) \/ IsIncomplete(mem, screen) THEN "compute" ELSE "run"
  /\ UNCHANGED <<mem, next, ini, screen, txt, starts, changes, time, failures,
                 history>>

\* (mutant: the cells are not filled in)
ComputeNoCells ==
  /\ pc = "compute"
  /\ LET layout == IF TxtCounts THEN txt ELSE DefaultLayout(screen) IN
     mem' = [k \in Keys |->
               IF k \in LayoutKeys /\ k[1] # "Cells" THEN layout[k]
               ELSE IF k = LastSync THEN 0 ELSE mem[k]]
  /\ next' = 1
  /\ torn' = FALSE
  /\ pc' = "save"
  /\ UNCHANGED <<ini, screen, txt, starts, changes, time, failures, calm, kept>>

\* A new layout; the peer stays, and lastSync starts over.
Compute ==
  /\ pc = "compute"
  /\ LET layout == IF TxtCounts THEN txt ELSE DefaultLayout(screen) IN
     mem' = [k \in Keys |-> IF k \in LayoutKeys THEN layout[k]
                            ELSE IF k = LastSync THEN 0 ELSE mem[k]]
  /\ next' = 1
  /\ torn' = FALSE
  /\ pc' = "save"
  /\ UNCHANGED <<ini, screen, txt, starts, changes, time, failures, calm, kept>>

\* WritePrivateProfileString; nobody looks at its result.
Write(k, v) ==
  \/ ini' = [ini EXCEPT ![k] = v] /\ UNCHANGED <<failures, torn>>
  \/ /\ failures < MaxFailures
     /\ failures' = failures + 1
     /\ torn' = TRUE
     /\ UNCHANGED ini

\* SaveIni, a key at a time; an unknown peer is not written.
SaveKey ==
  /\ pc = "save"
  /\ next <= Len(SaveOrder)
  /\ next' = next + 1
  /\ IF SaveOrder[next] = Ipv4 /\ mem[Ipv4] = 0
     THEN UNCHANGED <<ini, failures, torn>>
     ELSE Write(SaveOrder[next], mem[SaveOrder[next]])
  /\ UNCHANGED <<pc, mem, screen, txt, starts, changes, time, calm, kept>>

Saved ==
  /\ pc = "save"
  /\ next > Len(SaveOrder)
  /\ pc' = "run"
  /\ kept' = IF calm /\ ~torn /\ ~TxtCounts THEN mem ELSE NoState
  /\ UNCHANGED <<mem, next, ini, screen, txt, starts, changes, time, failures,
                 calm, torn>>

-----------------------------------------------------------------------------
(* The rest of wmain *)

\* wmain sets key k to v in memory and in the file.
Record(k, v) ==
  /\ pc = "run"
  /\ mem' = [mem EXCEPT ![k] = v]
  /\ \/ /\ ini' = [ini EXCEPT ![k] = v]
        /\ kept' = IF kept = NoState THEN NoState ELSE [kept EXCEPT ![k] = v]
        /\ UNCHANGED failures
     \/ /\ failures < MaxFailures
        /\ failures' = failures + 1
        /\ kept' = NoState
        /\ UNCHANGED ini
  /\ UNCHANGED <<pc, next, screen, txt, starts, changes, calm, torn>>

\* SavePeerToIni, after the handshake.
SavePeerToIni(ip) == Record(Ipv4, ip) /\ UNCHANGED time

\* UpdateLastSync, after an attempt to upload.
UpdateLastSync == time < MaxTime /\ time' = time + 1 /\ Record(LastSync, time')

-----------------------------------------------------------------------------
(* The program ends, or is killed; the display changes *)

Stop ==
  /\ pc # "off"
  /\ pc' = "off"
  /\ torn' = (torn \/ pc = "save")
  /\ UNCHANGED <<mem, next, ini, screen, txt, starts, changes, time, failures,
                 calm, kept>>

ScreenChanges ==
  /\ changes < MaxChanges
  /\ changes' = changes + 1
  /\ screen' \in Screens \ {screen}
  /\ calm' = FALSE
  /\ kept' = NoState
  /\ UNCHANGED <<pc, mem, next, ini, txt, starts, time, failures, torn>>

Next ==
  \/ Load \/ Check \/ Compute \/ SaveKey \/ Saved
  \/ \E ip \in Peers : SavePeerToIni(ip)
  \/ UpdateLastSync
  \/ Stop \/ ScreenChanges

Spec == Init /\ [][Next]_vars

-----------------------------------------------------------------------------
(* Properties *)

TypeOK ==
  /\ pc \in {"off", "check", "compute", "save", "run"}
  /\ mem \in [Keys -> Nat]
  /\ ini \in [Keys -> Nat]
  /\ mem[LastSync] <= time /\ ini[LastSync] <= time
  /\ next \in 1..Len(SaveOrder) + 1
  /\ screen \in Screens /\ txt \in Txts \cup {NoTxt}
  /\ starts \in Nat /\ changes \in Nat /\ time \in Nat /\ failures \in Nat
  /\ calm \in BOOLEAN /\ torn \in BOOLEAN
  /\ kept = NoState \/ kept \in [Keys -> Nat]

\* Whatever saves were cut short or failed before, the program runs with the
\* size of the display it was started on, unless desktop_layout.txt says
\* otherwise; a DPI it does not know it takes for the right one
\* (config_dll.cpp:215-227).
ScreenIsRight ==
  pc = "run" /\ calm /\ ~TxtCounts =>
    /\ mem[Width] = screen.w
    /\ mem[Height] = screen.h
    /\ mem[Dpi] \in {0, screen.dpi}

\* A layout comes back from the file as a whole: the corner, the grid and the
\* cells are those of one display, or of desktop_layout.txt, unless the save
\* that wrote them was cut short.
LayoutIsWhole ==
  pc = "run" /\ ~torn =>
    LET layout == [k \in LayoutKeys |-> mem[k]] IN
    (TxtCounts /\ layout = txt) \/ \E s \in Screens : layout = DefaultLayout(s)

\* A program that is started again on the same display finds everything as it
\* was, lastSync and the peer included: its own file never looks incomplete to
\* it, so that it does not begin anew.
RestartFindsAll ==
  kept # NoState => /\ pc \notin {"compute", "save"}
                    /\ pc \in {"check", "run"} => mem = kept

\* What the program runs with: values of their kind, the size of the display
\* and a layout that belongs together.
LayoutIsRight == TypeOK /\ ScreenIsRight /\ LayoutIsWhole
=============================================================================
