---------------------------- MODULE ConfigProofs ----------------------------
(***************************************************************************)
(* Machine-checked proofs about Config, for any displays, any layouts in   *)
(* desktop_layout.txt, any peers and any number of starts and failures.    *)
(* The argument: while nothing was cut short, the file holds a layout as a *)
(* whole, or none at all, and during a save the keys before the next one   *)
(* are those in memory; and a layout the program computed for a display is *)
(* never incomplete for that display.                                      *)
(***************************************************************************)
EXTENDS Config, SequenceTheorems, TLAPS

\* The layout in a state.
LayoutIn(m) == [k \in LayoutKeys |-> m[k]]

\* A layout that belongs together.
Whole(m) ==
  \/ TxtCounts /\ LayoutIn(m) = txt
  \/ \E s \in Screens : LayoutIn(m) = DefaultLayout(s)

\* Nothing was written yet.
Blank(m) == \A k \in LayoutKeys : m[k] = 0

\* What SaveIni has written is in the file.
WrittenUpTo(n) ==
  \A i \in 1..n - 1 : ini[SaveOrder[i]] = mem[SaveOrder[i]]

\* A layout computed for the display the program runs on.
MadeForScreen(m) == LayoutIn(m) = DefaultLayout(screen)

\* Memory: a copy of the file until it is checked, a whole layout while it is
\* saved.
MemInv ==
  /\ pc = "check" => mem = ini
  /\ pc \in {"compute", "save"} => ini[Ipv4] = mem[Ipv4]
  /\ pc = "save" => Whole(mem) /\ (calm /\ ~TxtCounts => MadeForScreen(mem))
  /\ pc = "run" /\ ~torn => Whole(mem)
  /\ pc = "run" /\ calm /\ ~TxtCounts =>
       mem[Width] = screen.w /\ mem[Height] = screen.h /\ mem[Dpi] \in {0, screen.dpi}

\* The file, as long as no save was cut short.
FileInv ==
  ~torn => IF pc = "save" THEN WrittenUpTo(next) ELSE Blank(ini) \/ Whole(ini)

\* What the next start has to find is in the file, and good for the display.
KeptInv ==
  kept # NoState =>
    /\ pc \in {"off", "check", "run"}
    /\ ini = kept
    /\ pc # "off" => mem = kept
    /\ MadeForScreen(kept)

IInv == TypeOK /\ MemInv /\ FileInv /\ KeptInv

-----------------------------------------------------------------------------
(* Keys and layouts *)

Corners == {<<"Corner", "min_x">>, <<"Corner", "min_y">>,
            <<"Corner", "max_x">>, <<"Corner", "max_y">>}
FirstKeys == {Width, Height, Dpi, GridW, GridH} \cup Corners
CellKeys == {Cell(i, j, a) : i \in 0..2, j \in 0..2, a \in {"x", "y"}}

FirstOrder == <<Width, Height, Dpi, <<"Corner", "min_x">>, <<"Corner", "min_y">>,
                <<"Corner", "max_x">>, <<"Corner", "max_y">>, GridW, GridH>>
CellOrder == [n \in 1..18 |-> LET c == (n - 1) \div 2 IN
                              Cell(c % 3, c \div 3, IF n % 2 = 1 THEN "x" ELSE "y")]

LEMMA FirstOrderType ==
  /\ FirstOrder \in Seq(FirstKeys) /\ Len(FirstOrder) = 9
  /\ \A k \in FirstKeys : \E i \in 1..9 : FirstOrder[i] = k
<1>1. FirstOrder \in Seq(FirstKeys) /\ Len(FirstOrder) = 9
  BY DEF FirstOrder, FirstKeys, Corners
<1>2. /\ FirstOrder[1] = Width /\ FirstOrder[2] = Height /\ FirstOrder[3] = Dpi
      /\ FirstOrder[4] = <<"Corner", "min_x">> /\ FirstOrder[5] = <<"Corner", "min_y">>
      /\ FirstOrder[6] = <<"Corner", "max_x">> /\ FirstOrder[7] = <<"Corner", "max_y">>
      /\ FirstOrder[8] = GridW /\ FirstOrder[9] = GridH
  BY DEF FirstOrder
<1>3. 1 \in 1..9 /\ 2 \in 1..9 /\ 3 \in 1..9 /\ 4 \in 1..9 /\ 5 \in 1..9
      /\ 6 \in 1..9 /\ 7 \in 1..9 /\ 8 \in 1..9 /\ 9 \in 1..9
  OBVIOUS
<1> QED BY <1>1, <1>2, <1>3, Zenon DEF FirstKeys, Corners

LEMMA CellOrderType == CellOrder \in Seq(CellKeys) /\ Len(CellOrder) = 18
<1>1. ASSUME NEW n \in 1..18 PROVE CellOrder[n] \in CellKeys
  <2> DEFINE c == (n - 1) \div 2
  <2>1. c % 3 \in 0..2 /\ c \div 3 \in 0..2
    OBVIOUS
  <2>2. CellOrder[n] = Cell(c % 3, c \div 3, IF n % 2 = 1 THEN "x" ELSE "y")
    BY DEF CellOrder
  <2>3. ASSUME NEW i \in 0..2, NEW j \in 0..2, NEW a \in {"x", "y"}
        PROVE  Cell(i, j, a) \in CellKeys
    BY DEF CellKeys
  <2>4. (IF n % 2 = 1 THEN "x" ELSE "y") \in {"x", "y"}
    OBVIOUS
  <2> HIDE DEF c
  <2> QED BY <2>1, <2>2, <2>3, <2>4
<1>2. CellOrder \in [1..18 -> CellKeys]
  BY <1>1 DEF CellOrder
<1>3. CellOrder \in Seq(CellKeys)
  BY <1>2, SeqDef
<1>4. DOMAIN CellOrder = 1..18
  BY DEF CellOrder
<1>5. DOMAIN CellOrder = 1..Len(CellOrder) /\ Len(CellOrder) \in Nat
  BY <1>3, LenProperties
<1>6. Len(CellOrder) = 18
  BY <1>4, <1>5
<1> QED BY <1>3, <1>6

\* The order in which SaveIni writes, and what tells the keys apart.
LEMMA KeyOrder ==
  /\ Len(SaveOrder) = 29
  /\ \A n \in 1..27 : SaveOrder[n] \in LayoutKeys
  /\ SaveOrder[28] = Ipv4 /\ SaveOrder[29] = LastSync
  /\ \A k \in LayoutKeys : \E n \in 1..27 : SaveOrder[n] = k
  /\ LayoutKeys \subseteq FirstKeys \cup CellKeys
  /\ FirstKeys \subseteq LayoutKeys
<1> DEFINE K == FirstKeys \cup CellKeys \cup {Ipv4, LastSync}
<1>1. FirstOrder \in Seq(FirstKeys \cup CellKeys) /\ CellOrder \in Seq(FirstKeys \cup CellKeys)
  BY FirstOrderType, CellOrderType
<1>2. LayoutOrder = FirstOrder \o CellOrder
  BY DEF LayoutOrder, FirstOrder, CellOrder
<1>3. /\ LayoutOrder \in Seq(FirstKeys \cup CellKeys)
      /\ Len(LayoutOrder) = 27
      /\ \A i \in 1..9 : LayoutOrder[i] = FirstOrder[i]
  <2>1. /\ LayoutOrder \in Seq(FirstKeys \cup CellKeys)
        /\ Len(LayoutOrder) = Len(FirstOrder) + Len(CellOrder)
        /\ \A i \in 1..Len(FirstOrder) + Len(CellOrder) : LayoutOrder[i] =
             IF i <= Len(FirstOrder) THEN FirstOrder[i]
                                     ELSE CellOrder[i - Len(FirstOrder)]
    BY <1>1, <1>2, ConcatProperties
  <2> QED BY <2>1, FirstOrderType, CellOrderType
<1>4. <<Ipv4, LastSync>> \in Seq(K) /\ LayoutOrder \in Seq(K)
      /\ Len(<<Ipv4, LastSync>>) = 2
      /\ <<Ipv4, LastSync>>[1] = Ipv4 /\ <<Ipv4, LastSync>>[2] = LastSync
  <2>1. Ipv4 \in K /\ LastSync \in K
    OBVIOUS
  <2> HIDE DEF K
  <2>2. <<Ipv4, LastSync>> \in Seq(K)
    BY <2>1
  <2>3. LayoutOrder \in Seq(K)
    BY <1>3, SeqMonotonic DEF K
  <2> QED BY <2>2, <2>3
<1>5. /\ Len(SaveOrder) = 29
      /\ \A i \in 1..29 : SaveOrder[i] =
           IF i <= 27 THEN LayoutOrder[i] ELSE <<Ipv4, LastSync>>[i - 27]
  <2> DEFINE tail == <<Ipv4, LastSync>>
  <2>1. tail \in Seq(K) /\ LayoutOrder \in Seq(K) /\ Len(tail) = 2
    BY <1>4
  <2>2. SaveOrder = LayoutOrder \o tail
    BY DEF SaveOrder
  <2> HIDE DEF K, tail
  <2>3. /\ Len(SaveOrder) = Len(LayoutOrder) + Len(tail)
        /\ \A i \in 1..Len(LayoutOrder) + Len(tail) : SaveOrder[i] =
             IF i <= Len(LayoutOrder) THEN LayoutOrder[i]
                                      ELSE tail[i - Len(LayoutOrder)]
    BY <2>1, <2>2, ConcatProperties
  <2>4. /\ Len(SaveOrder) = 29
        /\ \A i \in 1..29 : SaveOrder[i] =
             IF i <= 27 THEN LayoutOrder[i] ELSE tail[i - 27]
    BY <1>3, <2>1, <2>3
  <2> QED BY <2>4 DEF tail
<1>6. LayoutKeys = {LayoutOrder[n] : n \in 1..27}
  BY <1>3 DEF LayoutKeys
<1>7. LayoutKeys \subseteq FirstKeys \cup CellKeys
  <2>1. \A n \in 1..27 : LayoutOrder[n] \in FirstKeys \cup CellKeys
    BY <1>3, ElementOfSeq
  <2> QED BY <1>6, <2>1
<1>8. FirstKeys \subseteq LayoutKeys
  BY <1>3, <1>6, FirstOrderType
<1>9. \A n \in 1..27 : SaveOrder[n] = LayoutOrder[n]
  BY <1>5
<1>10. SaveOrder[28] = Ipv4 /\ SaveOrder[29] = LastSync
  BY <1>4, <1>5
<1> QED BY <1>5, <1>6, <1>7, <1>8, <1>9, <1>10

LEMMA KeysApart ==
  /\ Ipv4 \notin LayoutKeys /\ LastSync \notin LayoutKeys /\ Ipv4 # LastSync
  /\ Width \in LayoutKeys /\ Height \in LayoutKeys /\ Dpi \in LayoutKeys
  /\ GridW \in LayoutKeys /\ GridH \in LayoutKeys
<1>1. \A k \in FirstKeys \cup CellKeys : k[1] \in {"Display", "Corner", "Grid", "Cells"}
  BY DEF FirstKeys, CellKeys, Cell, Corners, Width, Height, Dpi, GridW, GridH
<1>2. Ipv4[1] = "p2pip" /\ LastSync[1] = "State"
  BY DEF Ipv4, LastSync
<1> QED BY <1>1, <1>2, KeyOrder DEF FirstKeys

\* The keys that are no cells, by section and name.
LEMMA KeyNames ==
  /\ Width[1] = "Display" /\ Width[2] = "ResolutionWidth"
  /\ Height[1] = "Display" /\ Height[2] = "ResolutionHeight"
  /\ Dpi[1] = "Display" /\ Dpi[2] = "DPI"
  /\ GridW[1] = "Grid" /\ GridW[2] = "cell_width"
  /\ GridH[1] = "Grid" /\ GridH[2] = "cell_height"
  /\ \A n \in {"min_x", "min_y", "max_x", "max_y"} :
       <<"Corner", n>>[1] = "Corner" /\ <<"Corner", n>>[2] = n
  /\ Corners = {<<"Corner", n>> : n \in {"min_x", "min_y", "max_x", "max_y"}}
  BY DEF Width, Height, Dpi, GridW, GridH, Corners

\* No layout has a number below zero.
LEMMA LayoutOfType ==
  ASSUME NEW s \in Screens
  PROVE  DefaultLayout(s) \in [LayoutKeys -> Nat]
<1> DEFINE minX == (13 * s.w - 150) \div 15
           minY == (10 * s.h - 120) \div 12
<1>1. /\ s.w \in Nat /\ s.h \in Nat /\ s.dpi \in Nat
      /\ s.w >= 15 /\ s.h >= 12 /\ s.dpi > 0
  BY ScreensAssumption
<1>2. /\ minX \in Nat /\ minY \in Nat
      /\ Millionths(s.w, 15) \in Nat /\ Millionths(s.h, 12) \in Nat
  BY <1>1 DEF Millionths
<1>3. ASSUME NEW i \in 0..2
      PROVE  minX + (i * s.w) \div 15 \in Nat /\ minY + (i * s.h) \div 12 \in Nat
  <2>1. CASE i = 0
    BY <1>1, <1>2, <2>1
  <2>2. CASE i = 1
    BY <1>1, <1>2, <2>2
  <2>3. CASE i = 2
    BY <1>1, <1>2, <2>3
  <2> QED BY <2>1, <2>2, <2>3
<1> HIDE DEF minX, minY
<1>4. ASSUME NEW k \in LayoutKeys
      PROVE  DefaultLayout(s)[k] \in Nat
  <2>1. DefaultLayout(s)[k] =
          CASE k = Width -> s.w
            [] k = Height -> s.h
            [] k = Dpi -> s.dpi
            [] k = <<"Corner", "min_x">> -> minX
            [] k = <<"Corner", "min_y">> -> minY
            [] k = <<"Corner", "max_x">> -> s.w - 10
            [] k = <<"Corner", "max_y">> -> s.h - 10
            [] k = GridW -> Millionths(s.w, 15)
            [] k = GridH -> Millionths(s.h, 12)
            [] k[1] = "Cells" -> IF k[4] = "x" THEN minX + (k[2] * s.w) \div 15
                                               ELSE minY + (k[3] * s.h) \div 12
    BY DEF DefaultLayout, LayoutOf, minX, minY
  <2>2. s.w - 10 \in Nat /\ s.h - 10 \in Nat
    BY <1>1
  <2>3. CASE k \in FirstKeys
    <3>1. k[1] # "Cells"
      BY <2>3 DEF FirstKeys, Corners, Width, Height, Dpi, GridW, GridH
    <3>2. CASE k \in {Width, Height, Dpi}
      BY <1>1, <2>1, <3>2, KeyNames
    <3>3. CASE k \in {GridW, GridH}
      BY <1>2, <2>1, <3>3, KeyNames
    <3>4. CASE k = <<"Corner", "min_x">> \/ k = <<"Corner", "min_y">>
      BY <1>2, <2>1, <3>4, KeyNames
    <3>5. CASE k = <<"Corner", "max_x">> \/ k = <<"Corner", "max_y">>
      BY <2>1, <2>2, <3>5, KeyNames
    <3> QED BY <2>3, <3>2, <3>3, <3>4, <3>5 DEF FirstKeys, Corners
  <2>4. CASE k \in CellKeys
    <3>1. PICK i \in 0..2, j \in 0..2, a \in {"x", "y"} : k = Cell(i, j, a)
      BY <2>4 DEF CellKeys
    <3>2. k[1] = "Cells" /\ k[2] = i /\ k[3] = j /\ k[4] = a
      BY <3>1 DEF Cell
    <3>3. k \notin FirstKeys
      BY <3>2 DEF FirstKeys, Corners, Width, Height, Dpi, GridW, GridH
    <3>4. DefaultLayout(s)[k] =
            IF a = "x" THEN minX + (i * s.w) \div 15 ELSE minY + (j * s.h) \div 12
      BY <2>1, <3>2, <3>3 DEF FirstKeys, Corners
    <3> QED BY <1>3, <3>4
  <2>5. k \in FirstKeys \/ k \in CellKeys
    BY KeyOrder
  <2> QED BY <2>3, <2>4, <2>5
<1> QED BY <1>4, Zenon DEF DefaultLayout, LayoutOf

\* A layout computed for a display is complete for that display.
LEMMA DefaultIsComplete ==
  ASSUME NEW s \in Screens, NEW m, LayoutIn(m) = DefaultLayout(s)
  PROVE  /\ Loaded(m) /\ ~IsIncomplete(m, s)
         /\ m[Width] = s.w /\ m[Height] = s.h /\ m[Dpi] = s.dpi
<1>1. /\ s.w \in Nat /\ s.h \in Nat /\ s.dpi \in Nat
      /\ s.w >= 15 /\ s.h >= 12 /\ s.dpi > 0
  BY ScreensAssumption
<1>2. /\ DefaultLayout(s)[Width] = s.w /\ DefaultLayout(s)[Height] = s.h
      /\ DefaultLayout(s)[Dpi] = s.dpi
      /\ DefaultLayout(s)[GridW] = Millionths(s.w, 15)
      /\ DefaultLayout(s)[GridH] = Millionths(s.h, 12)
  <2>1. DefaultLayout(s)[Width] = s.w
    BY KeysApart, KeyNames DEF DefaultLayout, LayoutOf
  <2>2. DefaultLayout(s)[Height] = s.h
    BY KeysApart, KeyNames DEF DefaultLayout, LayoutOf
  <2>3. DefaultLayout(s)[Dpi] = s.dpi
    BY KeysApart, KeyNames DEF DefaultLayout, LayoutOf
  <2>4. DefaultLayout(s)[GridW] = Millionths(s.w, 15)
    BY KeysApart, KeyNames DEF DefaultLayout, LayoutOf
  <2>5. DefaultLayout(s)[GridH] = Millionths(s.h, 12)
    BY KeysApart, KeyNames DEF DefaultLayout, LayoutOf
  <2> QED BY <2>1, <2>2, <2>3, <2>4, <2>5
<1>3. \A k \in LayoutKeys : m[k] = DefaultLayout(s)[k]
  BY DEF LayoutIn
<1>4. Millionths(s.w, 15) >= 1000000 /\ Millionths(s.h, 12) >= 1000000
  BY <1>1 DEF Millionths
<1>5. Millionths(s.w, 15) \in Nat /\ Millionths(s.h, 12) \in Nat
  BY <1>1 DEF Millionths
<1>6. /\ m[Width] = s.w /\ m[Height] = s.h /\ m[Dpi] = s.dpi
      /\ m[GridW] = Millionths(s.w, 15) /\ m[GridH] = Millionths(s.h, 12)
  BY <1>2, <1>3, KeysApart
<1> QED BY <1>1, <1>4, <1>5, <1>6 DEF Loaded, IsIncomplete

-----------------------------------------------------------------------------
(* Types *)

\* What Compute puts in memory.
LEMMA ComputeDoes ==
  ASSUME TypeOK, Compute
  PROVE  /\ mem' \in [Keys -> Nat] /\ mem'[LastSync] = 0 /\ mem'[Ipv4] = mem[Ipv4]
         /\ Whole(mem)'
         /\ ~TxtCounts => MadeForScreen(mem)'
         /\ txt' = txt /\ screen' = screen
<1> DEFINE layout == IF TxtCounts THEN txt ELSE DefaultLayout(screen)
<1>1. /\ mem' = [k \in Keys |-> IF k \in LayoutKeys THEN layout[k]
                               ELSE IF k = LastSync THEN 0 ELSE mem[k]]
      /\ txt' = txt /\ screen' = screen
  BY DEF Compute
<1>2. screen \in Screens /\ (txt \in Txts \/ txt = NoTxt) /\ mem \in [Keys -> Nat]
  BY DEF TypeOK
<1>3. layout \in [LayoutKeys -> Nat]
  BY <1>2, LayoutOfType, TxtsAssumption DEF TxtCounts
<1>4. (TxtCounts /\ layout = txt) \/ (~TxtCounts /\ layout = DefaultLayout(screen))
  OBVIOUS
<1> HIDE DEF layout
<1>5. mem' \in [Keys -> Nat] /\ mem'[LastSync] = 0 /\ mem'[Ipv4] = mem[Ipv4]
  BY <1>1, <1>2, <1>3, KeysApart DEF Keys
<1>6. [k \in LayoutKeys |-> mem'[k]] = layout
  BY <1>1, <1>3 DEF Keys
<1>7. TxtCounts' = TxtCounts
  BY <1>1 DEF TxtCounts
<1> QED BY <1>1, <1>2, <1>4, <1>5, <1>6, <1>7 DEF Whole, MadeForScreen, LayoutIn

\* wmain sets a key in memory, and in the file unless the write fails.
LEMMA RecordDoes ==
  ASSUME TypeOK, NEW k \in {Ipv4, LastSync}, NEW v \in Nat, Record(k, v)
  PROVE  /\ mem' \in [Keys -> Nat] /\ ini' \in [Keys -> Nat] /\ failures' \in Nat
         /\ kept' = NoState \/ kept' \in [Keys -> Nat]
         /\ mem'[k] = v /\ ini'[k] \in {v, ini[k]}
         /\ \A j \in Keys \ {k} : mem'[j] = mem[j] /\ ini'[j] = ini[j]
         /\ kept' # NoState =>
              /\ kept # NoState
              /\ kept' = [kept EXCEPT ![k] = v] /\ ini' = [ini EXCEPT ![k] = v]
         /\ mem' = [mem EXCEPT ![k] = v]
         /\ pc = "run" /\ pc' = "run"
         /\ UNCHANGED <<next, screen, txt, starts, changes, calm, torn>>
<1>1. k \in Keys
  BY DEF Keys
<1>2. /\ mem \in [Keys -> Nat] /\ ini \in [Keys -> Nat] /\ failures \in Nat
      /\ kept = NoState \/ kept \in [Keys -> Nat]
  BY DEF TypeOK
<1>3. /\ pc = "run" /\ mem' = [mem EXCEPT ![k] = v]
      /\ UNCHANGED <<pc, next, screen, txt, starts, changes, calm, torn>>
  BY DEF Record
<1>4. \/ /\ ini' = [ini EXCEPT ![k] = v]
         /\ kept' = IF kept = NoState THEN NoState ELSE [kept EXCEPT ![k] = v]
         /\ failures' = failures
      \/ failures' = failures + 1 /\ kept' = NoState /\ ini' = ini
  BY DEF Record
<1>5. /\ mem' \in [Keys -> Nat] /\ mem'[k] = v
      /\ \A j \in Keys \ {k} : mem'[j] = mem[j]
  BY <1>1, <1>2, <1>3
<1>6. /\ ini' \in [Keys -> Nat] /\ ini'[k] \in {v, ini[k]} /\ failures' \in Nat
      /\ \A j \in Keys \ {k} : ini'[j] = ini[j]
  BY <1>1, <1>2, <1>4
<1>7. /\ kept' = NoState \/ kept' \in [Keys -> Nat]
      /\ kept' # NoState =>
           /\ kept # NoState
           /\ kept' = [kept EXCEPT ![k] = v] /\ ini' = [ini EXCEPT ![k] = v]
  BY <1>1, <1>2, <1>4
<1> QED BY <1>3, <1>5, <1>6, <1>7

LEMMA TypeStep ==
  ASSUME TypeOK, [Next]_vars
  PROVE  TypeOK'
<1> USE DEF TypeOK, history
<1>1. Ipv4 \in Keys /\ LastSync \in Keys /\ Ipv4 # LastSync
  BY KeysApart DEF Keys
<1>2. CASE Load
  BY <1>2 DEF Load
<1>3. CASE Check
  BY <1>3 DEF Check
<1>4. CASE Compute
  <2>1. mem' \in [Keys -> Nat] /\ mem'[LastSync] = 0
    BY <1>4, ComputeDoes
  <2> HIDE DEF TypeOK
  <2>2. /\ TypeOK
        /\ UNCHANGED <<ini, screen, txt, starts, changes, time, failures, calm, kept>>
        /\ next' = 1 /\ torn' \in BOOLEAN /\ pc' = "save"
    BY <1>4 DEF Compute
  <2>3. 0 <= time /\ 1 \in 1..Len(SaveOrder) + 1
    BY KeyOrder DEF TypeOK
  <2> QED BY <2>1, <2>2, <2>3 DEF TypeOK
<1>5. CASE SaveKey
  <2>1. /\ UNCHANGED <<pc, mem, screen, txt, starts, changes, time, calm, kept>>
        /\ next' = next + 1 /\ next <= Len(SaveOrder)
        /\ \/ UNCHANGED <<ini, failures, torn>>
           \/ Write(SaveOrder[next], mem[SaveOrder[next]])
    BY <1>5 DEF SaveKey
  <2>2. next' \in 1..Len(SaveOrder) + 1
    BY <2>1, KeyOrder
  <2>3. SaveOrder[next] \in Keys
    BY <2>1, KeyOrder DEF Keys
  <2>4. ini' \in [Keys -> Nat] /\ ini'[LastSync] <= time
    BY <1>1, <2>1, <2>3 DEF Write
  <2>5. failures' \in Nat
    BY <2>1 DEF Write
  <2>6. torn' \in BOOLEAN
    BY <2>1, Zenon DEF Write
  <2> QED BY <2>1, <2>2, <2>4, <2>5, <2>6
<1>6. CASE Saved
  BY <1>6 DEF Saved
<1>7. ASSUME NEW ip \in Peers, SavePeerToIni(ip) PROVE TypeOK'
  <2>1. ip \in Nat /\ Record(Ipv4, ip) /\ time' = time
    BY <1>7, BoundsAssumption DEF SavePeerToIni
  <2>2. TypeOK
    OBVIOUS
  <2> HIDE DEF TypeOK
  <2>3. mem'[LastSync] = mem[LastSync] /\ ini'[LastSync] = ini[LastSync]
    BY <1>1, <2>1, <2>2, RecordDoes
  <2> QED BY <2>1, <2>2, <2>3, RecordDoes DEF TypeOK
<1>8. CASE UpdateLastSync
  <2>1. time' = time + 1 /\ time' \in Nat /\ Record(LastSync, time')
    BY <1>8 DEF UpdateLastSync
  <2>2. TypeOK
    OBVIOUS
  <2> HIDE DEF TypeOK
  <2>3. mem'[LastSync] = time' /\ ini'[LastSync] \in {time', ini[LastSync]}
    BY <2>1, <2>2, RecordDoes
  <2>4. mem'[LastSync] <= time' /\ ini'[LastSync] <= time'
    BY <1>1, <2>1, <2>2, <2>3 DEF TypeOK
  <2> QED BY <2>1, <2>2, <2>4, RecordDoes DEF TypeOK
<1>9. CASE Stop
  <2>1. torn' \in BOOLEAN
    BY <1>9, Zenon DEF Stop
  <2>2. /\ UNCHANGED <<mem, next, ini, screen, txt, starts, changes, time, failures,
                      calm, kept>>
        /\ pc' = "off"
    BY <1>9 DEF Stop
  <2> QED BY <2>1, <2>2
<1>10. CASE ScreenChanges
  <2>1. /\ changes' = changes + 1 /\ screen' \in Screens /\ kept' = NoState
        /\ UNCHANGED <<pc, mem, next, ini, txt, starts, time, failures, torn>>
    BY <1>10 DEF ScreenChanges
  <2>2. calm' \in BOOLEAN
    BY <1>10, Zenon DEF ScreenChanges
  <2> QED BY <2>1, <2>2
<1>11. CASE UNCHANGED vars
  BY <1>11 DEF vars
<1> QED
  BY <1>2, <1>3, <1>4, <1>5, <1>6, <1>7, <1>8, <1>9, <1>10, <1>11 DEF Next

-----------------------------------------------------------------------------
(* Memory, the file, and what the next start has to find *)

Rest == MemInv /\ FileInv /\ KeptInv

LEMMA LayoutsEqual ==
  ASSUME NEW m, NEW n, \A k \in LayoutKeys : m[k] = n[k]
  PROVE  LayoutIn(m) = LayoutIn(n)
  BY DEF LayoutIn

LEMMA LoadStep ==
  ASSUME IInv, Load
  PROVE  Rest'
<1>1. /\ pc = "off" /\ pc' = "check" /\ mem' = ini
      /\ UNCHANGED <<next, ini, screen, txt, torn, kept>>
  BY DEF Load
<1>2. FileInv'
  BY <1>1 DEF IInv, FileInv, Blank, Whole, TxtCounts
<1>3. KeptInv'
  BY <1>1 DEF IInv, KeptInv, MadeForScreen
<1> QED BY <1>1, <1>2, <1>3 DEF Rest, MemInv

LEMMA CheckStep ==
  ASSUME IInv, Check
  PROVE  Rest'
<1>1. /\ pc = "check" /\ mem = ini
      /\ UNCHANGED <<mem, next, ini, screen, txt, calm, torn, kept>>
      /\ \/ pc' = "compute" /\ (~Loaded(mem) \/ IsIncomplete(mem, screen))
         \/ pc' = "run" /\ Loaded(mem) /\ ~IsIncomplete(mem, screen)
  BY DEF Check, IInv, MemInv, history
<1>2. mem \in [Keys -> Nat] /\ screen \in Screens
  BY DEF IInv, TypeOK
<1>3. FileInv'
  BY <1>1 DEF IInv, FileInv, Blank, Whole, TxtCounts
<1>4. KeptInv'
  <2>1. CASE kept = NoState
    BY <1>1, <2>1 DEF KeptInv
  <2>2. CASE kept # NoState
    <3>1. MadeForScreen(mem) /\ ini = kept /\ mem = kept
      BY <1>1, <2>2 DEF IInv, KeptInv
    <3>2. pc' = "run"
      BY <1>1, <1>2, <3>1, DefaultIsComplete DEF MadeForScreen
    <3> QED BY <1>1, <3>1, <3>2 DEF KeptInv, MadeForScreen
  <2> QED BY <2>1, <2>2
<1>5. MemInv'
  <2>1. CASE pc' = "compute"
    BY <1>1, <2>1 DEF MemInv
  <2>2. CASE pc' = "run"
    <3>1. Loaded(mem) /\ ~IsIncomplete(mem, screen)
      BY <1>1, <2>2
    <3>2. mem[Width] = screen.w /\ mem[Height] = screen.h /\ mem[Dpi] \in {0, screen.dpi}
      <4>1. mem[Dpi] \in Nat
        BY <1>2, KeysApart DEF Keys
      <4> QED BY <3>1, <4>1 DEF IsIncomplete
    <3>3. ~Blank(ini)
      BY <1>1, <3>1, KeysApart DEF Loaded, Blank
    <3>4. ~torn => Whole(mem)
      BY <1>1, <3>3 DEF IInv, FileInv
    <3> QED BY <1>1, <2>2, <3>2, <3>4 DEF MemInv, Whole, TxtCounts
  <2> QED BY <1>1, <2>1, <2>2
<1> QED BY <1>3, <1>4, <1>5 DEF Rest

LEMMA ComputeStep ==
  ASSUME IInv, Compute
  PROVE  Rest'
<1>1. /\ pc = "compute" /\ pc' = "save" /\ next' = 1 /\ kept' = kept /\ ini' = ini
      /\ mem'[Ipv4] = mem[Ipv4] /\ Whole(mem)' /\ txt' = txt
      /\ ~TxtCounts => MadeForScreen(mem)'
  BY ComputeDoes DEF Compute, IInv
<1>2. kept = NoState
  BY <1>1 DEF IInv, KeptInv
<1>3. MemInv'
  BY <1>1 DEF IInv, MemInv, TxtCounts
<1>4. FileInv'
  BY <1>1 DEF FileInv, WrittenUpTo
<1>5. KeptInv'
  BY <1>1, <1>2 DEF KeptInv
<1> QED BY <1>3, <1>4, <1>5 DEF Rest

\* A write leaves the keys before it as they are, or right.
LEMMA SaveKeyStep ==
  ASSUME IInv, SaveKey
  PROVE  Rest'
<1>1. /\ pc = "save" /\ next' = next + 1 /\ next \in 1..29
      /\ UNCHANGED <<pc, mem, screen, txt, calm, kept>>
  BY KeyOrder DEF SaveKey, IInv, TypeOK
<1> DEFINE k == SaveOrder[next]
<1>2. \/ k = Ipv4 /\ mem[Ipv4] = 0 /\ ini' = ini /\ torn' = torn
      \/ ini' = [ini EXCEPT ![k] = mem[k]] /\ torn' = torn
      \/ torn' = TRUE /\ ini' = ini
  BY DEF SaveKey, Write
<1>3. k \in Keys /\ Ipv4 \in Keys /\ ini \in [Keys -> Nat]
  BY <1>1, KeyOrder DEF IInv, TypeOK, Keys
<1>4. kept = NoState /\ mem[Ipv4] = ini[Ipv4]
  BY <1>1 DEF IInv, KeptInv, MemInv
<1>5. KeptInv'
  BY <1>1, <1>4 DEF KeptInv
<1>6. ini'[Ipv4] = mem[Ipv4]
  BY <1>2, <1>3, <1>4
<1>7. MemInv'
  BY <1>1, <1>6 DEF IInv, MemInv, Whole, MadeForScreen, TxtCounts
<1>8. FileInv'
  <2>1. SUFFICES ASSUME ~torn', NEW i \in 1..next' - 1
                 PROVE  ini'[SaveOrder[i]] = mem[SaveOrder[i]]
    BY <1>1 DEF FileInv, WrittenUpTo
  <2>2. /\ ~torn
        /\ \/ k = Ipv4 /\ ini' = ini
           \/ ini' = [ini EXCEPT ![k] = mem[k]]
    BY <1>2, <2>1
  <2>3. ini'[k] = mem[k]
    BY <1>3, <1>4, <2>2
  <2>4. CASE i = next
    BY <2>3, <2>4
  <2>5. CASE i # next
    <3>1. i \in 1..next - 1 /\ i \in 1..29
      BY <1>1, <2>5
    <3>2. ini[SaveOrder[i]] = mem[SaveOrder[i]]
      BY <1>1, <2>2, <3>1 DEF IInv, FileInv, WrittenUpTo
    <3>3. SaveOrder[i] \in Keys
      BY <3>1, KeyOrder DEF Keys
    <3> HIDE DEF k
    <3> QED BY <1>3, <2>2, <2>3, <3>2, <3>3
  <2> QED BY <2>4, <2>5
<1> QED BY <1>5, <1>7, <1>8 DEF Rest

LEMMA SavedStep ==
  ASSUME IInv, Saved
  PROVE  Rest'
<1>1. /\ pc = "save" /\ pc' = "run" /\ next = 30
      /\ kept' = IF calm /\ ~torn /\ ~TxtCounts THEN mem ELSE NoState
      /\ UNCHANGED <<mem, ini, screen, txt, calm, torn>>
  BY KeyOrder DEF Saved, IInv, TypeOK
<1>2. Whole(mem) /\ (calm /\ ~TxtCounts => MadeForScreen(mem)) /\ ini[Ipv4] = mem[Ipv4]
  BY <1>1 DEF IInv, MemInv
<1>3. mem \in [Keys -> Nat] /\ ini \in [Keys -> Nat] /\ screen \in Screens
  BY DEF IInv, TypeOK
<1>4. ASSUME ~torn PROVE ini = mem
  <2>1. \A i \in 1..29 : ini[SaveOrder[i]] = mem[SaveOrder[i]]
    BY <1>1, <1>4 DEF IInv, FileInv, WrittenUpTo
  <2>2. \A k \in Keys : \E i \in 1..29 : SaveOrder[i] = k
    BY KeyOrder DEF Keys
  <2> QED BY <1>3, <2>1, <2>2
<1>5. MemInv'
  <2>1. calm /\ ~TxtCounts =>
          mem[Width] = screen.w /\ mem[Height] = screen.h /\ mem[Dpi] \in {0, screen.dpi}
    BY <1>2, <1>3, DefaultIsComplete DEF MadeForScreen
  <2> QED BY <1>1, <1>2, <2>1 DEF MemInv, Whole, TxtCounts
<1>6. FileInv'
  BY <1>1, <1>2, <1>4 DEF FileInv, Whole, TxtCounts
<1>7. KeptInv'
  BY <1>1, <1>2, <1>4 DEF KeptInv, MadeForScreen
<1> QED BY <1>5, <1>6, <1>7 DEF Rest

LEMMA RecordStep ==
  ASSUME IInv, NEW k \in {Ipv4, LastSync}, NEW v \in Nat, Record(k, v)
  PROVE  Rest'
<1>1. /\ pc = "run" /\ pc' = "run" /\ UNCHANGED <<screen, txt, calm, torn>>
      /\ \A j \in Keys \ {k} : mem'[j] = mem[j] /\ ini'[j] = ini[j]
  BY RecordDoes DEF IInv
<1>2. \A j \in LayoutKeys : mem'[j] = mem[j] /\ ini'[j] = ini[j]
  BY <1>1, KeysApart DEF Keys
<1>3. LayoutIn(mem') = LayoutIn(mem) /\ LayoutIn(ini') = LayoutIn(ini)
  BY <1>2, LayoutsEqual
<1>4. MemInv'
  <2>1. mem'[Width] = mem[Width] /\ mem'[Height] = mem[Height] /\ mem'[Dpi] = mem[Dpi]
    BY <1>2, KeysApart
  <2> QED BY <1>1, <1>3, <2>1 DEF IInv, MemInv, Whole, TxtCounts
<1>5. FileInv'
  BY <1>1, <1>2, <1>3 DEF IInv, FileInv, Blank, Whole, TxtCounts
<1>6. KeptInv'
  <2>1. SUFFICES ASSUME kept' # NoState PROVE KeptInv'
    BY DEF KeptInv
  <2>2. /\ kept # NoState /\ kept' = [kept EXCEPT ![k] = v]
        /\ ini' = [ini EXCEPT ![k] = v] /\ mem' = [mem EXCEPT ![k] = v]
    BY <2>1, RecordDoes DEF IInv
  <2>3. ini = kept /\ mem = kept /\ MadeForScreen(kept)
    BY <1>1, <2>2 DEF IInv, KeptInv
  <2>4. kept' = ini' /\ mem' = kept'
    BY <2>2, <2>3
  <2>5. LayoutIn(kept') = LayoutIn(kept)
    BY <1>3, <2>3, <2>4
  <2> QED BY <1>1, <2>3, <2>4, <2>5 DEF KeptInv, MadeForScreen
<1> QED BY <1>4, <1>5, <1>6 DEF Rest

LEMMA StopStep ==
  ASSUME IInv, Stop \/ ScreenChanges \/ UNCHANGED vars
  PROVE  Rest'
<1>1. CASE Stop
  <2>1. /\ pc' = "off" /\ UNCHANGED <<mem, next, ini, screen, txt, calm, kept>>
        /\ ~torn' => ~torn /\ pc # "save"
    BY <1>1 DEF Stop
  <2>2. FileInv'
    BY <2>1 DEF IInv, FileInv, Blank, Whole, TxtCounts
  <2>3. KeptInv'
    BY <2>1 DEF IInv, KeptInv, MadeForScreen
  <2> QED BY <2>1, <2>2, <2>3 DEF Rest, MemInv
<1>2. CASE ScreenChanges
  <2>1. ~calm' /\ kept' = NoState /\ UNCHANGED <<pc, mem, next, ini, txt, torn>>
    BY <1>2 DEF ScreenChanges
  <2>2. MemInv'
    BY <2>1 DEF IInv, MemInv, Whole, TxtCounts
  <2>3. FileInv'
    BY <2>1 DEF IInv, FileInv, Blank, Whole, TxtCounts, WrittenUpTo
  <2> QED BY <2>1, <2>2, <2>3 DEF Rest, KeptInv
<1>3. CASE UNCHANGED vars
  BY <1>3 DEF IInv, Rest, vars, history, MemInv, FileInv, KeptInv, Blank, Whole,
       TxtCounts, WrittenUpTo, MadeForScreen
<1> QED BY <1>1, <1>2, <1>3

-----------------------------------------------------------------------------
(* Theorems *)

LEMMA Initially == Init => IInv
<1> SUFFICES ASSUME Init PROVE IInv
  OBVIOUS
<1>1. TypeOK
  <2>1. mem[LastSync] = 0 /\ ini[LastSync] = 0 /\ 1 \in 1..Len(SaveOrder) + 1
    BY KeyOrder DEF Init, Keys
  <2>2. calm \in BOOLEAN /\ torn \in BOOLEAN
    BY Zenon DEF Init
  <2> QED BY <2>1, <2>2 DEF Init, TypeOK
<1>2. FileInv /\ MemInv /\ KeptInv
  BY DEF Init, FileInv, MemInv, KeptInv, Blank, LayoutKeys, Keys
<1> QED BY <1>1, <1>2 DEF IInv

LEMMA Inductive == IInv /\ [Next]_vars => IInv'
<1> SUFFICES ASSUME IInv, [Next]_vars PROVE IInv'
  OBVIOUS
<1>1. TypeOK'
  BY TypeStep DEF IInv
<1>2. ASSUME NEW ip \in Peers, SavePeerToIni(ip) PROVE Rest'
  <2>1. ip \in Nat
    BY BoundsAssumption
  <2> QED BY <1>2, <2>1, RecordStep DEF SavePeerToIni
<1>3. ASSUME UpdateLastSync PROVE Rest'
  <2>1. time \in Nat
    BY DEF IInv, TypeOK
  <2>2. time' = time + 1
    BY <1>3 DEF UpdateLastSync
  <2>3. time' \in Nat
    BY <2>1, <2>2
  <2>4. Record(LastSync, time')
    BY <1>3 DEF UpdateLastSync
  <2> QED BY <2>3, <2>4, RecordStep
<1>4. Rest'
  BY <1>2, <1>3, LoadStep, CheckStep, ComputeStep, SaveKeyStep, SavedStep, StopStep DEF Next
<1> QED BY <1>1, <1>4 DEF IInv, Rest

\* Whatever saves were cut short or failed, and whatever displays come and go:
\* the program runs with the size of the display it was started on and with a
\* layout that belongs together, as long as its save was not cut short
\* (config_dll.cpp:186-249).
THEOREM ConfigIsRight == Spec => []LayoutIsRight
<1>1. IInv => LayoutIsRight
  BY DEF IInv, MemInv, Whole, LayoutIn, LayoutIsRight, ScreenIsRight, LayoutIsWhole
<1> QED BY <1>1, Initially, Inductive, PTL DEF Spec

\* The program never takes a file it has written itself for the same display
\* for incomplete: lastSync and the peer are found again (config_dll.cpp:186-270).
THEOREM NothingIsForgotten == Spec => []RestartFindsAll
<1>1. IInv => RestartFindsAll
  BY DEF IInv, KeptInv, RestartFindsAll
<1> QED BY <1>1, Initially, Inductive, PTL DEF Spec
=============================================================================
