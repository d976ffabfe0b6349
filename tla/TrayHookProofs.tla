--------------------------- MODULE TrayHookProofs ---------------------------
(***************************************************************************)
(* Machine-checked proof that the tray icon catches up, for any number of  *)
(* threads, updates and menus and any limit of the queue that              *)
(* TrayBounds allows.  A message that finds no room is lost, and the *)
(* argument is that it is not needed: beside the updates there are never   *)
(* more messages in the queue than menus were asked for, so a full queue   *)
(* holds an update, and whoever takes that reads what was written last.    *)
(***************************************************************************)
EXTENDS TrayHook, FiniteSets, FiniteSetTheorems, FunctionTheorems, SequenceTheorems, TLAPS

Messages == {"update", "menu", "close"}

HasUpdate(q) == \E i \in 1 .. Len(q) : q[i] = "update"

\* The places of the messages that are no updates.
Others(q) == {i \in 1 .. Len(q) : q[i] # "update"}

\* Who is about to post an update.
Posting == \E c \in Callers : calling[c] = "post"

\* A menu is open, perhaps with ApplyTray running in its message loop.
MenuIsOpen == ui = "menu" \/ (ui = "show" /\ back = "menu")

\* Beside updates the queue holds at most a message for each right click,
\* and the open menu has used one up.
FewOthers ==
  /\ menus <= MaxMenus
  /\ Cardinality(Others(queue)) + (IF MenuIsOpen THEN 1 ELSE 0) <= menus

\* Window, icon and queue through the life of the UI thread.
UiInv ==
  /\ ui = "create" => window = "none" /\ queue = <<>>
  /\ ui \in {"add", "loop", "menu", "show"} => window = "made"
  /\ ui = "ended" => window = "gone"
  /\ ui \in {"create", "add", "ended"} => icon = NoIcon
  /\ ui \in {"create", "add"} => Others(queue) = {}

\* What was written last is shown, or is on its way to the icon.
OnItsWay ==
  /\ ui \in {"loop", "menu"} => icon = latest \/ HasUpdate(queue) \/ Posting \/ unseen
  /\ ui = "show" => snap = latest \/ HasUpdate(queue) \/ Posting

IInv == TrayTypeOK /\ FewOthers /\ UiInv /\ OnItsWay

-----------------------------------------------------------------------------
(* The messages that are no updates are finitely many, and when they are   *)
(* fewer than all there is an update.                                      *)
LEMMA OthersAreFinite ==
  ASSUME NEW q \in Seq(Messages)
  PROVE  /\ IsFiniteSet(Others(q))
         /\ Cardinality(Others(q)) \in Nat
         /\ Cardinality(Others(q)) < Len(q) => HasUpdate(q)
<1>1. Len(q) \in Nat
  BY LenProperties
<1>2. IsFiniteSet(1 .. Len(q)) /\ Cardinality(1 .. Len(q)) = Len(q)
  <2>1. Len(q) \in Int /\ 1 \in Int
    BY <1>1
  <2>2. IsFiniteSet(1 .. Len(q))
        /\ Cardinality(1 .. Len(q)) = IF 1 > Len(q) THEN 0 ELSE Len(q) - 1 + 1
    BY <2>1, FS_Interval
  <2> QED
    BY <2>2, <1>1
<1>3. Others(q) \in SUBSET (1 .. Len(q))
  BY DEF Others
<1>4. IsFiniteSet(Others(q))
  BY <1>2, <1>3, FS_Subset
<1>5. ASSUME ~HasUpdate(q) PROVE Cardinality(Others(q)) = Len(q)
  <2>1. Others(q) = 1 .. Len(q)
    BY <1>5 DEF Others, HasUpdate
  <2> QED
    BY <2>1, <1>2
<1> QED
  BY <1>1, <1>4, <1>5, FS_CardinalityType

(* A message at the end of the queue: an update is there to be found, and  *)
(* anything else is one more of the others.                                *)
LEMMA AppendMessage ==
  ASSUME NEW q \in Seq(Messages), NEW m \in Messages
  PROVE  /\ HasUpdate(q) => HasUpdate(Append(q, m))
         /\ m = "update" => HasUpdate(Append(q, m)) /\ Others(Append(q, m)) = Others(q)
         /\ Cardinality(Others(Append(q, m))) <= Cardinality(Others(q)) + 1
<1> DEFINE r == Append(q, m)
<1>1. /\ Len(q) \in Nat /\ Len(r) = Len(q) + 1
      /\ \A i \in 1 .. Len(q) : r[i] = q[i]
      /\ r[Len(q) + 1] = m
  BY AppendProperties, LenProperties
<1> HIDE DEF r
<1>2. HasUpdate(q) => HasUpdate(r)
  BY <1>1 DEF HasUpdate
<1>3. ASSUME m = "update" PROVE HasUpdate(r) /\ Others(r) = Others(q)
  <2>1. Len(q) + 1 \in 1 .. Len(r)
    BY <1>1
  <2> QED
    BY <1>1, <1>3, <2>1 DEF HasUpdate, Others
<1>4. ASSUME m # "update" PROVE Others(r) = Others(q) \cup {Len(q) + 1}
  BY <1>1, <1>4 DEF Others
<1>5. /\ IsFiniteSet(Others(q))
      /\ Cardinality(Others(q)) \in Nat
  BY OthersAreFinite
<1>6. Cardinality(Others(q) \cup {Len(q) + 1}) <= Cardinality(Others(q)) + 1
  <2>1. Cardinality(Others(q) \cup {Len(q) + 1})
          = IF Len(q) + 1 \in Others(q) THEN Cardinality(Others(q))
            ELSE Cardinality(Others(q)) + 1
    BY <1>5, FS_AddElement
  <2> QED
    BY <2>1, <1>5
<1>7. Cardinality(Others(r)) <= Cardinality(Others(q)) + 1
  <2>1. CASE m = "update"
    <3>1. Others(r) = Others(q)
      BY <2>1, <1>3
    <3>2. Cardinality(Others(q)) <= Cardinality(Others(q)) + 1
      BY <1>5
    <3> QED
      BY <3>1, <3>2
  <2>2. CASE m # "update"
    <3>1. Others(r) = Others(q) \cup {Len(q) + 1}
      BY <2>2, <1>4
    <3> QED
      BY <3>1, <1>6
  <2> QED
    BY <2>1, <2>2
<1> QED
  BY <1>2, <1>3, <1>7 DEF r

(* The message at the head is taken: if it is no update, the others are    *)
(* one fewer and an update stays an update.                                *)
LEMMA TailMessage ==
  ASSUME NEW q \in Seq(Messages), q # <<>>
  PROVE  /\ Cardinality(Others(Tail(q))) <= Cardinality(Others(q))
         /\ Head(q) # "update" =>
              /\ Cardinality(Others(Tail(q))) <= Cardinality(Others(q)) - 1
              /\ HasUpdate(q) => HasUpdate(Tail(q))
         /\ Others(q) = {} => Others(Tail(q)) = {}
<1> DEFINE r == Tail(q)
           f == [i \in Others(r) |-> i + 1]
<1>1. /\ r \in Seq(Messages) /\ Len(r) = Len(q) - 1
      /\ \A i \in 1 .. Len(r) : r[i] = q[i + 1]
      /\ Len(q) \in Nat /\ Len(r) \in Nat
  BY HeadTailProperties, LenProperties
<1>2. Head(q) = q[1]
  OBVIOUS
<1> HIDE DEF r
<1>3. /\ IsFiniteSet(Others(q)) /\ Cardinality(Others(q)) \in Nat
      /\ Cardinality(Others(r)) \in Nat
  BY <1>1, OthersAreFinite
<1>4. /\ IsFiniteSet(Others(q) \ {1})
      /\ Cardinality(Others(q) \ {1}) =
           IF 1 \in Others(q) THEN Cardinality(Others(q)) - 1
           ELSE Cardinality(Others(q))
  BY <1>3, FS_RemoveElement
<1>5. f \in Injection(Others(r), Others(q) \ {1})
  <2>1. \A i \in Others(r) : i \in Nat /\ i + 1 \in Others(q) \ {1}
    BY <1>1 DEF Others
  <2>2. \A i, j \in Others(r) : i + 1 = j + 1 => i = j
    BY <2>1
  <2>3. f \in [Others(r) -> Others(q) \ {1}]
    BY <2>1
  <2> QED
    BY <2>2, <2>3, Fun_IsInj
<1>6. Cardinality(Others(r)) <= Cardinality(Others(q) \ {1})
  <2> HIDE DEF f
  <2> QED
    BY <1>4, <1>5, FS_Injection
<1>7. ASSUME Head(q) # "update" PROVE 1 \in Others(q)
  <2>1. 1 \in 1 .. Len(q)
    BY <1>1
  <2> QED
    BY <1>2, <1>7, <2>1 DEF Others
<1>8. ASSUME Head(q) # "update", HasUpdate(q) PROVE HasUpdate(r)
  <2>1. PICK i \in 1 .. Len(q) : q[i] = "update"
    BY <1>8 DEF HasUpdate
  <2>2. i # 1
    BY <2>1, <1>8, <1>2
  <2>3. i - 1 \in 1 .. Len(r) /\ (i - 1) + 1 = i
    BY <2>2, <1>1
  <2>4. r[i - 1] = q[i]
    BY <2>3, <1>1
  <2> QED
    BY <2>1, <2>3, <2>4 DEF HasUpdate
<1>9. ASSUME Others(q) = {} PROVE Others(r) = {}
  <2> HIDE DEF f
  <2>1. \A i \in Others(r) : i + 1 \in Others(q)
    BY <1>1 DEF Others
  <2> QED
    BY <2>1, <1>9
<1> QED
  BY <1>3, <1>4, <1>6, <1>7, <1>8, <1>9 DEF r

(* What PostMessageW does to the queue, for a window that is made or not:  *)
(* an update that finds no room leaves one in the queue all the same.      *)
LEMMA PostMessage ==
  ASSUME TrayTypeOK, FewOthers, NEW m \in Messages, Post(m)
  PROVE  /\ queue' \in Seq(Messages) /\ Len(queue') <= QueueLimit
         /\ HasUpdate(queue) => HasUpdate(queue')
         /\ m = "update" /\ window = "made" => HasUpdate(queue')
         /\ m = "update" => Cardinality(Others(queue')) <= Cardinality(Others(queue))
         /\ m = "update" /\ Others(queue) = {} => Others(queue') = {}
         /\ Cardinality(Others(queue')) <= Cardinality(Others(queue)) + 1
         /\ window # "made" => queue' = queue
<1>1. queue \in Seq(Messages) /\ Len(queue) \in Nat /\ Len(queue) <= QueueLimit
  BY LenProperties DEF TrayTypeOK, Messages
<1>2. IsFiniteSet(Others(queue)) /\ Cardinality(Others(queue)) \in Nat
  BY <1>1, OthersAreFinite
<1>3. CASE window = "made" /\ Len(queue) < QueueLimit
  <2>1. queue' = Append(queue, m)
    BY <1>3 DEF Post
  <2>2. /\ Append(queue, m) \in Seq(Messages)
        /\ Len(Append(queue, m)) = Len(queue) + 1
    BY <1>1, AppendProperties
  <2>3. Len(Append(queue, m)) <= QueueLimit
    BY <2>2, <1>1, <1>3, TrayBounds
  <2>4. /\ HasUpdate(queue) => HasUpdate(Append(queue, m))
        /\ m = "update" => HasUpdate(Append(queue, m))
                             /\ Others(Append(queue, m)) = Others(queue)
        /\ Cardinality(Others(Append(queue, m))) <= Cardinality(Others(queue)) + 1
    BY <1>1, AppendMessage
  <2> QED
    BY <1>2, <1>3, <2>1, <2>2, <2>3, <2>4
<1>4. CASE ~(window = "made" /\ Len(queue) < QueueLimit)
  <2>1. queue' = queue
    BY <1>4 DEF Post
  <2>2. ASSUME window = "made" PROVE HasUpdate(queue)
    <3>1. Len(queue) = QueueLimit
      BY <1>1, <1>4, <2>2, TrayBounds
    <3>2. Cardinality(Others(queue)) <= menus /\ menus \in Nat /\ menus <= MaxMenus
      BY <1>2 DEF FewOthers, TrayTypeOK
    <3>3. Cardinality(Others(queue)) < Len(queue)
      BY <1>2, <3>1, <3>2, TrayBounds
    <3> QED
      BY <3>3, <1>1, OthersAreFinite
  <2> QED
    BY <1>1, <1>2, <2>1, <2>2
<1> QED
  BY <1>3, <1>4

(* What the UI thread finds after it took a message.                       *)
LEMMA TakeMessage ==
  ASSUME TrayTypeOK, NEW m, Take(m)
  PROVE  /\ queue' \in Seq(Messages) /\ Len(queue') <= QueueLimit
         /\ Cardinality(Others(queue')) \in Nat
         /\ Cardinality(Others(queue)) \in Nat
         /\ Cardinality(Others(queue')) <= Cardinality(Others(queue))
         /\ m # "update" =>
              /\ Cardinality(Others(queue')) <= Cardinality(Others(queue)) - 1
              /\ HasUpdate(queue) => HasUpdate(queue')
<1>1. queue \in Seq(Messages) /\ Len(queue) \in Nat /\ Len(queue) <= QueueLimit
  BY LenProperties DEF TrayTypeOK, Messages
<1>2. queue # <<>> /\ Head(queue) = m /\ queue' = Tail(queue)
  BY DEF Take
<1>3. Tail(queue) \in Seq(Messages) /\ Len(Tail(queue)) = Len(queue) - 1
  BY <1>1, <1>2, HeadTailProperties
<1>4. Len(Tail(queue)) <= QueueLimit
  BY <1>1, <1>3, TrayBounds
<1>5. /\ Cardinality(Others(Tail(queue))) <= Cardinality(Others(queue))
      /\ Head(queue) # "update" =>
           /\ Cardinality(Others(Tail(queue))) <= Cardinality(Others(queue)) - 1
           /\ HasUpdate(queue) => HasUpdate(Tail(queue))
  BY <1>1, <1>2, TailMessage
<1>6. Cardinality(Others(queue)) \in Nat /\ Cardinality(Others(Tail(queue))) \in Nat
  BY <1>1, <1>3, OthersAreFinite
<1> QED
  BY <1>2, <1>3, <1>4, <1>5, <1>6

-----------------------------------------------------------------------------
LEMMA InitInv == TrayInit => IInv
<1> SUFFICES ASSUME TrayInit PROVE IInv
  OBVIOUS
<1>1. queue = <<>> /\ Len(queue) = 0 /\ queue \in Seq(Messages)
  BY EmptySeq DEF TrayInit
<1>2. Others(queue) = {}
  BY <1>1 DEF Others
<1>3. Cardinality(Others(queue)) = 0
  BY <1>2, FS_EmptySet
<1>4. TrayTypeOK
  <2>1. calling \in [Callers -> {"idle", "write", "post"}] /\ arg \in [Callers -> 0 .. updates]
    BY DEF TrayInit
  <2>2. icon \in 0 .. updates \cup {NoIcon} /\ updates \in 0 .. MaxUpdates
    BY TrayBounds DEF TrayInit
  <2>3. queue \in Seq(Messages) /\ Len(queue) <= QueueLimit
    BY <1>1, TrayBounds
  <2>4. latest \in 0 .. updates /\ snap \in 0 .. updates
    BY DEF TrayInit
  <2>5. unseen \in BOOLEAN /\ fired \in Nat /\ menus \in Nat /\ clicks \in Nat
    BY DEF TrayInit
  <2>6. /\ window \in {"none", "made", "gone"} /\ back \in {"loop", "menu"}
        /\ ui \in {"create", "add", "loop", "menu", "show", "ended"}
    BY DEF TrayInit
  <2> QED
    BY <2>1, <2>2, <2>3, <2>4, <2>5, <2>6 DEF TrayTypeOK, Messages
<1>5. FewOthers
  BY <1>3, TrayBounds DEF TrayInit, FewOthers, MenuIsOpen
<1>6. UiInv /\ OnItsWay
  BY <1>1, <1>2 DEF TrayInit, UiInv, OnItsWay
<1> QED
  BY <1>4, <1>5, <1>6 DEF IInv

(* The threads that call UpdateTray.                                       *)
LEMMA CallersKeepIt ==
  ASSUME IInv, NEW c \in Callers, Call(c) \/ Store(c) \/ PostUpdate(c)
  PROVE  IInv'
<1>1. CASE Call(c)
  <2>1. TrayTypeOK'
    BY <1>1, TrayBounds DEF IInv, TrayTypeOK, Call, uiVars
  <2>2. FewOthers' /\ UiInv'
    BY <1>1 DEF IInv, FewOthers, UiInv, MenuIsOpen, Call, uiVars
  <2>3. Posting => Posting'
    BY <1>1 DEF IInv, TrayTypeOK, Posting, Call
  <2>4. OnItsWay'
    BY <1>1, <2>3 DEF IInv, OnItsWay, Call, uiVars
  <2> QED
    BY <2>1, <2>2, <2>4 DEF IInv
<1>2. CASE Store(c)
  <2>1. TrayTypeOK'
    BY <1>2 DEF IInv, TrayTypeOK, Store, uiVars, counters
  <2>2. FewOthers' /\ UiInv'
    BY <1>2 DEF IInv, FewOthers, UiInv, MenuIsOpen, Store, uiVars, counters
  <2>3. Posting'
    BY <1>2 DEF IInv, TrayTypeOK, Posting, Store
  <2>4. OnItsWay'
    BY <2>3 DEF OnItsWay
  <2> QED
    BY <2>1, <2>2, <2>4 DEF IInv
<1>3. CASE PostUpdate(c)
  <2>1. Post("update") /\ "update" \in Messages
    BY <1>3 DEF PostUpdate, Messages
  <2>2. /\ queue' \in Seq(Messages) /\ Len(queue') <= QueueLimit
        /\ window = "made" => HasUpdate(queue')
        /\ Cardinality(Others(queue')) <= Cardinality(Others(queue))
        /\ Others(queue) = {} => Others(queue') = {}
        /\ window # "made" => queue' = queue
    BY <2>1, PostMessage DEF IInv
  <2>3. TrayTypeOK'
    BY <1>3, <2>2 DEF IInv, TrayTypeOK, PostUpdate, uiVars, counters, Messages
  <2>4. FewOthers'
    <3>1. queue \in Seq(Messages)
      BY DEF IInv, TrayTypeOK, Messages
    <3>2. Cardinality(Others(queue)) \in Nat /\ Cardinality(Others(queue')) \in Nat
      BY <2>2, <3>1, OthersAreFinite
    <3>3. menus \in Nat /\ menus' = menus /\ MenuIsOpen' = MenuIsOpen
      BY <1>3 DEF IInv, TrayTypeOK, PostUpdate, uiVars, counters, MenuIsOpen
    <3> QED
      BY <2>2, <3>2, <3>3 DEF IInv, FewOthers
  <2>5. UiInv'
    BY <1>3, <2>2 DEF IInv, UiInv, PostUpdate, uiVars
  <2>6. OnItsWay'
    BY <1>3, <2>2 DEF IInv, UiInv, OnItsWay, PostUpdate, uiVars
  <2> QED
    BY <2>3, <2>4, <2>5, <2>6 DEF IInv
<1> QED
  BY <1>1, <1>2, <1>3

(* The UI thread.                                                          *)
LEMMA UiThreadKeepsIt ==
  ASSUME IInv, UiThread
  PROVE  IInv'
<1> USE DEF IInv
<1>0. queue \in Seq(Messages) /\ Cardinality(Others(queue)) \in Nat /\ menus \in Nat
  BY OthersAreFinite DEF TrayTypeOK, Messages
<1>1. CASE CreateWindow
  <2>1. TrayTypeOK' /\ UiInv'
    BY <1>1 DEF TrayTypeOK, UiInv, CreateWindow, callerVars, counters
  <2>2. FewOthers'
    BY <1>1 DEF FewOthers, MenuIsOpen, CreateWindow, counters
  <2>3. OnItsWay'
    BY <1>1 DEF OnItsWay, CreateWindow
  <2> QED
    BY <2>1, <2>2, <2>3
<1>2. CASE AddIcon
  <2>1. TrayTypeOK'
    BY <1>2 DEF TrayTypeOK, AddIcon, callerVars, counters
  <2>2. FewOthers' /\ UiInv'
    BY <1>2 DEF FewOthers, UiInv, MenuIsOpen, AddIcon, counters
  <2>3. queue = <<>> \/ HasUpdate(queue)
    <3>1. Others(queue) = {}
      BY <1>2 DEF UiInv, AddIcon
    <3>2. Len(queue) \in Nat /\ (Len(queue) = 0 => queue = <<>>)
      BY <1>0, LenProperties, EmptySeq
    <3>3. Cardinality(Others(queue)) = 0
      BY <3>1, FS_EmptySet
    <3> QED
      BY <1>0, <3>2, <3>3, OthersAreFinite
  <2>4. OnItsWay'
    <3>1. (HasUpdate(queue))' = HasUpdate(queue)
      BY <1>2 DEF AddIcon, HasUpdate
    <3>2. icon' = 0 /\ unseen' = (latest # 0 /\ queue = <<>>) /\ ui' = "loop"
            /\ latest' = latest
      BY <1>2 DEF AddIcon
    <3> QED
      BY <2>3, <3>1, <3>2 DEF OnItsWay
  <2> QED
    BY <2>1, <2>2, <2>4
<1>3. CASE Apply
  <2>1. /\ queue' \in Seq(Messages) /\ Len(queue') <= QueueLimit
        /\ Cardinality(Others(queue')) \in Nat
        /\ Cardinality(Others(queue')) <= Cardinality(Others(queue))
    BY <1>3, TakeMessage DEF Apply
  <2>2. ui \in {"loop", "menu"} /\ ui' = "show" /\ back' = ui
    BY <1>3 DEF Apply, Take
  <2>3. TrayTypeOK'
    BY <1>3, <2>1, <2>2 DEF TrayTypeOK, Apply, callerVars, counters, Messages
  <2>4. FewOthers'
    <3>1. MenuIsOpen' <=> MenuIsOpen
      BY <2>2 DEF MenuIsOpen
    <3>2. menus' = menus
      BY <1>3 DEF Apply, counters
    <3> QED
      BY <1>0, <2>1, <3>1, <3>2 DEF FewOthers
  <2>5. UiInv' /\ OnItsWay'
    BY <1>3, <2>2 DEF UiInv, OnItsWay, Apply
  <2> QED
    BY <2>3, <2>4, <2>5
<1>4. CASE Show
  <2>1. TrayTypeOK'
    BY <1>4 DEF TrayTypeOK, Show, callerVars, counters
  <2>2. FewOthers'
    BY <1>4 DEF TrayTypeOK, FewOthers, MenuIsOpen, Show, counters
  <2>3. UiInv'
    BY <1>4 DEF TrayTypeOK, UiInv, Show
  <2>4. OnItsWay'
    <3>1. /\ (HasUpdate(queue))' = HasUpdate(queue) /\ Posting' = Posting
          /\ latest' = latest
      BY <1>4 DEF Show, HasUpdate, Posting, callerVars
    <3>2. ui' \in {"loop", "menu"}
      BY <1>4 DEF TrayTypeOK, Show
    <3>3. icon' = snap \/ unseen' = TRUE
      BY <1>4 DEF Show
    <3>4. snap = latest \/ HasUpdate(queue) \/ Posting
      BY <1>4 DEF OnItsWay, Show
    <3> QED
      BY <3>1, <3>2, <3>3, <3>4 DEF OnItsWay
  <2> QED
    BY <2>1, <2>2, <2>3, <2>4
<1>5. CASE Menu
  <2>1. /\ queue' \in Seq(Messages) /\ Len(queue') <= QueueLimit
        /\ Cardinality(Others(queue')) \in Nat
        /\ Cardinality(Others(queue')) <= Cardinality(Others(queue)) - 1
        /\ HasUpdate(queue) => HasUpdate(queue')
    BY <1>5, TakeMessage DEF Menu
  <2>2. ui \in {"loop", "menu"} /\ ui' = "menu"
    BY <1>5 DEF Menu, Take
  <2>3. TrayTypeOK'
    BY <1>5, <2>1, <2>2 DEF TrayTypeOK, Menu, callerVars, counters, Messages
  <2>4. FewOthers'
    BY <1>0, <1>5, <2>1, <2>2 DEF FewOthers, MenuIsOpen, Menu, counters
  <2>5. UiInv'
    BY <1>5, <2>2 DEF UiInv, Menu
  <2>6. OnItsWay'
    BY <1>5, <2>1, <2>2 DEF OnItsWay, Posting, Menu, callerVars
  <2> QED
    BY <2>3, <2>4, <2>5, <2>6
<1>6. CASE Destroy
  <2>1. /\ queue' \in Seq(Messages) /\ Len(queue') <= QueueLimit
        /\ Cardinality(Others(queue')) \in Nat
        /\ Cardinality(Others(queue')) <= Cardinality(Others(queue))
    BY <1>6, TakeMessage DEF Destroy
  <2>2. TrayTypeOK'
    BY <1>6, <2>1 DEF TrayTypeOK, Destroy, callerVars, counters, Messages
  <2>3. FewOthers'
    BY <1>0, <1>6, <2>1 DEF FewOthers, MenuIsOpen, Destroy, counters
  <2>4. UiInv' /\ OnItsWay'
    BY <1>6 DEF UiInv, OnItsWay, Destroy
  <2> QED
    BY <2>2, <2>3, <2>4
<1> QED
  BY <1>1, <1>2, <1>3, <1>4, <1>5, <1>6 DEF UiThread

(* The user: a right click is counted before its message is, and choosing  *)
(* Exit turns an open menu into the message that closes the window.        *)
LEMMA UserKeepsIt ==
  ASSUME IInv, Choose \/ RightClick \/ ClickDesktop
  PROVE  IInv'
<1> USE DEF IInv
<1>0. queue \in Seq(Messages) /\ Cardinality(Others(queue)) \in Nat /\ menus \in Nat
  BY OthersAreFinite DEF TrayTypeOK, Messages
<1>1. CASE Choose
  <2>1. /\ queue' \in Seq(Messages) /\ Len(queue') <= QueueLimit
        /\ HasUpdate(queue) => HasUpdate(queue')
        /\ Cardinality(Others(queue')) <= Cardinality(Others(queue)) + 1
    <3>1. CASE queue' = queue
      BY <1>0, <3>1 DEF TrayTypeOK
    <3>2. CASE Post("close")
      BY <3>2, PostMessage DEF Messages
    <3> QED
      BY <1>1, <3>1, <3>2 DEF Choose
  <2>2. ui = "menu" /\ ui' = "loop"
    BY <1>1 DEF Choose
  <2>3. TrayTypeOK'
    BY <1>1, <2>1, <2>2 DEF TrayTypeOK, Choose, callerVars, counters, Messages
  <2>4. FewOthers'
    <3>1. Cardinality(Others(queue')) \in Nat
      BY <2>1, OthersAreFinite
    <3>2. MenuIsOpen /\ ~MenuIsOpen'
      BY <2>2 DEF MenuIsOpen
    <3>3. menus' = menus
      BY <1>1 DEF Choose, counters
    <3> QED
      BY <1>0, <2>1, <3>1, <3>2, <3>3 DEF FewOthers
  <2>5. UiInv'
    BY <1>1, <2>2 DEF UiInv, Choose
  <2>6. OnItsWay'
    BY <1>1, <2>1, <2>2 DEF OnItsWay, Posting, Choose, callerVars
  <2> QED
    BY <2>3, <2>4, <2>5, <2>6
<1>2. CASE RightClick
  <2>1. /\ queue' \in Seq(Messages) /\ Len(queue') <= QueueLimit
        /\ HasUpdate(queue) => HasUpdate(queue')
        /\ Cardinality(Others(queue')) <= Cardinality(Others(queue)) + 1
    BY <1>2, PostMessage DEF RightClick, Messages
  <2>2. TrayTypeOK'
    BY <1>2, <2>1 DEF TrayTypeOK, RightClick, callerVars, uiVars, Messages
  <2>3. FewOthers'
    <3>1. Cardinality(Others(queue')) \in Nat
      BY <2>1, OthersAreFinite
    <3>2. MenuIsOpen' <=> MenuIsOpen
      BY <1>2 DEF RightClick, uiVars, MenuIsOpen
    <3>3. menus' = menus + 1 /\ menus < MaxMenus
      BY <1>2 DEF RightClick
    <3> QED
      BY <1>0, <2>1, <3>1, <3>2, <3>3, TrayBounds DEF FewOthers
  <2>4. UiInv'
    BY <1>2 DEF UiInv, RightClick, uiVars
  <2>5. OnItsWay'
    BY <1>2, <2>1 DEF OnItsWay, Posting, RightClick, callerVars, uiVars
  <2> QED
    BY <2>2, <2>3, <2>4, <2>5
<1>3. CASE ClickDesktop
  <2>1. TrayTypeOK'
    BY <1>3 DEF TrayTypeOK, ClickDesktop, callerVars, uiVars
  <2>2. FewOthers' /\ UiInv'
    BY <1>3 DEF FewOthers, UiInv, MenuIsOpen, ClickDesktop, uiVars
  <2>3. OnItsWay'
    BY <1>3 DEF OnItsWay, HasUpdate, Posting, ClickDesktop, callerVars, uiVars
  <2> QED
    BY <2>1, <2>2, <2>3
<1> QED
  BY <1>1, <1>2, <1>3

LEMMA InvIsInductive == IInv /\ [TrayNext]_trayVars => IInv'
<1> SUFFICES ASSUME IInv, [TrayNext]_trayVars PROVE IInv'
  OBVIOUS
<1>1. CASE \E c \in Callers : Call(c) \/ Store(c) \/ PostUpdate(c)
  BY <1>1, CallersKeepIt
<1>2. CASE UiThread
  BY <1>2, UiThreadKeepsIt
<1>3. CASE Choose \/ RightClick \/ ClickDesktop
  BY <1>3, UserKeepsIt
<1>4. CASE UNCHANGED trayVars
  BY <1>4 DEF IInv, TrayTypeOK, FewOthers, MenuIsOpen, UiInv, OnItsWay, HasUpdate,
              Posting, Others, trayVars, callerVars, uiVars, counters
<1> QED
  BY <1>1, <1>2, <1>3, <1>4 DEF TrayNext

(* With everything handled, what was on its way to the icon is there.      *)
LEMMA InvSuffices == IInv => IconIsRight
<1> SUFFICES ASSUME IInv PROVE IconIsRight
  OBVIOUS
<1>1. queue = <<>> => ~HasUpdate(queue)
  <2>1. Len(<<>>) = 0
    BY EmptySeq
  <2> QED
    BY <2>1 DEF HasUpdate
<1>2. IconCatchesUp
  BY <1>1 DEF IInv, TrayTypeOK, OnItsWay, Posting, IconCatchesUp
<1> QED
  BY <1>2 DEF IInv, IconIsRight

(* The icon shows what was written last once nothing is left to do         *)
(* (UpdateTray, ApplyTray), however full the queue was and however many    *)
(* threads call.                                                           *)
THEOREM IconIsAlwaysRight == TraySpec => []IconIsRight
<1> QED
  BY InitInv, InvIsInductive, InvSuffices, PTL DEF TraySpec
=============================================================================
