--------------------------- MODULE WsStreamProofs ---------------------------
(***************************************************************************)
(* The diff stream of WsStream never loses or invents anything, and        *)
(* implements the stream of whole views, for every fleet, viewport and     *)
(* length of the queues.                                                   *)
(***************************************************************************)
EXTENDS WsStream, SequenceTheorems, TLAPS

\* What the wire adds: a socket that is not open carries nothing, and a forced
\* snapshot starts from nothing sent.
Plumbing ==
  /\ ~online => sub = None /\ c2s = <<>> /\ s2c = <<>>
  /\ sub # None /\ sub.force => sent = Nothing

IInv == TypeOK /\ DiffsLeadToSent /\ FramesFit /\ Plumbing

Seen == [Vehicles -> Sent \cup {None}]

\* The compared part of an entry.
LEMMA ComparedType ==
  ASSUME NEW e \in Entry \cup {None}
  PROVE  /\ Compared(e) \in Sent \cup {None}
         /\ Compared(e) = None <=> e = None
BY ConstantsAssumption DEF Compared, Entry, Sent

LEMMA ViewType ==
  ASSUME NEW copy \in Index
  PROVE  View(copy) \in Seen
BY ComparedType DEF View, Index, Seen

LEMMA NothingType == Nothing \in Index /\ Nothing \in Seen /\ View(Nothing) = Nothing
BY DEF Nothing, Index, Seen, View, Compared

LEMMA EmptySeqType == <<>> \in Seq(ClientMsg) /\ <<>> \in Seq(Frame) /\ <<>> \in Seq(Seen)
OBVIOUS

\* onUpdate keeps the store well typed.
LEMMA AppliedType ==
  ASSUME NEW copy \in Index, NEW f \in Frame
  PROVE  Applied(copy, f) \in Index
<1>1. Entered(copy, f) \in Index
  BY DEF Entered, Index, Frame
<1>2. ASSUME NEW c \in Index PROVE Moved(c, f) \in Index
  <2>1. ASSUME NEW v \in Vehicles, c[v] # None, f.moved[v] # None
        PROVE  [c[v] EXCEPT !.place = f.moved[v].place,
                            !.delay = f.moved[v].delay,
                            !.known = f.moved[v].known] \in Entry
    <3>1. c[v] \in Entry /\ f.moved[v] \in Move
      BY <2>1 DEF Index, Frame
    <3> QED BY <3>1 DEF Entry, Move
  <2> QED BY <2>1 DEF Moved, Index
<1>3. ASSUME NEW c \in Index PROVE Without(c, f) \in Index
  BY DEF Without, Index
<1> QED BY <1>1, <1>2, <1>3 DEF Applied

\* A frame that fits does to the store what Patched says it does to the view.
LEMMA AppliedIsPatched ==
  ASSUME NEW copy \in Index, NEW f \in Frame, Fits(View(copy), f)
  PROVE  View(Applied(copy, f)) = Patched(View(copy), f)
<1> DEFINE e == Entered(copy, f)
           m == Moved(e, f)
<1>1. SUFFICES ASSUME NEW v \in Vehicles
               PROVE  Compared(Applied(copy, f)[v]) = Patched(View(copy), f)[v]
  BY DEF View, Patched
<1>2. copy[v] \in Entry \cup {None} /\ f.entered[v] \in Entry \cup {None}
      /\ f.moved[v] \in Move \cup {None}
  BY DEF Index, Frame
<1>3. View(copy)[v] = Compared(copy[v]) /\ (Compared(copy[v]) = None <=> copy[v] = None)
  BY <1>2, ComparedType DEF View
<1>4. e[v] = IF f.entered[v] # None THEN f.entered[v]
             ELSE IF f.snapshot THEN None ELSE copy[v]
  BY DEF Entered
<1>5. Applied(copy, f)[v] = IF v \in f.left THEN None ELSE m[v]
  BY DEF Applied, Without
<1>6. /\ f.moved[v] # None \/ v \in f.left => ~f.snapshot /\ copy[v] # None
      /\ f.entered[v] # None => (f.snapshot \/ copy[v] = None) /\ v \notin f.left
  BY <1>3 DEF Fits
<1>7. CASE f.moved[v] # None
  <2>1. f.entered[v] = None /\ ~f.snapshot /\ copy[v] # None /\ e[v] = copy[v]
    BY <1>4, <1>6, <1>7
  <2>2. m[v] = [copy[v] EXCEPT !.place = f.moved[v].place,
                               !.delay = f.moved[v].delay,
                               !.known = f.moved[v].known]
    BY <1>7, <2>1 DEF Moved
  <2>3. copy[v] \in Entry /\ f.moved[v] \in Move
    BY <1>2, <1>7, <2>1
  <2>4. m[v] \in Entry /\ m[v].place = f.moved[v].place /\ m[v].delay = f.moved[v].delay
    BY <2>2, <2>3 DEF Entry, Move
  <2>5. Compared(m[v]) = Compared(f.moved[v])
    BY <1>7, <2>3, <2>4, ConstantsAssumption DEF Compared
  <2>6. Compared(None) = None
    BY DEF Compared
  <2> HIDE DEF m, e
  <2> QED BY <1>3, <1>5, <1>7, <2>1, <2>5, <2>6 DEF Patched
<1>8. CASE f.moved[v] = None
  <2>1. m[v] = e[v]
    BY <1>8 DEF Moved
  <2>2. Compared(None) = None
    BY DEF Compared
  <2> HIDE DEF m, e
  <2> QED BY <1>3, <1>4, <1>5, <1>6, <1>8, <2>1, <2>2 DEF Patched
<1> QED BY <1>7, <1>8

\* A tick's frame takes what was sent to what is now sent.
LEMMA UpdateSound ==
  ASSUME TypeOK, sub # None, sub.force => sent = Nothing,
         NEW view \in Seen, ~sub.force => view = sent
  PROVE  /\ Update \in Frame
         /\ NowSent \in Seen
         /\ Fits(view, Update)
         /\ Patched(view, Update) = NowSent
<1>1. index \in Index /\ sent \in Seen /\ sub \in Subscription
  BY ConstantsAssumption DEF TypeOK, Seen
<1>2. sub.force \in BOOLEAN
  BY <1>1 DEF Subscription
<1>3. \A v \in Vehicles : index[v] \in Entry \cup {None}
  BY <1>1 DEF Index
<1>4. \A v \in Vehicles : /\ Compared(index[v]) \in Sent \cup {None}
                         /\ Compared(index[v]) = None <=> index[v] = None
  BY <1>3, ComparedType
<1>5. Present \subseteq Vehicles /\ \A v \in Present : index[v] # None
  BY <1>1 DEF Present, Hits, Subscription
<1>6. NowSent \in Seen
  <2> DEFINE value(v) == IF v \in Present THEN Compared(index[v]) ELSE None
  <2>1. ASSUME NEW v \in Vehicles PROVE value(v) \in Sent \cup {None}
    <3>1. Compared(index[v]) \in Sent \cup {None}
      BY <1>3, ComparedType
    <3> HIDE DEF Compared
    <3> QED BY <3>1
  <2>2. NowSent = [v \in Vehicles |-> value(v)]
    BY DEF NowSent
  <2> HIDE DEF value
  <2> QED BY <2>1, <2>2 DEF Seen
<1>7. \A v \in Moving : v \in Vehicles /\ index[v] \in Entry /\ ToMove(index[v]) \in Move
  BY <1>3, <1>5 DEF Moving, ToMove, Entry, Move
<1>8. Update \in Frame
  <2>1. [v \in Vehicles |-> IF v \in Entering THEN index[v] ELSE None] \in Index
    BY <1>3 DEF Index
  <2>2. [v \in Vehicles |-> IF v \in Moving THEN ToMove(index[v]) ELSE None]
          \in [Vehicles -> Move \cup {None}]
    BY <1>7
  <2>3. Leaving \subseteq Vehicles
    BY DEF Leaving
  <2> QED BY <1>2, <2>1, <2>2, <2>3 DEF Update, Frame
<1>9. ASSUME NEW v \in Vehicles
      PROVE  /\ Update.entered[v] # None <=> v \in Entering
             /\ Update.moved[v] # None <=> v \in Moving
             /\ Update.entered[v] # None => Update.entered[v] = index[v]
             /\ Update.moved[v] # None => Compared(Update.moved[v]) = Compared(index[v])
             /\ Update.left = Leaving /\ Update.snapshot = sub.force
  <2>1. Update.entered[v] = IF v \in Entering THEN index[v] ELSE None
    BY DEF Update
  <2>2. Update.moved[v] = IF v \in Moving THEN ToMove(index[v]) ELSE None
    BY DEF Update
  <2>3. Update.left = Leaving /\ Update.snapshot = sub.force
    BY DEF Update
  <2>4. v \in Entering => index[v] # None
    BY <1>5 DEF Entering
  <2>5. v \in Moving => ToMove(index[v]) # None
    BY <1>7, ConstantsAssumption
  <2>6. v \in Moving => Compared(ToMove(index[v])) = Compared(index[v])
    BY <1>7, ConstantsAssumption DEF Compared, ToMove
  <2> QED BY <2>1, <2>2, <2>3, <2>4, <2>5, <2>6
<1>10. Fits(view, Update)
  <2>1. ASSUME NEW v \in Vehicles PROVE Nothing[v] = None
    BY DEF Nothing
  <2>2. sub.force => Moving = {} /\ Leaving = {}
    BY <2>1, <1>5 DEF Moving, Leaving
  <2> QED BY <1>2, <1>9, <2>2, <1>5 DEF Fits, Entering, Moving, Leaving
<1>11. Patched(view, Update) = NowSent
  <2>1. SUFFICES ASSUME NEW v \in Vehicles
                 PROVE  Patched(view, Update)[v] = NowSent[v]
    BY DEF Patched, NowSent
  <2>2. Nothing[v] = None
    BY DEF Nothing
  <2>3. Patched(view, Update)[v] =
          IF v \in Entering THEN Compared(index[v])
          ELSE IF v \in Leaving \/ sub.force THEN None
          ELSE IF v \in Moving /\ view[v] # None THEN Compared(index[v])
          ELSE view[v]
    BY <1>9 DEF Patched
  <2>4. NowSent[v] = IF v \in Present THEN Compared(index[v]) ELSE None
    BY DEF NowSent
  <2>5. CASE sub.force
    BY <2>2, <2>3, <2>4, <2>5 DEF Entering
  <2>6. CASE ~sub.force
    BY <2>3, <2>4, <2>6 DEF Entering, Moving, Leaving
  <2> QED BY <2>5, <2>6, <1>2
<1> QED BY <1>6, <1>8, <1>10, <1>11

LEMMA InitIInv == Init => IInv
<1> SUFFICES ASSUME Init PROVE IInv
  OBVIOUS
<1>1. TypeOK
  BY NothingType, EmptySeqType DEF Init, TypeOK, Seen
<1>2. DiffsLeadToSent /\ FramesFit /\ Plumbing
  BY DEF Init, DiffsLeadToSent, FramesFit, Plumbing
<1> QED BY <1>1, <1>2 DEF IInv

\* What every action that leaves the frames in flight alone preserves.
LEMMA FramesKept ==
  ASSUME DiffsLeadToSent, FramesFit, UNCHANGED <<s2c, store, views>>,
         (sub' # None /\ ~sub'.force) => (sub # None /\ ~sub.force /\ sent' = sent)
  PROVE  DiffsLeadToSent' /\ FramesFit'
<1>1. \A i : ViewBefore(i)' = ViewBefore(i)
  BY DEF ViewBefore, View
<1>2. \A i : /\ Patched(ViewBefore(i), s2c[i])' = Patched(ViewBefore(i), s2c[i])
             /\ Fits(ViewBefore(i), s2c[i])' = Fits(ViewBefore(i), s2c[i])
  BY <1>1 DEF Patched, Fits
<1> QED BY <1>1, <1>2 DEF DiffsLeadToSent, FramesFit

\* A message of the client never changes what the frames in flight mean.
LEMMA MessageType ==
  ASSUME TypeOK, c2s # <<>>
  PROVE  Head(c2s) \in ClientMsg /\ Tail(c2s) \in Seq(ClientMsg)
BY HeadTailProperties DEF TypeOK

LEMMA SubscribedSub ==
  ASSUME TypeOK, Subscribe
  PROVE  sub' \in Subscription /\ sub'.force = TRUE
<1>1. Head(c2s) \in ClientMsg
  BY MessageType DEF Subscribe
<1> QED BY <1>1 DEF Subscribe, ClientMsg, Wish, Subscription

LEMMA UpdatedSub ==
  ASSUME TypeOK, UpdateViewport
  PROVE  /\ sub' \in Subscription \cup {None}
         /\ (sub' = None) = (sub = None)
         /\ sub # None => sub'.force = sub.force
<1> DEFINE w == Head(c2s).wish
<1>1. w \in Wish
  BY MessageType DEF UpdateViewport, ClientMsg
<1>2. w.box \in SUBSET Places /\ w.filter \in SUBSET Vehicles /\ w.pinned \in SUBSET Vehicles
  BY <1>1 DEF Wish
<1>3. sub' = IF sub = None THEN None
             ELSE [sub EXCEPT !.box = w.box, !.filter = w.filter, !.pinned = w.pinned]
  BY DEF UpdateViewport
<1>4. CASE sub = None
  BY <1>3, <1>4
<1>5. CASE sub # None
  <2>1. sub \in Subscription
    BY <1>5 DEF TypeOK
  <2>2. sub' \in Subscription /\ sub'.force = sub.force
    BY <1>2, <1>3, <1>5, <2>1 DEF Subscription
  <2> QED BY <1>5, <2>2, ConstantsAssumption
<1> QED BY <1>4, <1>5

LEMMA NextIInv == IInv /\ [Next]_vars => IInv'
<1> SUFFICES ASSUME IInv, [Next]_vars PROVE IInv'
  OBVIOUS
<1> USE DEF IInv
<1>1. CASE Publish
  <2>1. TypeOK' /\ Plumbing'
    BY <1>1 DEF Publish, TypeOK, Plumbing
  <2>2. DiffsLeadToSent' /\ FramesFit'
    BY <1>1, FramesKept DEF Publish
  <2> QED BY <2>1, <2>2
<1>2. CASE Open
  <2>1. [type |-> "subscribe", wish |-> wish] \in ClientMsg
    BY ConstantsAssumption DEF TypeOK, ClientMsg
  <2>2. TypeOK' /\ Plumbing'
    BY <1>2, <2>1 DEF Open, TypeOK, Plumbing
  <2>3. DiffsLeadToSent' /\ FramesFit'
    BY <1>2, FramesKept DEF Open
  <2> QED BY <2>2, <2>3
<1>3. CASE Change
  <2>1. wish' \in Wishes /\ [type |-> "update_viewport", wish |-> wish'] \in ClientMsg
    BY <1>3, ConstantsAssumption DEF Change, ClientMsg
  <2>2. c2s' \in Seq(ClientMsg)
    BY <1>3, <2>1, AppendProperties DEF Change, TypeOK
  <2>3. ~online => c2s' = c2s
    BY <1>3 DEF Change
  <2>4. TypeOK' /\ Plumbing'
    BY <1>3, <2>1, <2>2, <2>3 DEF Change, TypeOK, Plumbing
  <2>5. DiffsLeadToSent' /\ FramesFit'
    BY <1>3, FramesKept DEF Change
  <2> QED BY <2>4, <2>5
<1>4. CASE Subscribe
  <2>1. Head(c2s) \in ClientMsg /\ c2s' \in Seq(ClientMsg)
    BY <1>4, MessageType DEF Subscribe
  <2>2. sub' \in Subscription /\ sub'.force = TRUE
    BY <1>4, SubscribedSub
  <2>3. TypeOK' /\ Plumbing'
    BY <1>4, <2>1, <2>2, NothingType DEF Subscribe, TypeOK, Plumbing, Seen
  <2>4. DiffsLeadToSent' /\ FramesFit'
    BY <1>4, <2>2, FramesKept DEF Subscribe
  <2> QED BY <2>3, <2>4
<1>5. CASE UpdateViewport
  <2>1. Head(c2s) \in ClientMsg /\ c2s' \in Seq(ClientMsg)
    BY <1>5, MessageType DEF UpdateViewport
  <2>2. /\ sub' \in Subscription \cup {None}
        /\ (sub' = None) = (sub = None)
        /\ sub # None => sub'.force = sub.force
    BY <1>5, UpdatedSub
  <2>3. TypeOK' /\ Plumbing'
    BY <1>5, <2>1, <2>2 DEF UpdateViewport, TypeOK, Plumbing
  <2>4. DiffsLeadToSent' /\ FramesFit'
    BY <1>5, <2>2, FramesKept DEF UpdateViewport
  <2> QED BY <2>3, <2>4
<1>6. CASE Tick
  <2> DEFINE n == Len(s2c)
  <2>1. n \in Nat /\ Len(views) = n /\ s2c \in Seq(Frame) /\ views \in Seq(Seen)
    BY DEF TypeOK, DiffsLeadToSent, Seen
  <2>2. ViewBefore(n + 1) \in Seen
    <3>1. View(store) \in Seen
      BY ViewType DEF TypeOK
    <3>2. n > 0 => views[n] \in Seen
      BY <2>1
    <3> QED BY <2>1, <3>1, <3>2 DEF ViewBefore
  <2>3. /\ Update \in Frame /\ NowSent \in Seen
        /\ Fits(ViewBefore(n + 1), Update)
        /\ Patched(ViewBefore(n + 1), Update) = NowSent
    BY <1>6, <2>2, UpdateSound DEF Tick, Plumbing, DiffsLeadToSent
  <2>4. /\ s2c' = Append(s2c, Update) /\ views' = Append(views, NowSent)
        /\ store' = store /\ sent' = NowSent
    BY <1>6 DEF Tick
  <2>5. /\ Len(s2c') = n + 1 /\ Len(views') = n + 1
        /\ s2c' \in Seq(Frame) /\ views' \in Seq(Seen)
        /\ s2c'[n + 1] = Update /\ views'[n + 1] = NowSent
        /\ \A i \in 1 .. n : s2c'[i] = s2c[i] /\ views'[i] = views[i]
    BY <2>1, <2>3, <2>4
  <2>6. \A i \in 1 .. n + 1 : ViewBefore(i)' = ViewBefore(i)
    <3>1. View(store)' = View(store)
      BY <2>4 DEF View
    <3> QED BY <2>1, <2>5, <3>1 DEF ViewBefore
  <2>7. ASSUME NEW i \in 1 .. n + 1
        PROVE  /\ Patched(ViewBefore(i), s2c[i])' = views'[i]
               /\ Fits(ViewBefore(i), s2c[i])'
    <3>1. /\ Patched(ViewBefore(i), s2c[i])' = Patched(ViewBefore(i), s2c'[i])
          /\ Fits(ViewBefore(i), s2c[i])' <=> Fits(ViewBefore(i), s2c'[i])
      BY <2>6 DEF Patched, Fits
    <3>2. CASE i = n + 1
      BY <2>3, <2>5, <3>1, <3>2
    <3>3. CASE i # n + 1
      <4>1. i \in 1 .. n
        BY <2>1, <3>3
      <4> QED BY <2>5, <3>1, <4>1 DEF DiffsLeadToSent, FramesFit
    <3> QED BY <3>2, <3>3
  <2>9. DiffsLeadToSent'
    <3>1. \A i \in 1 .. Len(s2c') : Patched(ViewBefore(i), s2c[i])' = views'[i]
      BY <2>5, <2>7
    <3>2. sent' = ViewBefore(Len(s2c) + 1)'
      BY <2>1, <2>4, <2>5 DEF ViewBefore
    <3> QED BY <2>5, <3>1, <3>2 DEF DiffsLeadToSent
  <2>10. FramesFit'
    BY <2>5, <2>7 DEF FramesFit
  <2>11. sub' \in Subscription /\ sub'.force = FALSE
    BY <1>6 DEF Tick, TypeOK, Subscription
  <2>12. TypeOK'
    BY <1>6, <2>3, <2>4, <2>5, <2>11 DEF Tick, TypeOK, Seen
  <2>13. Plumbing'
    BY <1>6, <2>11 DEF Tick, Plumbing
  <2> QED BY <2>9, <2>10, <2>12, <2>13
<1>7. CASE Receive
  <2> DEFINE n == Len(s2c)
  <2>1. /\ n \in Nat /\ n > 0 /\ Len(views) = n
        /\ s2c \in Seq(Frame) /\ views \in Seq(Seen) /\ s2c # <<>> /\ views # <<>>
    BY <1>7 DEF Receive, TypeOK, DiffsLeadToSent, Seen
  <2>2. /\ store' = Applied(store, s2c[1])
        /\ s2c' = Tail(s2c) /\ views' = Tail(views) /\ sub' = sub /\ sent' = sent
    BY <1>7, <2>1 DEF Receive
  <2>3. /\ Len(s2c') = n - 1 /\ Len(views') = n - 1
        /\ s2c' \in Seq(Frame) /\ views' \in Seq(Seen)
        /\ \A i \in 1 .. n - 1 : s2c'[i] = s2c[i + 1] /\ views'[i] = views[i + 1]
    BY <2>1, <2>2
  <2>4. s2c[1] \in Frame /\ store \in Index
    BY <2>1 DEF TypeOK
  <2>5. Fits(View(store), s2c[1]) /\ Patched(View(store), s2c[1]) = views[1]
    BY <2>1 DEF FramesFit, DiffsLeadToSent, ViewBefore
  <2>6. store' \in Index /\ View(store') = views[1]
    BY <2>2, <2>4, <2>5, AppliedType, AppliedIsPatched
  <2>7. \A i \in 1 .. n : ViewBefore(i)' = ViewBefore(i + 1)
    BY <2>1, <2>3, <2>6 DEF ViewBefore, View
  <2>8. ASSUME NEW i \in 1 .. n - 1
        PROVE  /\ Patched(ViewBefore(i), s2c[i])' = views'[i]
               /\ Fits(ViewBefore(i), s2c[i])'
    <3>1. i \in 1 .. n /\ i + 1 \in 1 .. n
      BY <2>1
    <3>2. /\ Patched(ViewBefore(i), s2c[i])' = Patched(ViewBefore(i + 1), s2c'[i])
          /\ Fits(ViewBefore(i), s2c[i])' <=> Fits(ViewBefore(i + 1), s2c'[i])
      BY <2>7, <3>1 DEF Patched, Fits
    <3> QED BY <2>3, <3>1, <3>2 DEF DiffsLeadToSent, FramesFit
  <2>9. DiffsLeadToSent'
    <3>1. ViewBefore(Len(s2c) + 1)' = ViewBefore(n + 1)
      BY <2>1, <2>3, <2>7
    <3> QED BY <2>2, <2>3, <2>8, <3>1 DEF DiffsLeadToSent
  <2>10. FramesFit'
    BY <2>3, <2>8 DEF FramesFit
  <2>11. TypeOK'
    BY <1>7, <2>3, <2>6 DEF Receive, TypeOK, Seen
  <2>12. Plumbing'
    <3>1. s2c = <<>> => s2c' = <<>>
      BY <2>1
    <3> QED BY <1>7, <2>1, <3>1 DEF Receive, Plumbing
  <2> QED BY <2>9, <2>10, <2>11, <2>12
<1>8. CASE Drop
  <2>1. TypeOK' /\ Plumbing'
    BY <1>8, NothingType, EmptySeqType DEF Drop, TypeOK, Plumbing, Seen
  <2>2. DiffsLeadToSent' /\ FramesFit'
    BY <1>8 DEF Drop, DiffsLeadToSent, FramesFit
  <2> QED BY <2>1, <2>2
<1>9. CASE UNCHANGED vars
  <2>1. TypeOK' /\ Plumbing'
    BY <1>9 DEF vars, TypeOK, Plumbing
  <2>2. DiffsLeadToSent' /\ FramesFit'
    BY <1>9, FramesKept DEF vars
  <2> QED BY <2>1, <2>2
<1> QED BY <1>1, <1>2, <1>3, <1>4, <1>5, <1>6, <1>7, <1>8, <1>9 DEF Next

-----------------------------------------------------------------------------
(* The theorems.                                                           *)

THEOREM Invariance == Spec => []IInv
<1>1. Init => IInv
  BY InitIInv
<1>2. IInv /\ [Next]_vars => IInv'
  BY NextIInv
<1> QED BY <1>1, <1>2, PTL DEF Spec

\* TypeOK: every part of the connection keeps its type.
THEOREM TypeCorrect == Spec => []TypeOK
<1>1. IInv => TypeOK
  BY DEF IInv
<1> QED BY <1>1, Invariance, PTL

\* DiffsLeadToSent: a client that has caught up holds what the server believes
\* it sent, whatever viewport changes and reconnects came before.
THEOREM DiffsLead == Spec => []DiffsLeadToSent
<1>1. IInv => DiffsLeadToSent
  BY DEF IInv
<1> QED BY <1>1, Invariance, PTL

\* FramesFit: MOVE and LEAVE only name vehicles the client has, ENTER only
\* vehicles it lacks.
THEOREM FramesAlwaysFit == Spec => []FramesFit
<1>1. IInv => FramesFit
  BY DEF IInv
<1> QED BY <1>1, Invariance, PTL

\* A tick computes the whole view its subscription asks for.
LEMMA NowSentIsAnswer ==
  ASSUME TypeOK, sub # None
  PROVE  Asked \in Wish /\ NowSent = Answer(index, Asked)
<1>1. sub \in Subscription
  BY DEF TypeOK
<1>2. Asked \in Wish /\ Asked.box = sub.box /\ Asked.filter = sub.filter
      /\ Asked.pinned = sub.pinned
  BY <1>1 DEF Asked, Subscription, Wish
<1>3. \A v \in Vehicles : v \in Present <=> v \in Wanted(index, Asked)
  BY <1>2 DEF Present, Hits, Wanted
<1> QED BY <1>2, <1>3 DEF NowSent, Answer

\* Every step of the diff stream is a step of the stream of whole views, or
\* none that it can see.
LEMMA StepImplements ==
  IInv /\ [Next]_vars => [Whole!Next]_(Whole!vars)
<1> SUFFICES ASSUME IInv, [Next]_vars
             PROVE  Whole!Next \/ UNCHANGED Whole!vars
  OBVIOUS
<1> USE DEF IInv
<1>1. CASE Publish
  BY <1>1, ConstantsAssumption DEF Publish, Whole!Next, Whole!Publish, Asked, View, TypeOK
<1>2. CASE Open
  BY <1>2 DEF Open, Whole!Next, Whole!Join, Asked, View
<1>3. CASE Change
  BY <1>3 DEF Change, Whole!vars, Asked, View
<1>4. CASE Subscribe
  <2>1. online
    BY <1>4 DEF Subscribe, Plumbing
  <2>2. sub' \in Subscription
    BY <1>4, SubscribedSub
  <2>3. Asked' \in Wish
    BY <2>2, ConstantsAssumption DEF Asked, Subscription, Wish
  <2> QED BY <1>4, <2>1, <2>3 DEF Subscribe, Whole!Next, Whole!Ask, View
<1>5. CASE UpdateViewport
  <2>1. online
    BY <1>5 DEF UpdateViewport, Plumbing
  <2>2. CASE sub = None
    BY <1>5, <2>2 DEF UpdateViewport, Whole!vars, Asked, View
  <2>3. CASE sub # None
    <3>1. sub' \in Subscription
      BY <2>3, <1>5, UpdatedSub
    <3>2. Asked' \in Wish
      BY <3>1, ConstantsAssumption DEF Asked, Subscription, Wish
    <3> QED BY <1>5, <2>1, <3>2 DEF UpdateViewport, Whole!Next, Whole!Ask, View
  <2> QED BY <2>2, <2>3
<1>6. CASE Tick
  <2>1. online
    BY <1>6 DEF Tick, Plumbing
  <2>2. Asked \in Wish /\ NowSent = Answer(index, Asked)
    BY <1>6, NowSentIsAnswer DEF Tick
  <2>3. views' = Append(views, Answer(index, Asked))
    BY <1>6, <2>2 DEF Tick
  <2>4. Asked' = Asked
    BY <1>6, ConstantsAssumption DEF Tick, Asked, TypeOK, Subscription
  <2> QED BY <1>6, <2>1, <2>2, <2>3, <2>4, ConstantsAssumption
          DEF Tick, Whole!Next, Whole!Render, View
<1>7. CASE Receive
  <2>1. online
    BY <1>7 DEF Receive, Plumbing
  <2>2. /\ s2c # <<>> /\ Len(s2c) > 0 /\ Head(s2c) = s2c[1] /\ s2c[1] \in Frame
        /\ views # <<>> /\ Head(views) = views[1]
    BY <1>7 DEF Receive, TypeOK, DiffsLeadToSent
  <2>3. Fits(View(store), s2c[1]) /\ Patched(View(store), s2c[1]) = views[1]
    BY <2>2 DEF FramesFit, DiffsLeadToSent, ViewBefore, TypeOK
  <2>4. View(store)' = Head(views)
    <3>1. store' = Applied(store, s2c[1])
      BY <1>7, <2>2 DEF Receive
    <3>2. View(store') = View(store)'
      BY DEF View
    <3> QED BY <2>2, <2>3, <3>1, <3>2, AppliedIsPatched DEF TypeOK
  <2> QED BY <1>7, <2>1, <2>2, <2>4 DEF Receive, Whole!Next, Whole!Show, Asked
<1>8. CASE Drop
  BY <1>8 DEF Drop, Whole!Next, Whole!Lose, Asked, View
<1>9. CASE UNCHANGED vars
  BY <1>9 DEF vars, Whole!vars, Asked, View
<1> QED BY <1>1, <1>2, <1>3, <1>4, <1>5, <1>6, <1>7, <1>8, <1>9 DEF Next

\* ImplementsViewStream: sending differences is as good as sending whole views.
THEOREM Refinement == Spec => ImplementsViewStream
<1>1. Init => Whole!Init
  BY NothingType DEF Init, Whole!Init, Asked, Seen
<1>2. IInv /\ [Next]_vars => [Whole!Next]_(Whole!vars)
  BY StepImplements
<1> QED BY <1>1, <1>2, Invariance, PTL DEF Spec, ImplementsViewStream, Whole!Spec
-----------------------------------------------------------------------------
(* A stream at rest.                                                       *)

\* The last message under way, or the subscription if none is, carries what the
\* client wants; a connection not subscribed yet is about to be.
WishTold ==
  /\ online /\ c2s # <<>> => c2s[Len(c2s)].wish = wish
  /\ online /\ c2s = <<>> => sub # None /\ Asked = wish
  /\ online /\ sub = None => c2s # <<>> /\ c2s[1].type = "subscribe"

\* What is left of the messages after the server took one.
LEMMA AfterOne ==
  ASSUME TypeOK, c2s # <<>>, c2s' = Tail(c2s)
  PROVE  /\ c2s[1] = Head(c2s) /\ c2s[1] \in ClientMsg
         /\ c2s' = <<>> => c2s[Len(c2s)] = c2s[1]
         /\ c2s' # <<>> => c2s'[Len(c2s')] = c2s[Len(c2s)]
<1>1. c2s \in Seq(ClientMsg) /\ Len(c2s) \in Nat /\ Len(c2s) > 0
  BY DEF TypeOK
<1>2. c2s' \in Seq(ClientMsg) /\ Len(c2s') = Len(c2s) - 1
      /\ \A i \in 1 .. Len(c2s) - 1 : c2s'[i] = c2s[i + 1]
  BY <1>1
<1>3. c2s[1] = Head(c2s) /\ c2s[1] \in ClientMsg
  BY <1>1
<1>4. ASSUME c2s' = <<>> PROVE c2s[Len(c2s)] = c2s[1]
  <2>1. Len(c2s') = 0
    <3>1. Len(<<>>) = 0 OBVIOUS
    <3> QED BY <1>4, <3>1
  <2> QED BY <1>1, <1>2, <2>1
<1>5. ASSUME c2s' # <<>> PROVE c2s'[Len(c2s')] = c2s[Len(c2s)]
  <2>1. Len(c2s') # 0 BY <1>2, <1>5
  <2>2. Len(c2s) - 1 \in 1 .. Len(c2s) - 1 BY <1>1, <1>2, <2>1
  <2> QED BY <1>1, <1>2, <2>2
<1> QED BY <1>3, <1>4, <1>5

\* A question is told apart by what it asks.
LEMMA AskedOf ==
  ASSUME NEW w \in Wish
  PROVE  [box |-> w.box, filter |-> w.filter, pinned |-> w.pinned] = w
BY DEF Wish

LEMMA NextWishTold ==
  ASSUME IInv, WishTold, [Next]_vars
  PROVE  WishTold'
<1> USE DEF IInv
<1>1. CASE Publish BY <1>1 DEF Publish, WishTold, Asked
<1>2. CASE Open BY <1>2 DEF Open, WishTold, Plumbing, Asked
<1>3. CASE Change
  <2>1. CASE online
    <3> DEFINE msg == [type |-> "update_viewport", wish |-> wish']
    <3>1. c2s \in Seq(ClientMsg) /\ Len(c2s) \in Nat
      BY DEF TypeOK
    <3>2. msg \in ClientMsg /\ c2s' = Append(c2s, msg)
      BY <1>3, <2>1, ConstantsAssumption DEF Change, ClientMsg
    <3>3. /\ Len(c2s') = Len(c2s) + 1 /\ c2s' # <<>> /\ c2s'[Len(c2s')] = msg
          /\ c2s # <<>> => c2s'[1] = c2s[1]
      BY <3>1, <3>2
    <3> QED BY <1>3, <2>1, <3>3 DEF Change, WishTold
  <2>2. CASE ~online BY <1>3, <2>2 DEF Change, WishTold
  <2> QED BY <2>1, <2>2
<1>4. CASE Subscribe
  <2>1. /\ c2s[1] = Head(c2s) /\ c2s[1] \in ClientMsg
        /\ c2s' = <<>> => c2s[Len(c2s)] = c2s[1]
        /\ c2s' # <<>> => c2s'[Len(c2s')] = c2s[Len(c2s)]
    BY <1>4, AfterOne DEF Subscribe
  <2>2. Head(c2s).wish \in Wish BY <2>1 DEF ClientMsg
  <2>3. sub' # None BY <1>4, SubscribedSub, ConstantsAssumption
  <2>4. Asked' = Head(c2s).wish
    BY <1>4, <2>2, <2>3, AskedOf DEF Subscribe, Asked
  <2> QED BY <1>4, <2>1, <2>3, <2>4 DEF Subscribe, WishTold
<1>5. CASE UpdateViewport
  <2>1. /\ c2s[1] = Head(c2s) /\ c2s[1] \in ClientMsg
        /\ c2s' = <<>> => c2s[Len(c2s)] = c2s[1]
        /\ c2s' # <<>> => c2s'[Len(c2s')] = c2s[Len(c2s)]
    BY <1>5, AfterOne DEF UpdateViewport
  <2>2. Head(c2s).wish \in Wish BY <2>1 DEF ClientMsg
  <2>3. online BY <1>5 DEF UpdateViewport, Plumbing
  <2>4. sub # None BY <1>5, <2>1, <2>3 DEF UpdateViewport, WishTold
  <2>5. sub \in Subscription /\ sub' # None BY <1>5, <2>4, UpdatedSub DEF TypeOK
  <2>6. Asked' = Head(c2s).wish
    BY <1>5, <2>2, <2>4, <2>5, AskedOf DEF UpdateViewport, Asked, Subscription
  <2> QED BY <1>5, <2>1, <2>5, <2>6 DEF UpdateViewport, WishTold
<1>6. CASE Tick
  <2>1. Asked' = Asked /\ sub' # None
    BY <1>6, ConstantsAssumption DEF Tick, Asked, TypeOK, Subscription
  <2> QED BY <1>6, <2>1 DEF Tick, WishTold
<1>7. CASE Receive BY <1>7 DEF Receive, WishTold, Asked
<1>8. CASE Drop BY <1>8 DEF Drop, WishTold
<1>9. CASE UNCHANGED vars BY <1>9 DEF vars, WishTold, Asked
<1> QED BY <1>1, <1>2, <1>3, <1>4, <1>5, <1>6, <1>7, <1>8, <1>9 DEF Next

\* A delay other than 0 is measured, in whatever copy of a vehicle.
Measured(e) == e # None => e.known \/ e.delay = 0

Honest ==
  /\ \A v \in Vehicles : Measured(store[v])
  /\ \A i \in 1 .. Len(s2c) : \A v \in Vehicles :
       Measured(s2c[i].entered[v]) /\ Measured(s2c[i].moved[v])

\* A frame of measured copies leaves the store with such.
LEMMA AppliedHonest ==
  ASSUME NEW copy \in Index, NEW f \in Frame, NEW v \in Vehicles, Measured(copy[v]),
         Measured(f.entered[v]), Measured(f.moved[v])
  PROVE  Measured(Applied(copy, f)[v])
<1> DEFINE e == Entered(copy, f)
           m == Moved(e, f)
<1>1. e[v] \in Entry \cup {None} /\ Measured(e[v])
  BY DEF Entered, Index, Frame, Measured
<1>2. Measured(m[v])
  <2>1. CASE e[v] # None /\ f.moved[v] # None
    <3>1. e[v] \in Entry /\ f.moved[v] \in Move BY <1>1, <2>1 DEF Frame
    <3>2. m[v] = [e[v] EXCEPT !.place = f.moved[v].place, !.delay = f.moved[v].delay,
                              !.known = f.moved[v].known]
      BY <2>1 DEF Moved
    <3>3. m[v].known = f.moved[v].known /\ m[v].delay = f.moved[v].delay
      BY <3>1, <3>2 DEF Entry
    <3> QED BY <2>1, <3>3 DEF Measured
  <2>2. CASE ~(e[v] # None /\ f.moved[v] # None)
    <3>1. m[v] = e[v] BY <2>2 DEF Moved
    <3> QED BY <1>1, <3>1
  <2> QED BY <2>1, <2>2
<1>3. Applied(copy, f)[v] = IF v \in f.left THEN None ELSE m[v]
  BY DEF Applied, Without
<1> QED BY <1>2, <1>3 DEF Measured

\* The copies stay measured: they are made from the index.
LEMMA NextHonest ==
  ASSUME IInv, Honest, [Next]_vars
  PROVE  Honest'
<1>1. CASE UNCHANGED <<store, s2c>> BY <1>1 DEF Honest
<1>2. CASE Tick
  <2>1. s2c \in Seq(Frame) /\ Update \in Frame
    <3> DEFINE n == Len(s2c)
    <3>1. n \in Nat /\ Len(views) = n /\ s2c \in Seq(Frame) /\ views \in Seq(Seen)
      BY DEF IInv, TypeOK, DiffsLeadToSent, Seen
    <3>2. View(store) \in Seen BY ViewType DEF IInv, TypeOK
    <3>3. ViewBefore(n + 1) \in Seen BY <3>1, <3>2 DEF ViewBefore
    <3> QED BY <1>2, <3>1, <3>3, UpdateSound DEF Tick, IInv, Plumbing, DiffsLeadToSent
  <2>2. /\ s2c' = Append(s2c, Update) /\ store' = store
        /\ \A i \in 1 .. Len(s2c') : s2c'[i] = Update \/ (i \in 1 .. Len(s2c) /\ s2c'[i] = s2c[i])
    BY <1>2, <2>1 DEF Tick
  <2>3. ASSUME NEW v \in Vehicles PROVE Measured(Update.entered[v]) /\ Measured(Update.moved[v])
    <3>1. Measured(index[v]) BY ConstantsAssumption DEF IInv, TypeOK, Measured
    <3>2. Measured(Update.entered[v]) BY <3>1 DEF Update, Measured
    <3>3. CASE v \in Moving
      <4>1. index[v] # None BY <3>3 DEF Moving, Present, Hits
      <4>2. Update.moved[v] = ToMove(index[v]) BY <3>3 DEF Update
      <4> QED BY <3>1, <3>2, <4>1, <4>2 DEF ToMove, Measured
    <3>4. CASE v \notin Moving BY <3>2, <3>4 DEF Update, Measured
    <3> QED BY <3>3, <3>4
  <2> HIDE DEF Update
  <2> QED BY <2>2, <2>3 DEF Honest
<1>3. CASE Receive
  <2>1. s2c \in Seq(Frame) /\ s2c # <<>> /\ store \in Index
    BY <1>3 DEF IInv, TypeOK, Receive
  <2>2. /\ Head(s2c) = s2c[1] /\ s2c[1] \in Frame /\ 1 \in 1 .. Len(s2c)
        /\ s2c' = Tail(s2c) /\ store' = Applied(store, s2c[1])
    BY <1>3, <2>1 DEF Receive
  <2>3. \A i \in 1 .. Len(s2c') : i + 1 \in 1 .. Len(s2c) /\ s2c'[i] = s2c[i + 1]
    BY <2>1, <2>2
  <2>4. ASSUME NEW v \in Vehicles PROVE Measured(store'[v])
    BY <2>1, <2>2, AppliedHonest DEF Honest
  <2> QED BY <2>3, <2>4 DEF Honest
<1>4. CASE Drop
  <2>1. Len(s2c') = 0 /\ store' = store
    <3>1. Len(<<>>) = 0 OBVIOUS
    <3> QED BY <1>4, <3>1 DEF Drop
  <2> QED BY <2>1 DEF Honest
<1> QED BY <1>1, <1>2, <1>3, <1>4
        DEF Next, vars, Publish, Open, Change, Subscribe, UpdateViewport

\* RestIsAnswered, the safe half of Settles: a stream that has come to rest has
\* left the client with what it wants of the index in all the differ compares,
\* and with the word that a delay is measured wherever there is one to show.
THEOREM RestAnswered == Spec => []RestIsAnswered
<1>1. Init => WishTold /\ Honest
  <2> SUFFICES ASSUME Init PROVE WishTold /\ Honest OBVIOUS
  <2>1. Len(<<>>) = 0 OBVIOUS
  <2> QED BY <2>1 DEF Init, WishTold, Honest, Nothing, Measured
<1>2. IInv /\ WishTold /\ Honest /\ [Next]_vars => WishTold' /\ Honest'
  BY NextWishTold, NextHonest
<1>3. IInv /\ WishTold /\ Honest => RestIsAnswered
  <2> SUFFICES ASSUME IInv, WishTold, Honest, AtRest, NEW v \in Vehicles
               PROVE  Shows(store[v], IF v \in Wanted(index, wish) THEN index[v] ELSE None)
    BY DEF RestIsAnswered, Answered
  <2>1. sub # None /\ ~sub.force /\ Asked = wish /\ Len(s2c) = 0
    BY DEF AtRest, WishTold
  <2>2. sent = View(store)
    BY <2>1 DEF IInv, DiffsLeadToSent, ViewBefore
  <2>3. NowSent[v] = sent[v]
    <3>1. (IF v \in Present THEN Compared(index[v]) ELSE None) = sent[v]
      BY <2>1 DEF AtRest, Entering, Moving, Leaving
    <3> HIDE DEF Present, Compared
    <3> QED BY <3>1 DEF NowSent
  <2>4. NowSent = Answer(index, Asked)
    BY <2>1, NowSentIsAnswer DEF IInv
  <2> DEFINE e == IF v \in Wanted(index, wish) THEN index[v] ELSE None
  <2>5. Compared(store[v]) = Compared(e)
    <3>1. Compared(store[v]) = Answer(index, wish)[v] BY <2>1, <2>2, <2>3, <2>4 DEF View
    <3> QED BY <3>1 DEF Answer, Compared
  <2>6. ASSUME e # None, e.delay # 0 PROVE store[v].known
    <3>1. /\ store[v] \in Entry \cup {None} /\ e \in Entry \cup {None}
      BY ConstantsAssumption DEF IInv, TypeOK, Index
    <3> HIDE DEF e
    <3>2. store[v] # None BY <2>5, <2>6, <3>1, ComparedType
    <3>3. store[v].delay = e.delay BY <2>5, <2>6, <3>2 DEF Compared
    <3> QED BY <2>6, <3>2, <3>3 DEF Honest, Measured
  <2> QED BY <2>5, <2>6 DEF Shows
<1> QED BY <1>1, <1>2, <1>3, Invariance, InitIInv, NextIInv, PTL DEF Spec
=============================================================================
