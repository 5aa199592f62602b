-------------------------- MODULE SelectionProofs --------------------------
(***************************************************************************)
(* The tabs agree with each other and with the map, for any vehicles and   *)
(* journeys, caps and lengths of the queues.                               *)
(*                                                                         *)
(* A handler makes a sequence of tabs out of another; what the proofs need *)
(* of it is that its tabs have different vehicles, that they are as many   *)
(* as may be, and that each is a fresh one or was there before.            *)
(***************************************************************************)
EXTENDS Selection, SequenceTheorems, TLAPS

Distinct(ts) == \A i, k \in DOMAIN ts : ts[i].id = ts[k].id => i = k
Offered(t) == store[t.id] # 0 /\ t.ended => t.offer = store[t.id]

IInv == TypeOK /\ TabsCoherent /\ LiveIsOffered

LEMMA NoTabs == <<>> \in Seq(Tab) /\ Len(<<>>) = 0 /\ Distinct(<<>>) /\ Ids(<<>>) = {}
  BY DEF Distinct, Ids

LEMMA HasTabs ==
  ASSUME NEW ts \in Seq(Tab)
  PROVE  /\ ts = <<>> <=> Len(ts) = 0
         /\ ts = <<>> <=> Ids(ts) = {}
         /\ DOMAIN ts = 1 .. Len(ts) /\ Len(ts) \in Nat
         /\ Ids(ts) \subseteq Vehicles
         /\ \A i \in DOMAIN ts : ts[i] \in Tab /\ ts[i].id \in Ids(ts)
<1>1. DOMAIN ts = 1 .. Len(ts) /\ Len(ts) \in Nat OBVIOUS
<1>2. ts = <<>> <=> Len(ts) = 0 OBVIOUS
<1>3. \A i \in DOMAIN ts : ts[i] \in Tab /\ ts[i].id \in Ids(ts) BY DEF Ids
<1>4. Ids(ts) \subseteq Vehicles BY <1>3 DEF Ids, Tab
<1>5. Len(ts) # 0 => ts[1].id \in Ids(ts) BY <1>1 DEF Ids
<1>6. Len(ts) = 0 => Ids(ts) = {} BY <1>1 DEF Ids
<1> QED BY <1>1, <1>2, <1>3, <1>4, <1>5, <1>6

LEMMA FreshType ==
  ASSUME NEW id \in Vehicles, NEW j \in Journeys
  PROVE  /\ Fresh(id, j) \in Tab /\ Fresh(id, j).id = id /\ ~Fresh(id, j).ended
         /\ <<Fresh(id, j)>> \in Seq(Tab) /\ Len(<<Fresh(id, j)>>) = 1
         /\ <<Fresh(id, j)>>[1] = Fresh(id, j)
<1>1. 0 \in Journeys BY DEF Journeys
<1>2. Fresh(id, j) \in Tab BY <1>1 DEF Fresh, Tab
<1> QED BY <1>2 DEF Fresh

\* A handler that changes tabs one by one keeps them apart.
LEMMA Renewed ==
  ASSUME NEW ts \in Seq(Tab), NEW us, us = [i \in DOMAIN ts |-> us[i]],
         \A i \in DOMAIN ts : us[i] \in Tab /\ us[i].id = ts[i].id
  PROVE  us \in Seq(Tab) /\ Len(us) = Len(ts) /\ DOMAIN us = DOMAIN ts
         /\ Ids(us) = Ids(ts) /\ (Distinct(ts) => Distinct(us))
<1>1. DOMAIN ts = 1 .. Len(ts) /\ Len(ts) \in Nat OBVIOUS
<1>2. us \in [1 .. Len(ts) -> Tab] BY <1>1
<1>3. us \in Seq(Tab) /\ Len(us) = Len(ts) BY <1>1, <1>2
<1>4. Ids(us) = Ids(ts) BY DEF Ids
<1>5. Distinct(ts) => Distinct(us) BY DEF Distinct
<1> QED BY <1>3, <1>4, <1>5

LEMMA WithoutFirst ==
  ASSUME NEW ts \in Seq(Tab), Len(ts) >= 1
  PROVE  LET us == SubSeq(ts, 2, Len(ts))
         IN  /\ us \in Seq(Tab) /\ Len(us) = Len(ts) - 1
             /\ \A i \in 1 .. Len(ts) - 1 : us[i] = ts[i + 1]
<1>1. Len(ts) \in Nat BY LenProperties
<1>2. \A i \in 1 .. Len(ts) : ts[i] \in Tab BY ElementOfSeq
<1>3. \A i \in 2 .. Len(ts) : ts[i] \in Tab BY <1>1, <1>2
<1> DEFINE us == SubSeq(ts, 2, Len(ts))
<1>4. /\ us \in Seq(Tab) /\ Len(us) = IF 2 <= Len(ts) THEN Len(ts) - 2 + 1 ELSE 0
      /\ \A i \in 1 .. Len(ts) - 2 + 1 : us[i] = ts[2 + i - 1]
  BY <1>1, <1>3, SubSeqProperties
<1> HIDE DEF us
<1>5. Len(us) = Len(ts) - 1
  <2>1. Len(us) = IF 2 <= Len(ts) THEN Len(ts) - 2 + 1 ELSE 0 BY <1>4
  <2>2. CASE Len(ts) = 1 BY <2>1, <2>2
  <2>3. CASE 2 <= Len(ts)
    <3>1. \A n \in Nat : n - 2 + 1 = n - 1 OBVIOUS
    <3> QED BY <1>1, <2>1, <2>3, <3>1
  <2>4. Len(ts) = 1 \/ 2 <= Len(ts)
    <3>1. \A n \in Nat : n >= 1 => n = 1 \/ 2 <= n OBVIOUS
    <3> QED BY <1>1, <3>1
  <2> QED BY <2>2, <2>3, <2>4
<1>6. ASSUME NEW i \in 1 .. Len(ts) - 1 PROVE us[i] = ts[i + 1]
  <2>1. 2 + i - 1 = i + 1 /\ i \in 1 .. Len(ts) - 2 + 1 BY <1>1
  <2> QED BY <1>4, <2>1
<1> QED BY <1>4, <1>5, <1>6 DEF us

\* One more tab, and the oldest gone if that is one too many.
LEMMA CappedTabs ==
  ASSUME NEW ts \in Seq(Tab), Distinct(ts), Len(ts) <= MaxTabs, NEW t \in Tab, t.id \notin Ids(ts)
  PROVE  LET us == Capped(Append(ts, t))
         IN  /\ us \in Seq(Tab) /\ us # <<>> /\ Len(us) <= MaxTabs /\ Distinct(us)
             /\ t.id \in Ids(us)
             /\ \A i \in DOMAIN us : us[i] = t \/ \E k \in DOMAIN ts : us[i] = ts[k]
<1> DEFINE as == Append(ts, t)
<1>0. MaxTabs \in Nat /\ MaxTabs >= 1 BY ConstantsAssumption
<1>1. /\ as \in Seq(Tab) /\ Len(as) = Len(ts) + 1 /\ as[Len(ts) + 1] = t
      /\ \A i \in 1 .. Len(ts) : as[i] = ts[i]
  BY AppendProperties
<1> HIDE DEF as
<1>2. DOMAIN as = 1 .. Len(as) /\ DOMAIN ts = 1 .. Len(ts) /\ Len(ts) \in Nat
  BY <1>1, LenProperties
<1>3. ASSUME NEW i \in DOMAIN as, i # Len(ts) + 1 PROVE i \in DOMAIN ts /\ as[i] = ts[i]
  <2>1. i \in 1 .. Len(ts) + 1 BY <1>1, <1>2
  <2>2. i \in 1 .. Len(ts) BY <1>2, <1>3, <2>1
  <2> QED BY <1>1, <1>2, <2>2
<1>4. ASSUME NEW i \in DOMAIN as, NEW k \in DOMAIN as, as[i].id = as[k].id PROVE i = k
  <2>1. \A n \in DOMAIN ts : ts[n].id # t.id BY DEF Ids
  <2>2. CASE i = Len(ts) + 1 BY <1>1, <1>3, <1>4, <2>1, <2>2
  <2>3. CASE k = Len(ts) + 1 BY <1>1, <1>3, <1>4, <2>1, <2>3
  <2>4. CASE i # Len(ts) + 1 /\ k # Len(ts) + 1 BY <1>3, <1>4, <2>4 DEF Distinct
  <2> QED BY <2>2, <2>3, <2>4
<1>a. \A i \in DOMAIN as : as[i] = t \/ \E k \in DOMAIN ts : as[i] = ts[k]
  <2> SUFFICES ASSUME NEW i \in DOMAIN as, i # Len(ts) + 1 PROVE \E k \in DOMAIN ts : as[i] = ts[k]
    BY <1>1
  <2> QED BY <1>3
<1>b. Len(as) = Len(ts) + 1 BY <1>1
<1>c. Len(ts) \in Nat BY <1>2
<1>5. CASE Len(as) <= MaxTabs
  <2>1. Capped(as) = as BY <1>5 DEF Capped
  <2>2. Len(ts) + 1 \in DOMAIN as BY <1>1, <1>2
  <2>3. t.id \in Ids(as) BY <1>1, <2>2 DEF Ids
  <2>4. as # <<>>
    <3>1. Len(<<>>) = 0 OBVIOUS
    <3>2. Len(as) # 0 BY <1>b, <1>c
    <3> QED BY <3>1, <3>2
  <2>6. Distinct(as) BY <1>4 DEF Distinct
  <2> QED BY <1>1, <1>5, <1>a, <2>1, <2>3, <2>4, <2>6 DEF as
<1>6. CASE ~(Len(as) <= MaxTabs)
  <2> DEFINE us == SubSeq(as, 2, Len(as))
  <2>1. Len(as) = MaxTabs + 1 /\ Len(ts) = MaxTabs BY <1>0, <1>b, <1>c, <1>6
  <2>2. Len(as) - MaxTabs + 1 = 2 BY <1>0, <2>1
  <2>3. Capped(as) = us BY <1>6, <2>2 DEF Capped
  <2>6. /\ us \in Seq(Tab) /\ Len(us) = Len(as) - 1
        /\ \A i \in 1 .. Len(as) - 1 : us[i] = as[i + 1]
    <3>1. as \in Seq(Tab) BY <1>1
    <3>2. Len(as) >= 1 BY <1>0, <2>1
    <3> QED BY <3>1, <3>2, WithoutFirst
  <2> HIDE DEF us
  <2>7. Len(us) = MaxTabs /\ DOMAIN us = 1 .. MaxTabs
    <3>1. Len(us) = MaxTabs BY <1>0, <2>1, <2>6
    <3>2. DOMAIN us = 1 .. Len(us) BY <2>6, LenProperties
    <3> QED BY <3>1, <3>2
  <2>8. \A i \in 1 .. MaxTabs : i + 1 \in DOMAIN as /\ us[i] = as[i + 1]
    <3> SUFFICES ASSUME NEW i \in 1 .. MaxTabs PROVE i + 1 \in DOMAIN as /\ us[i] = as[i + 1]
      OBVIOUS
    <3>1. i \in 1 .. Len(as) - 1 BY <1>0, <2>1
    <3>2. i + 1 \in 1 .. Len(as) BY <1>0, <2>1
    <3>3. us[i] = as[i + 1] BY <2>6, <3>1
    <3> QED BY <1>2, <3>2, <3>3
  <2>9. ASSUME NEW i \in DOMAIN us, NEW k \in DOMAIN us, us[i].id = us[k].id PROVE i = k
    <3>1. i \in 1 .. MaxTabs /\ k \in 1 .. MaxTabs BY <2>7
    <3>2. as[i + 1].id = as[k + 1].id BY <2>8, <2>9, <3>1
    <3>3. i + 1 = k + 1 BY <1>4, <2>8, <3>1, <3>2
    <3> QED BY <1>0, <3>1, <3>3
  <2>10. MaxTabs \in DOMAIN us /\ us[MaxTabs] = t
    <3>1. MaxTabs \in 1 .. MaxTabs BY <1>0
    <3>2. us[MaxTabs] = as[MaxTabs + 1] BY <2>8, <3>1
    <3> QED BY <1>1, <2>1, <2>7, <3>1, <3>2
  <2>11. t.id \in Ids(us) BY <2>10 DEF Ids
  <2>12. us # <<>> BY <1>0, <2>7
  <2>13. \A i \in DOMAIN us : us[i] = t \/ \E k \in DOMAIN ts : us[i] = ts[k]
    <3> SUFFICES ASSUME NEW i \in DOMAIN us PROVE us[i] = t \/ \E k \in DOMAIN ts : us[i] = ts[k]
      OBVIOUS
    <3>1. i + 1 \in DOMAIN as /\ us[i] = as[i + 1] BY <2>7, <2>8
    <3> QED BY <1>a, <3>1
  <2> QED BY <2>3, <2>6, <2>7, <2>9, <2>11, <2>12, <2>13 DEF as, Distinct
<1> QED BY <1>5, <1>6

\* One tab less.
LEMMA RemovedTabs ==
  ASSUME NEW ts \in Seq(Tab), Distinct(ts), NEW i \in DOMAIN ts
  PROVE  LET us == RemoveAt(ts, i)
         IN  /\ us \in Seq(Tab) /\ Len(us) = Len(ts) - 1 /\ Distinct(us)
             /\ \A k \in DOMAIN us : \E n \in DOMAIN ts : us[k] = ts[n]
             /\ \A n \in DOMAIN ts : n # i => ts[n].id \in Ids(us)
<1> DEFINE us == RemoveAt(ts, i)
<1>1. DOMAIN ts = 1 .. Len(ts) /\ Len(ts) \in Nat /\ i \in 1 .. Len(ts) BY LenProperties
<1>2. /\ us \in Seq(Tab) /\ Len(us) = Len(ts) - 1
      /\ \A k \in 1 .. Len(ts) - 1 : us[k] = IF k < i THEN ts[k] ELSE ts[k + 1]
  <2> DEFINE a == SubSeq(ts, 1, i - 1)
             b == SubSeq(ts, i + 1, Len(ts))
  <2>1. \A k \in 1 .. Len(ts) : ts[k] \in Tab BY ElementOfSeq
  <2>2. \A k \in 1 .. i - 1 : ts[k] \in Tab BY <1>1, <2>1
  <2>3. /\ a \in Seq(Tab) /\ Len(a) = IF 1 <= i - 1 THEN i - 1 - 1 + 1 ELSE 0
        /\ \A k \in 1 .. i - 1 - 1 + 1 : a[k] = ts[1 + k - 1]
    BY <1>1, <2>2, SubSeqProperties
  <2>4. \A k \in i + 1 .. Len(ts) : ts[k] \in Tab BY <1>1, <2>1
  <2>5. /\ b \in Seq(Tab) /\ Len(b) = IF i + 1 <= Len(ts) THEN Len(ts) - (i + 1) + 1 ELSE 0
        /\ \A k \in 1 .. Len(ts) - (i + 1) + 1 : b[k] = ts[i + 1 + k - 1]
    BY <1>1, <2>4, SubSeqProperties
  <2>6. us = a \o b BY DEF RemoveAt
  <2> HIDE DEF us, a, b
  <2>7. Len(a) = i - 1 /\ Len(b) = Len(ts) - i BY <1>1, <2>3, <2>5
  <2>8. /\ us \in Seq(Tab) /\ Len(us) = Len(a) + Len(b)
        /\ \A k \in 1 .. Len(a) + Len(b) : us[k] = IF k <= Len(a) THEN a[k] ELSE b[k - Len(a)]
    BY <2>3, <2>5, <2>6, ConcatProperties
  <2>9. ASSUME NEW k \in 1 .. Len(ts) - 1 PROVE us[k] = IF k < i THEN ts[k] ELSE ts[k + 1]
    <3>1. CASE k < i BY <1>1, <2>3, <2>7, <2>8, <3>1
    <3>2. CASE ~(k < i)
      <4>1. us[k] = b[k - (i - 1)] BY <1>1, <2>7, <2>8, <3>2
      <4>2. k - (i - 1) \in 1 .. Len(ts) - (i + 1) + 1 BY <1>1, <3>2
      <4>3. i + 1 + (k - (i - 1)) - 1 = k + 1 BY <1>1
      <4> QED BY <2>5, <3>2, <4>1, <4>2, <4>3
    <3> QED BY <3>1, <3>2
  <2> QED BY <1>1, <2>7, <2>8, <2>9
<1> HIDE DEF us
<1>3. DOMAIN us = 1 .. Len(ts) - 1 BY <1>1, <1>2, LenProperties
<1>4. ASSUME NEW k \in DOMAIN us
      PROVE  \E n \in DOMAIN ts : us[k] = ts[n] /\ n = IF k < i THEN k ELSE k + 1
  BY <1>1, <1>2, <1>3
<1>5. ASSUME NEW k \in DOMAIN us, NEW n \in DOMAIN us, us[k].id = us[n].id PROVE k = n
  <2>1. PICK p \in DOMAIN ts : us[k] = ts[p] /\ p = IF k < i THEN k ELSE k + 1 BY <1>4
  <2>2. PICK q \in DOMAIN ts : us[n] = ts[q] /\ q = IF n < i THEN n ELSE n + 1 BY <1>4
  <2>3. p = q BY <1>5, <2>1, <2>2 DEF Distinct
  <2> QED BY <1>1, <1>3, <2>1, <2>2, <2>3
<1>6. ASSUME NEW n \in DOMAIN ts, n # i PROVE ts[n].id \in Ids(us)
  <2>1. CASE n < i
    <3>1. n \in DOMAIN us /\ us[n] = ts[n] BY <1>1, <1>2, <1>3, <2>1
    <3> QED BY <3>1 DEF Ids
  <2>2. CASE n > i
    <3>1. n - 1 \in DOMAIN us /\ us[n - 1] = ts[n] BY <1>1, <1>2, <1>3, <2>2
    <3> QED BY <3>1 DEF Ids
  <2> QED BY <1>1, <1>6, <2>1, <2>2
<1> QED BY <1>2, <1>4, <1>5, <1>6 DEF us, Distinct

-----------------------------------------------------------------------------
(* One frame and one tab.                                                  *)

LEMMA StoredType ==
  ASSUME TypeOK, NEW f \in Frame
  PROVE  Stored(f) \in [Vehicles -> Journeys]
<1>1. 0 \in Journeys BY DEF Journeys
<1>2. ASSUME NEW v \in Vehicles PROVE f.entered[v] \in Journeys /\ store[v] \in Journeys
  BY DEF Frame, TypeOK
<1> QED BY <1>1, <1>2 DEF Stored

LEMMA HeardType ==
  ASSUME NEW t \in Tab, NEW f \in Frame
  PROVE  Heard(t, f) \in Tab /\ Heard(t, f).id = t.id
<1> DEFINE j == f.entered[t.id]
           back == IF j # 0 THEN onSelectedBack(t, j) ELSE t
<1>1. j \in Journeys /\ 0 \in Journeys BY DEF Frame, Tab, Journeys
<1> HIDE DEF j
<1>2. [t EXCEPT !.basic = j] \in Tab /\ [t EXCEPT !.offer = j] \in Tab BY <1>1 DEF Tab
<1>3. [t EXCEPT !.ended = FALSE, !.offer = 0] \in Tab BY <1>1 DEF Tab
<1>4. onSelectedBack(t, j) \in Tab /\ onSelectedBack(t, j).id = t.id
  BY <1>2, <1>3 DEF onSelectedBack, Tab
<1>5. back \in Tab /\ back.id = t.id BY <1>4
<1> HIDE DEF back
<1>6. onSelectedGone(back) \in Tab /\ onSelectedGone(back).id = t.id
  BY <1>5 DEF onSelectedGone, Tab
<1> QED BY <1>5, <1>6 DEF Heard, back, j

LEMMA HeardOffered ==
  ASSUME NEW t \in Tab, NEW f \in Frame, Offered(t), Stored(f)[t.id] # 0, Heard(t, f).ended
  PROVE  Heard(t, f).offer = Stored(f)[t.id]
<1> DEFINE j == f.entered[t.id]
<1>1. t.id \in Vehicles BY DEF Tab
<1>2. t.id \notin f.left BY <1>1 DEF Stored
<1>3. t.id \notin Gone(f) BY <1>2 DEF Gone
<1>4. CASE j # 0
  <2>1. Stored(f)[t.id] = j BY <1>1, <1>2, <1>4 DEF Stored
  <2>2. Heard(t, f) = onSelectedBack(t, j) BY <1>3, <1>4 DEF Heard
  <2> HIDE DEF j
  <2>3. onSelectedBack(t, j).ended => onSelectedBack(t, j).offer = j
    BY DEF onSelectedBack, Tab
  <2> QED BY <2>1, <2>2, <2>3
<1>5. CASE j = 0
  <2>1. Stored(f)[t.id] = store[t.id] BY <1>1, <1>2, <1>5 DEF Stored
  <2>2. Heard(t, f) = t BY <1>3, <1>5 DEF Heard
  <2> QED BY <2>1, <2>2 DEF Offered
<1> QED BY <1>4, <1>5

-----------------------------------------------------------------------------
(* A handler that shows other tabs.                                        *)

LEMMA Sent ==
  ASSUME NEW m \in ClientMsg, up \in Seq(ClientMsg), Len(up) < ToServer
  PROVE  Append(up, m) \in Seq(ClientMsg) /\ Len(Append(up, m)) <= ToServer
<1>1. Append(up, m) \in Seq(ClientMsg) /\ Len(Append(up, m)) = Len(up) + 1
  BY AppendProperties
<1>2. Len(up) \in Nat BY LenProperties
<1>3. ToServer \in Nat BY ConstantsAssumption
<1>4. \A k, n \in Nat : k < n => k + 1 <= n OBVIOUS
<1>5. Len(up) + 1 <= ToServer BY <1>2, <1>3, <1>4
<1> QED BY <1>1, <1>5

\* A new tab, or one that was there.
Kept(t) == ~t.ended \/ \E n \in DOMAIN tabs : t = tabs[n]

\* What Show must be given.
Showable(ts, id, many) ==
  /\ ts \in Seq(Tab) /\ Distinct(ts)
  /\ Len(ts) <= IF many THEN MaxTabs ELSE 1
  /\ IF ts = <<>> THEN id = None ELSE id \in Ids(ts)
  /\ \A i \in DOMAIN ts : Kept(ts[i])

LEMMA Shown ==
  ASSUME IInv, multi' \in BOOLEAN, NEW ts, NEW id, Showable(ts, id, multi'), Show(ts, id)
  PROVE  IInv' /\ Frozen
<1>1. Ids(ts) \subseteq Vehicles /\ id \in Vehicles \cup {None} BY HasTabs DEF Showable
<1>2. up' \in Seq(ClientMsg) /\ Len(up') <= ToServer
  <2>1. CASE UNCHANGED up BY <2>1 DEF IInv, TypeOK
  <2>2. CASE ~UNCHANGED up
    <3> DEFINE m == [subscribe |-> FALSE, pinned |-> Ids(ts)]
    <3>1. m \in ClientMsg BY <1>1 DEF ClientMsg
    <3>2. up' = Append(up, m) /\ Len(up) < ToServer BY <2>2 DEF Show
    <3> HIDE DEF m
    <3> QED BY <3>1, <3>2, Sent DEF IInv, TypeOK
  <2> QED BY <2>1, <2>2
<1>3. tabs' = ts /\ active' = id /\ UNCHANGED <<fleet, server, down, online, store>> BY DEF Show
<1>4. TypeOK' BY <1>1, <1>2, <1>3 DEF IInv, TypeOK, Showable, server
<1>5. TabsCoherent' BY <1>3 DEF Showable, TabsCoherent, Distinct, Ids
<1>6. LiveIsOffered'
  <2> SUFFICES ASSUME NEW k \in DOMAIN ts, ts[k].ended PROVE Offered(ts[k])
    BY <1>3 DEF LiveIsOffered, Offered
  <2>1. PICK n \in DOMAIN tabs : ts[k] = tabs[n] BY DEF Showable, Kept
  <2> QED BY <2>1 DEF IInv, LiveIsOffered, Offered
<1>7. Frozen
  <2> SUFFICES ASSUME NEW i \in DOMAIN tabs, NEW k \in DOMAIN ts, tabs[i].id = ts[k].id, ts[k].ended
               PROVE  ts[k].basic = tabs[i].basic
    BY <1>3 DEF Frozen
  <2>1. PICK n \in DOMAIN tabs : ts[k] = tabs[n] BY DEF Showable, Kept
  <2>2. n = i BY <2>1 DEF IInv, TabsCoherent
  <2> QED BY <2>1, <2>2
<1> QED BY <1>4, <1>5, <1>6, <1>7 DEF IInv

LEMMA Now ==
  ASSUME IInv
  PROVE  Showable(tabs, active, multi) /\ \A i \in DOMAIN tabs : Kept(tabs[i])
BY DEF IInv, TypeOK, TabsCoherent, Showable, Distinct, Kept, Ids

LEMMA Selected ==
  ASSUME IInv, NEW id \in Vehicles, NEW j \in Journeys, selectVehicle(id, j)
  PROVE  IInv' /\ Frozen
<1> DEFINE t == Fresh(id, j)
<1>0. MaxTabs \in Nat /\ MaxTabs >= 1 /\ None \notin Vehicles BY ConstantsAssumption
<1>1. multi \in BOOLEAN /\ multi' = multi /\ tabs \in Seq(Tab) BY DEF IInv, TypeOK, selectVehicle
<1>2. t \in Tab /\ t.id = id /\ Kept(t) BY FreshType DEF Kept
<1>3. CASE ~multi
  <2> DEFINE ts == <<t>>
  <2>1. ts \in Seq(Tab) /\ Len(ts) = 1 /\ DOMAIN ts = {1} /\ ts[1] = t BY <1>2
  <2>2. Show(ts, id) BY <1>3 DEF selectVehicle
  <2> HIDE DEF ts, t
  <2>3. id \in Ids(ts) BY <1>2, <2>1 DEF Ids
  <2>4. Distinct(ts) BY <2>1 DEF Distinct
  <2>5. ts # <<>> BY <2>1, HasTabs
  <2>6. Showable(ts, id, FALSE) BY <1>2, <2>1, <2>3, <2>4, <2>5 DEF Showable
  <2>7. Showable(ts, id, multi') BY <1>1, <1>3, <2>6
  <2> QED BY <1>1, <2>2, <2>7, Shown
<1>4. CASE multi /\ id \in Ids(tabs)
  <2>1. Show(tabs, id) BY <1>4 DEF selectVehicle
  <2>2. tabs # <<>> BY <1>1, <1>4, HasTabs
  <2>3. Showable(tabs, id, multi') BY <1>1, <1>4, <2>2, Now DEF Showable
  <2> QED BY <1>1, <2>1, <2>3, Shown
<1>5. CASE multi /\ id \notin Ids(tabs)
  <2> DEFINE us == Capped(Append(tabs, t))
  <2>1. Show(us, id) BY <1>5 DEF selectVehicle
  <2>2. Distinct(tabs) /\ Len(tabs) <= MaxTabs BY <1>5, Now DEF Showable
  <2> HIDE DEF t
  <2>3. /\ us \in Seq(Tab) /\ us # <<>> /\ Len(us) <= MaxTabs /\ Distinct(us) /\ id \in Ids(us)
        /\ \A i \in DOMAIN us : us[i] = t \/ \E k \in DOMAIN tabs : us[i] = tabs[k]
    BY <1>1, <1>2, <1>5, <2>2, CappedTabs
  <2> HIDE DEF us
  <2>4. \A i \in DOMAIN us : Kept(us[i]) BY <1>2, <2>3, Now
  <2>5. Showable(us, id, TRUE) BY <2>3, <2>4 DEF Showable
  <2>6. Showable(us, id, multi') BY <1>1, <1>5, <2>5
  <2> QED BY <1>1, <2>1, <2>6, Shown
<1> QED BY <1>3, <1>4, <1>5

LEMMA Closed ==
  ASSUME IInv, NEW id \in Vehicles, closeTab(id)
  PROVE  IInv' /\ Frozen
<1>1. multi \in BOOLEAN /\ multi' = multi /\ tabs \in Seq(Tab) /\ active \in Vehicles \cup {None}
  BY DEF IInv, TypeOK, closeTab
<1>2. PICK i \in DOMAIN tabs :
        /\ tabs[i].id = id
        /\ LET us == RemoveAt(tabs, i)
               next == IF i <= Len(us) THEN i ELSE Len(us)
           IN  Show(us, IF id # active THEN active ELSE IF us = <<>> THEN None ELSE us[next].id)
  BY DEF closeTab
<1> DEFINE us == RemoveAt(tabs, i)
           next == IF i <= Len(us) THEN i ELSE Len(us)
           new == IF id # active THEN active ELSE IF us = <<>> THEN None ELSE us[next].id
<1>3. Show(us, new) BY <1>2
<1>4. Distinct(tabs) BY Now DEF Showable
<1>5. /\ us \in Seq(Tab) /\ Len(us) = Len(tabs) - 1 /\ Distinct(us)
      /\ \A k \in DOMAIN us : \E n \in DOMAIN tabs : us[k] = tabs[n]
      /\ \A n \in DOMAIN tabs : n # i => tabs[n].id \in Ids(us)
  BY <1>1, <1>4, RemovedTabs
<1> HIDE DEF us
<1>6. Len(us) <= IF multi' THEN MaxTabs ELSE 1
  <2>1. Len(tabs) <= IF multi' THEN MaxTabs ELSE 1 BY <1>1, Now DEF Showable
  <2>2. MaxTabs \in Nat /\ Len(tabs) \in Nat BY <1>1, LenProperties, ConstantsAssumption
  <2>3. \A m, n \in Nat : m <= n => m - 1 <= n OBVIOUS
  <2>4. (IF multi' THEN MaxTabs ELSE 1) \in Nat BY <2>2
  <2>5. Len(tabs) - 1 <= IF multi' THEN MaxTabs ELSE 1 BY <2>1, <2>2, <2>3, <2>4
  <2> QED BY <1>5, <2>5
<1>7. \A k \in DOMAIN us : Kept(us[k]) BY <1>5, Now
<1>8. tabs # <<>> /\ active \in Ids(tabs)
  <2>1. tabs # <<>> BY <1>1, <1>2, HasTabs
  <2> QED BY <2>1, Now DEF Showable
<1>9. CASE id # active
  <2>1. PICK n \in DOMAIN tabs : tabs[n].id = active BY <1>8 DEF Ids
  <2>2. n # i BY <1>2, <1>9, <2>1
  <2>3. active \in Ids(us) BY <1>5, <2>1, <2>2
  <2>4. us # <<>> BY <1>5, <2>3, HasTabs
  <2>5. new = active BY <1>9
  <2> HIDE DEF new
  <2>6. Showable(us, new, multi') BY <1>5, <1>6, <1>7, <2>3, <2>4, <2>5 DEF Showable
  <2> QED BY <1>1, <1>3, <2>6, Shown
<1>10. CASE id = active /\ us = <<>>
  <2>1. new = None BY <1>10
  <2> HIDE DEF new
  <2>2. Showable(us, new, multi') BY <1>5, <1>6, <1>7, <1>10, <2>1 DEF Showable
  <2> QED BY <1>1, <1>3, <2>2, Shown
<1>11. CASE id = active /\ us # <<>>
  <2>1. DOMAIN us = 1 .. Len(us) /\ Len(us) \in Nat /\ Len(us) # 0 BY <1>5, <1>11, HasTabs
  <2>2. i \in 1 .. Len(tabs) BY <1>1, HasTabs
  <2>3. next \in DOMAIN us
    <3>1. CASE i <= Len(us) BY <2>1, <2>2, <3>1
    <3>2. CASE ~(i <= Len(us)) BY <2>1, <3>2
    <3> QED BY <3>1, <3>2
  <2>4. new = us[next].id BY <1>11
  <2> HIDE DEF new, next
  <2>5. new \in Ids(us) BY <2>3, <2>4 DEF Ids
  <2>6. Showable(us, new, multi') BY <1>5, <1>6, <1>7, <1>11, <2>5 DEF Showable
  <2> QED BY <1>1, <1>3, <2>6, Shown
<1> QED BY <1>9, <1>10, <1>11

LEMMA Resumed ==
  ASSUME IInv, NEW id \in Vehicles, resumeTrip(id)
  PROVE  IInv' /\ Frozen
<1>1. multi \in BOOLEAN /\ multi' = multi /\ tabs \in Seq(Tab) BY DEF IInv, TypeOK, resumeTrip
<1>2. PICK i \in DOMAIN tabs :
        tabs[i].id = id /\ Show([tabs EXCEPT ![i] = Fresh(id, tabs[i].offer)], id)
  BY DEF resumeTrip
<1> DEFINE t == Fresh(id, tabs[i].offer)
           us == [tabs EXCEPT ![i] = t]
<1>3. tabs[i].offer \in Journeys BY <1>1, HasTabs DEF Tab
<1>4. t \in Tab /\ t.id = id /\ Kept(t) BY <1>3, FreshType DEF Kept
<1>5. Show(us, id) BY <1>2
<1> HIDE DEF t
<1>6. us = [k \in DOMAIN tabs |-> us[k]] OBVIOUS
<1>7. \A k \in DOMAIN tabs : us[k] = t \/ us[k] = tabs[k] OBVIOUS
<1>8. \A k \in DOMAIN tabs : us[k] \in Tab /\ us[k].id = tabs[k].id
  <2> SUFFICES ASSUME NEW k \in DOMAIN tabs PROVE us[k] \in Tab /\ us[k].id = tabs[k].id
    OBVIOUS
  <2>1. CASE k = i BY <1>2, <1>4, <2>1
  <2>2. CASE k # i
    <3>1. us[k] = tabs[k] BY <2>2
    <3> QED BY <1>1, <3>1, HasTabs
  <2> QED BY <2>1, <2>2
<1> HIDE DEF us
<1>9. /\ us \in Seq(Tab) /\ Len(us) = Len(tabs) /\ DOMAIN us = DOMAIN tabs
      /\ Ids(us) = Ids(tabs) /\ (Distinct(tabs) => Distinct(us))
  BY <1>1, <1>6, <1>8, Renewed
<1>10. id \in Ids(us) BY <1>2, <1>9 DEF Ids
<1>11. us # <<>> BY <1>9, <1>10, HasTabs
<1>12. \A k \in DOMAIN us : Kept(us[k]) BY <1>4, <1>7, <1>9, Now
<1>13. Distinct(us) BY <1>9, Now DEF Showable
<1>14. Len(us) <= IF multi' THEN MaxTabs ELSE 1 BY <1>1, <1>9, Now DEF Showable
<1>15. Showable(us, id, multi') BY <1>9, <1>10, <1>11, <1>12, <1>13, <1>14 DEF Showable
<1> QED BY <1>1, <1>5, <1>15, Shown

LEMMA Collapsed ==
  ASSUME IInv, changeMultiSelect
  PROVE  IInv' /\ Frozen
<1> DEFINE us == IF multi THEN Only(tabs, active) ELSE tabs
<1>0. MaxTabs \in Nat /\ MaxTabs >= 1 BY ConstantsAssumption
<1>1. multi \in BOOLEAN /\ multi' \in BOOLEAN /\ multi' = ~multi /\ tabs \in Seq(Tab)
  BY DEF IInv, TypeOK, changeMultiSelect
<1>2. Show(us, active) BY DEF changeMultiSelect
<1>3. CASE ~multi
  <2>1. us = tabs BY <1>3
  <2>2. Len(tabs) <= MaxTabs
    <3>1. Len(tabs) <= 1 BY <1>3, Now DEF Showable
    <3>2. Len(tabs) \in Nat BY <1>1, LenProperties
    <3>3. \A k, n \in Nat : k <= 1 /\ n >= 1 => k <= n OBVIOUS
    <3> QED BY <1>0, <3>1, <3>2, <3>3
  <2>3. Showable(tabs, active, TRUE) BY <2>2, Now DEF Showable
  <2>4. Showable(us, active, multi') BY <1>1, <1>3, <2>1, <2>3
  <2> QED BY <1>1, <1>2, <2>4, Shown
<1>4. CASE multi /\ active \in Ids(tabs)
  <2> DEFINE i == CHOOSE i \in DOMAIN tabs : tabs[i].id = active
  <2>1. i \in DOMAIN tabs /\ tabs[i].id = active BY <1>4 DEF Ids
  <2>2. us = <<tabs[i]>> BY <1>4 DEF Only
  <2> HIDE DEF us, i
  <2>3. tabs[i] \in Tab /\ Kept(tabs[i]) BY <1>1, <2>1, HasTabs, Now
  <2>4. us \in Seq(Tab) /\ Len(us) = 1 /\ DOMAIN us = {1} /\ us[1] = tabs[i] BY <2>2, <2>3
  <2>5. active \in Ids(us) BY <2>1, <2>4 DEF Ids
  <2>6. Distinct(us) BY <2>4 DEF Distinct
  <2>7. us # <<>> BY <2>4, HasTabs
  <2>8. Showable(us, active, FALSE) BY <2>3, <2>4, <2>5, <2>6, <2>7 DEF Showable
  <2>9. Showable(us, active, multi') BY <1>1, <1>4, <2>8
  <2> QED BY <1>1, <1>2, <2>9, Shown
<1>5. CASE multi /\ active \notin Ids(tabs)
  <2>1. us = <<>> BY <1>5 DEF Only
  <2>2. active = None BY <1>5, Now DEF Showable
  <2> HIDE DEF us
  <2>3. Showable(us, active, multi')
    <3>1. DOMAIN us = {} BY <2>1
    <3> QED BY <1>0, <1>1, <2>1, <2>2, <3>1, NoTabs DEF Showable
  <2> QED BY <1>1, <1>2, <2>3, Shown
<1> QED BY <1>3, <1>4, <1>5

-----------------------------------------------------------------------------
(* The other steps.                                                        *)

LEMMA Applied ==
  ASSUME IInv, Apply
  PROVE  IInv' /\ Frozen /\ (\A v \in Vehicles : Lost(v)) /\ Ids(tabs') = Ids(tabs)
<1> DEFINE f == Head(down)
<1>1. f \in Frame /\ Tail(down) \in Seq(Frame) /\ Len(Tail(down)) <= ToClient
  <2>1. down \in Seq(Frame) /\ down # <<>> /\ Len(down) <= ToClient BY DEF IInv, TypeOK, Apply
  <2>2. f \in Frame /\ Tail(down) \in Seq(Frame) /\ Len(Tail(down)) = Len(down) - 1
    BY <2>1, HeadTailProperties
  <2>3. Len(down) \in Nat BY <2>1, LenProperties
  <2>4. ToClient \in Nat BY ConstantsAssumption
  <2>5. \A k, n \in Nat : k <= n => k - 1 <= n OBVIOUS
  <2>6. Len(down) - 1 <= ToClient BY <2>1, <2>3, <2>4, <2>5
  <2> QED BY <2>2, <2>6
<1>2. tabs' = [i \in DOMAIN tabs |-> Heard(tabs[i], f)] /\ store' = Stored(f) /\ down' = Tail(down)
  BY DEF Apply
<1> HIDE DEF f
<1>3. tabs \in Seq(Tab) BY DEF IInv, TypeOK
<1>4. tabs' = [i \in DOMAIN tabs |-> tabs'[i]] BY <1>2
<1>5. \A i \in DOMAIN tabs : tabs[i] \in Tab /\ tabs'[i] = Heard(tabs[i], f) BY <1>2, <1>3, HasTabs
<1>6. \A i \in DOMAIN tabs : tabs'[i] \in Tab /\ tabs'[i].id = tabs[i].id BY <1>1, <1>5, HeardType
<1>7. /\ tabs' \in Seq(Tab) /\ Len(tabs') = Len(tabs) /\ DOMAIN tabs' = DOMAIN tabs
      /\ Ids(tabs') = Ids(tabs) /\ (Distinct(tabs) => Distinct(tabs'))
  BY <1>3, <1>4, <1>6, Renewed
<1>8. TypeOK'
  <2>1. store' \in [Vehicles -> Journeys] BY <1>1, <1>2, StoredType DEF IInv
  <2> QED BY <1>1, <1>2, <1>7, <2>1 DEF IInv, TypeOK, Apply, server
<1>9. TabsCoherent'
  <2>1. tabs' = <<>> <=> tabs = <<>> BY <1>3, <1>7, HasTabs
  <2>2. active' = active /\ multi' = multi BY DEF Apply
  <2> QED BY <1>7, <2>1, <2>2 DEF IInv, TabsCoherent, Distinct, Ids
<1>10. LiveIsOffered'
  <2> SUFFICES ASSUME NEW i \in DOMAIN tabs, Stored(f)[tabs[i].id] # 0, Heard(tabs[i], f).ended
               PROVE  Heard(tabs[i], f).offer = Stored(f)[tabs[i].id]
    BY <1>2, <1>5, <1>6, <1>7 DEF LiveIsOffered
  <2>1. Offered(tabs[i]) BY DEF IInv, LiveIsOffered, Offered
  <2> QED BY <1>1, <1>5, <2>1, HeardOffered
<1>11. Frozen
  <2> SUFFICES ASSUME NEW i \in DOMAIN tabs, NEW k \in DOMAIN tabs, tabs[i].id = tabs[k].id,
                      tabs[i].ended
               PROVE  Heard(tabs[k], f).basic = tabs[i].basic
    BY <1>5, <1>6, <1>7 DEF Frozen
  <2>1. i = k BY DEF IInv, TabsCoherent
  <2> DEFINE t == tabs[k]
             j == f.entered[t.id]
             back == IF j # 0 THEN onSelectedBack(t, j) ELSE t
  <2>2. t \in Tab /\ t.ended BY <1>5, <2>1
  <2>3. Heard(t, f) = back \/ Heard(t, f) = onSelectedGone(back) BY DEF Heard
  <2> HIDE DEF t, j
  <2>4. onSelectedBack(t, j).basic = t.basic BY <2>2 DEF onSelectedBack, Tab
  <2>5. back.basic = t.basic BY <2>4
  <2>6. onSelectedGone(back).basic = back.basic BY DEF onSelectedGone
  <2> HIDE DEF back
  <2>7. Heard(t, f).basic = t.basic BY <2>3, <2>5, <2>6
  <2> QED BY <2>1, <2>7 DEF t
<1>12. ASSUME NEW v \in Vehicles PROVE Lost(v)
  <2> SUFFICES ASSUME store[v] # 0, Stored(f)[v] = 0, NEW i \in DOMAIN tabs, tabs[i].id = v
               PROVE  Heard(tabs[i], f).ended
    BY <1>2, <1>5, <1>6, <1>7 DEF Lost
  <2>1. v \in Gone(f) BY DEF Stored, Gone
  <2> QED BY <2>1 DEF Heard, onSelectedGone
<1> QED BY <1>7, <1>8, <1>9, <1>10, <1>11, <1>12 DEF IInv

LEMMA Flushed ==
  ASSUME IInv, Flush
  PROVE  IInv' /\ Frozen /\ Ids(tabs') = Ids(tabs)
<1> DEFINE new(i) == IF tabs[i].id = active /\ ~tabs[i].ended /\ store[active] # 0
                     THEN [tabs[i] EXCEPT !.basic = store[active]] ELSE tabs[i]
<1>1. tabs' = [i \in DOMAIN tabs |-> new(i)] BY DEF Flush
<1>2. tabs \in Seq(Tab) BY DEF IInv, TypeOK
<1>3. ASSUME NEW i \in DOMAIN tabs
      PROVE  /\ new(i) \in Tab /\ new(i).id = tabs[i].id /\ new(i).ended = tabs[i].ended
             /\ new(i).offer = tabs[i].offer /\ (tabs[i].ended => new(i) = tabs[i])
  <2>1. tabs[i] \in Tab BY <1>2, HasTabs
  <2>2. CASE new(i) = tabs[i] BY <2>1, <2>2
  <2>3. CASE new(i) # tabs[i]
    <3>1. active \in Vehicles BY <2>1, <2>3 DEF Tab
    <3>2. store[active] \in Journeys BY <3>1 DEF IInv, TypeOK
    <3>3. new(i) = [tabs[i] EXCEPT !.basic = store[active]] /\ ~tabs[i].ended BY <2>3
    <3> QED BY <2>1, <3>2, <3>3 DEF Tab
  <2> QED BY <2>2, <2>3
<1>4. \A i \in DOMAIN tabs : tabs'[i] = new(i) BY <1>1
<1> HIDE DEF new
<1>5. tabs' = [i \in DOMAIN tabs |-> tabs'[i]] BY <1>1
<1>6. \A i \in DOMAIN tabs : tabs'[i] \in Tab /\ tabs'[i].id = tabs[i].id BY <1>3, <1>4
<1>7. /\ tabs' \in Seq(Tab) /\ Len(tabs') = Len(tabs) /\ DOMAIN tabs' = DOMAIN tabs
      /\ Ids(tabs') = Ids(tabs) /\ (Distinct(tabs) => Distinct(tabs'))
  BY <1>2, <1>5, <1>6, Renewed
<1>8. TypeOK' BY <1>7 DEF IInv, TypeOK, Flush, server
<1>9. TabsCoherent'
  <2>1. tabs' = <<>> <=> tabs = <<>> BY <1>2, <1>7, HasTabs
  <2>2. active' = active /\ multi' = multi BY DEF Flush
  <2> QED BY <1>7, <2>1, <2>2 DEF IInv, TabsCoherent, Distinct, Ids
<1>10. LiveIsOffered'
  <2>1. store' = store BY DEF Flush
  <2> QED BY <1>3, <1>4, <1>6, <1>7, <2>1 DEF IInv, LiveIsOffered
<1>11. Frozen
  <2> SUFFICES ASSUME NEW i \in DOMAIN tabs, NEW k \in DOMAIN tabs, tabs[i].id = tabs[k].id,
                      tabs[i].ended
               PROVE  new(k).basic = tabs[i].basic
    BY <1>4, <1>6, <1>7 DEF Frozen
  <2>1. i = k BY DEF IInv, TabsCoherent
  <2> QED BY <1>3, <2>1
<1> QED BY <1>7, <1>8, <1>9, <1>10, <1>11 DEF IInv

\* Nothing of the selection changes.
LEMMA Aside ==
  ASSUME IInv, TypeOK', UNCHANGED client
  PROVE  IInv' /\ Frozen
<1>1. tabs' = tabs /\ store' = store /\ active' = active /\ multi' = multi BY DEF client
<1>2. TabsCoherent' /\ LiveIsOffered' BY <1>1 DEF IInv, TabsCoherent, LiveIsOffered, Ids
<1>3. Frozen
  <2> SUFFICES ASSUME NEW i \in DOMAIN tabs, NEW k \in DOMAIN tabs, tabs[i].id = tabs[k].id
               PROVE  tabs[k].basic = tabs[i].basic
    BY <1>1 DEF Frozen
  <2> QED BY DEF IInv, TabsCoherent
<1> QED BY <1>2, <1>3 DEF IInv

LEMMA ServerStep ==
  ASSUME IInv, Connect \/ Disconnect \/ ClientMessage \/ Tick \/ Publish
  PROVE  TypeOK' /\ UNCHANGED client
<1> USE DEF IInv, TypeOK, client
<1>0. ToServer \in Nat /\ ToServer >= 1 /\ ToClient \in Nat BY ConstantsAssumption
<1>1. CASE Connect
  <2> DEFINE m == [subscribe |-> TRUE, pinned |-> Ids(tabs)]
  <2>1. m \in ClientMsg BY HasTabs DEF ClientMsg
  <2>2. up' = <<m>> /\ online' = TRUE /\ UNCHANGED <<fleet, server, down, client>> BY <1>1 DEF Connect
  <2> HIDE DEF m
  <2>3. up' \in Seq(ClientMsg) /\ Len(up') = 1 BY <2>1, <2>2
  <2> QED BY <1>0, <2>2, <2>3 DEF server
<1>2. CASE Disconnect
  <2>1. up' = <<>> /\ down' = <<>> BY <1>2 DEF Disconnect
  <2>2. up' \in Seq(ClientMsg) /\ Len(up') = 0 /\ down' \in Seq(Frame) /\ Len(down') = 0 BY <2>1
  <2>3. Len(up') <= ToServer /\ Len(down') <= ToClient BY <1>0, <2>2
  <2>4. subbed' = FALSE /\ pins' = {} /\ sent' = {} /\ force' = FALSE /\ online' = FALSE
        /\ UNCHANGED <<fleet, store, tabs, active, multi>>
    BY <1>2 DEF Disconnect
  <2> QED BY <2>2, <2>3, <2>4
<1>3. CASE ClientMessage
  <2>1. /\ Head(up) \in ClientMsg /\ Tail(up) \in Seq(ClientMsg) /\ Len(Tail(up)) = Len(up) - 1
        /\ Len(up) \in Nat
    BY <1>3, HeadTailProperties, LenProperties DEF ClientMessage
  <2>2. \A k, n \in Nat : k <= n => k - 1 <= n OBVIOUS
  <2>3. Len(Tail(up)) <= ToServer BY <1>0, <2>1, <2>2
  <2>4. Head(up).pinned \in SUBSET Vehicles BY <2>1 DEF ClientMsg
  <2> QED BY <1>3, <2>1, <2>3, <2>4 DEF ClientMessage
<1>4. CASE Tick
  <2> DEFINE m == [entered  |-> [v \in Vehicles |-> IF v \in Present \ sent THEN fleet[v] ELSE 0],
                   left     |-> sent \ Present,
                   snapshot |-> force]
  <2>1. Present \subseteq Vehicles BY ConstantsAssumption DEF Present
  <2>2. m.entered \in [Vehicles -> Journeys]
    <3>1. 0 \in Journeys BY DEF Journeys
    <3>2. \A v \in Vehicles : fleet[v] \in Journeys OBVIOUS
    <3> QED BY <3>1, <3>2
  <2>3. m \in Frame BY <2>2 DEF Frame
  <2>4. down' = Append(down, m) /\ Len(down) < ToClient BY <1>4 DEF Tick
  <2> HIDE DEF m
  <2>5. down' \in Seq(Frame) /\ Len(down') = Len(down) + 1 /\ Len(down) \in Nat
    BY <2>3, <2>4, AppendProperties, LenProperties
  <2>6. \A k, n \in Nat : k < n => k + 1 <= n OBVIOUS
  <2>7. Len(down') <= ToClient BY <1>0, <2>4, <2>5, <2>6
  <2> QED BY <1>4, <2>1, <2>5, <2>7 DEF Tick
<1>5. CASE Publish
  <2>1. PICK v \in Vehicles : \E j \in Runs[v] \cup {0} : fleet' = [fleet EXCEPT ![v] = j]
    BY <1>5 DEF Publish
  <2>2. \A j \in Runs[v] \cup {0} : j \in Journeys BY DEF Journeys
  <2>3. fleet' \in [Vehicles -> Journeys] BY <2>1, <2>2
  <2> QED BY <1>5, <2>3 DEF Publish, server
<1> QED BY <1>1, <1>2, <1>3, <1>4, <1>5

LEMMA UserStep ==
  ASSUME IInv, User
  PROVE  IInv' /\ Frozen
<1>1. ASSUME NEW id \in Vehicles, Pick(id) PROVE IInv' /\ Frozen
  <2>1. store[id] \in Journeys BY DEF IInv, TypeOK
  <2> QED BY <1>1, <2>1, Selected DEF Pick
<1>2. ASSUME NEW id \in Vehicles, Open(id) PROVE IInv' /\ Frozen
  <2>1. 0 \in Journeys BY DEF Journeys
  <2> QED BY <1>2, <2>1, Selected DEF Open
<1>3. ASSUME NEW id \in Vehicles, selectTab(id) PROVE IInv' /\ Frozen
  <2>1. multi' = multi /\ multi' \in BOOLEAN /\ Show(tabs, id) /\ id \in Ids(tabs) /\ tabs \in Seq(Tab)
    BY <1>3 DEF selectTab, IInv, TypeOK
  <2>2. tabs # <<>> BY <2>1, HasTabs
  <2>3. Showable(tabs, id, multi') BY <2>1, <2>2, Now DEF Showable
  <2> QED BY <2>1, <2>3, Shown
<1>4. ASSUME closeAll PROVE IInv' /\ Frozen
  <2>1. multi' = multi /\ multi' \in BOOLEAN /\ Show(<<>>, None) BY <1>4 DEF closeAll, IInv, TypeOK
  <2>2. MaxTabs \in Nat BY ConstantsAssumption
  <2>3. Showable(<<>>, None, multi')
    <3>1. DOMAIN <<>> = {} OBVIOUS
    <3>2. <<>> \in Seq(Tab) /\ Distinct(<<>>) /\ Len(<<>>) = 0 BY NoTabs
    <3> QED BY <2>2, <3>1, <3>2 DEF Showable
  <2> QED BY <2>1, <2>3, Shown
<1> QED BY <1>1, <1>2, <1>3, <1>4, Closed, Resumed, Collapsed DEF User

LEMMA NextInv ==
  ASSUME IInv, [Next]_vars
  PROVE  IInv' /\ Frozen /\ \A v \in Vehicles : Lost(v)
<1>1. CASE Apply BY <1>1, Applied
<1>2. ASSUME store' = store PROVE \A v \in Vehicles : Lost(v) BY <1>2 DEF Lost
<1>3. CASE Flush
  <2>1. store' = store BY <1>3 DEF Flush
  <2> QED BY <1>2, <1>3, <2>1, Flushed
<1>4. CASE User
  <2>1. store' = store
    BY <1>4 DEF User, Pick, Open, selectVehicle, selectTab, resumeTrip, closeTab, closeAll, changeMultiSelect, Show
  <2> QED BY <1>2, <1>4, <2>1, UserStep
<1>5. CASE Connect \/ Disconnect \/ ClientMessage \/ Tick \/ Publish
  <2>1. TypeOK' /\ UNCHANGED client BY <1>5, ServerStep
  <2>2. store' = store BY <2>1 DEF client
  <2> QED BY <1>2, <2>1, <2>2, Aside
<1>6. CASE UNCHANGED vars
  <2>1. TypeOK' /\ UNCHANGED client BY <1>6 DEF vars, client, IInv, TypeOK
  <2>2. store' = store BY <2>1 DEF client
  <2> QED BY <1>2, <2>1, <2>2, Aside
<1> QED BY <1>1, <1>3, <1>4, <1>5, <1>6 DEF Next

LEMMA InitInv == Init => IInv
<1> SUFFICES ASSUME Init PROVE IInv OBVIOUS
<1>1. 0 \in Journeys BY DEF Journeys
<1>2. ToServer \in Nat /\ ToClient \in Nat /\ MaxTabs \in Nat BY ConstantsAssumption
<1>3. /\ up \in Seq(ClientMsg) /\ Len(up) = 0 /\ down \in Seq(Frame) /\ Len(down) = 0
      /\ tabs \in Seq(Tab) /\ Len(tabs) = 0 /\ DOMAIN tabs = {}
  BY DEF Init
<1>4. TypeOK
  <2>1. fleet \in [Vehicles -> Journeys] /\ store \in [Vehicles -> Journeys] BY <1>1 DEF Init
  <2>2. Len(up) <= ToServer /\ Len(down) <= ToClient BY <1>2, <1>3
  <2>3. pins \in SUBSET Vehicles /\ sent \in SUBSET Vehicles BY DEF Init
  <2>4. subbed \in BOOLEAN /\ force \in BOOLEAN /\ online \in BOOLEAN /\ multi \in BOOLEAN BY DEF Init
  <2>5. active \in Vehicles \cup {None} BY DEF Init
  <2> QED BY <1>3, <2>1, <2>2, <2>3, <2>4, <2>5 DEF TypeOK
<1>5. TabsCoherent BY <1>2, <1>3 DEF Init, TabsCoherent
<1>6. LiveIsOffered BY <1>3 DEF LiveIsOffered
<1> QED BY <1>4, <1>5, <1>6 DEF IInv

-----------------------------------------------------------------------------
(* Theorems.                                                               *)

\* Every value is of its type, and the queues are never longer than they may be.
THEOREM WellTyped == Spec => []TypeOK
<1>1. IInv => TypeOK BY DEF IInv
<1>2. IInv /\ [Next]_vars => IInv' BY NextInv
<1> QED BY <1>1, <1>2, InitInv, PTL DEF Spec

\* Whatever is picked, opened, closed, resumed or arrives, in any order: one
\* tab per vehicle, no more than the cap, and an active one among them.
THEOREM Coherent == Spec => []TabsCoherent
<1>1. IInv => TabsCoherent BY DEF IInv
<1>2. IInv /\ [Next]_vars => IInv' BY NextInv
<1> QED BY <1>1, <1>2, InitInv, PTL DEF Spec

\* A selected vehicle that is on the map is shown live or offered again.
THEOREM Offers == Spec => []LiveIsOffered
<1>1. IInv => LiveIsOffered BY DEF IInv
<1>2. IInv /\ [Next]_vars => IInv' BY NextInv
<1> QED BY <1>1, <1>2, InitInv, PTL DEF Spec

\* No frame takes a selected vehicle off the map without ending its tab.
THEOREM Noticed == Spec => GoneIsNoticed
<1>1. IInv /\ [Next]_vars => IInv' /\ [\A v \in Vehicles : Lost(v)]_vars BY NextInv
<1> QED BY <1>1, InitInv, PTL DEF Spec, GoneIsNoticed

\* No step changes the journey of a tab that has ended and stays so.
THEOREM StaysEnded == Spec => EndedIsFrozen
<1>1. IInv /\ [Next]_vars => IInv' /\ [Frozen]_vars BY NextInv
<1> QED BY <1>1, InitInv, PTL DEF Spec, EndedIsFrozen

-----------------------------------------------------------------------------
(* A stream at rest.                                                       *)

\* The last message under way, or the subscription if none is, pins what is
\* selected; a connection not subscribed yet is about to be.
PinsTold ==
  /\ ~online => ~subbed /\ up = <<>> /\ down = <<>>
  /\ online /\ up # <<>> => up[Len(up)].pinned = Ids(tabs)
  /\ online /\ up = <<>> => subbed /\ pins = Ids(tabs)
  /\ online /\ ~subbed => up # <<>> /\ up[1].subscribe

\* Whether a frame says anything of v, and whether v is on the map after it.
Decides(f, v) == f.snapshot \/ v \in f.left \/ f.entered[v] # 0
Grants(f, v) == v \notin f.left /\ f.entered[v] # 0

\* The last word on the way about a vehicle, or the map if there is none, is
\* what the server knows to be on the client.
LastWord ==
  /\ force => sent = {}
  /\ subbed /\ ~force =>
       \A v \in Vehicles :
         /\ (\A i \in 1 .. Len(down) : ~Decides(down[i], v)) => (store[v] # 0 <=> v \in sent)
         /\ \A i \in 1 .. Len(down) :
              Decides(down[i], v) /\ (\A k \in i + 1 .. Len(down) : ~Decides(down[k], v))
              => (Grants(down[i], v) <=> v \in sent)

\* What is left of the messages after the server took one.
LEMMA AfterOne ==
  ASSUME up \in Seq(ClientMsg), up # <<>>, up' = Tail(up)
  PROVE  /\ up[1] = Head(up) /\ up[1] \in ClientMsg
         /\ up' = <<>> => up[Len(up)] = up[1]
         /\ up' # <<>> => up'[Len(up')] = up[Len(up)]
<1>1. Len(up) \in Nat /\ Len(up) > 0
  OBVIOUS
<1>2. up' \in Seq(ClientMsg) /\ Len(up') = Len(up) - 1
      /\ \A i \in 1 .. Len(up) - 1 : up'[i] = up[i + 1]
  BY <1>1
<1>3. up[1] = Head(up) /\ up[1] \in ClientMsg
  BY <1>1
<1>4. ASSUME up' = <<>> PROVE up[Len(up)] = up[1]
  <2>1. Len(up') = 0
    <3>1. Len(<<>>) = 0 OBVIOUS
    <3> QED BY <1>4, <3>1
  <2> QED BY <1>1, <1>2, <2>1
<1>5. ASSUME up' # <<>> PROVE up'[Len(up')] = up[Len(up)]
  <2>1. Len(up') # 0 BY <1>2, <1>5
  <2>2. Len(up) - 1 \in 1 .. Len(up) - 1 BY <1>1, <1>2, <2>1
  <2> QED BY <1>1, <1>2, <2>2
<1> QED BY <1>3, <1>4, <1>5

\* Every handler of the user's ends in showing some tabs.
LEMMA UserShows ==
  ASSUME User
  PROVE  \E ts, id : Show(ts, id)
BY DEF User, Pick, Open, selectVehicle, selectTab, resumeTrip, closeTab, closeAll, changeMultiSelect

LEMMA NextPinsTold ==
  ASSUME IInv, IInv', PinsTold, [Next]_vars
  PROVE  PinsTold'
<1>0. up \in Seq(ClientMsg) /\ Len(up) \in Nat BY LenProperties DEF IInv, TypeOK
<1>1. CASE Apply
  <2>1. Ids(tabs') = Ids(tabs) BY <1>1, Applied
  <2>2. online BY <1>1 DEF Apply, PinsTold
  <2> QED BY <1>1, <2>1, <2>2 DEF Apply, PinsTold, server
<1>2. CASE Flush
  <2>1. Ids(tabs') = Ids(tabs) BY <1>2, Flushed
  <2> QED BY <1>2, <2>1 DEF Flush, PinsTold, server
<1>3. CASE User
  <2>1. PICK ts, id : Show(ts, id) BY <1>3, UserShows
  <2>2. tabs' = ts /\ UNCHANGED <<subbed, pins, down, online>> BY <2>1 DEF Show, server
  <2>3. CASE online /\ Ids(ts) # Ids(tabs)
    <3> DEFINE m == [subscribe |-> FALSE, pinned |-> Ids(ts)]
    <3>1. Ids(ts) \subseteq Vehicles BY <2>2, HasTabs DEF IInv, TypeOK
    <3>2. m \in ClientMsg /\ m.pinned = Ids(ts) BY <3>1 DEF ClientMsg
    <3>3. up' = Append(up, m) BY <2>1, <2>3 DEF Show
    <3> HIDE DEF m
    <3>4. /\ Len(up') = Len(up) + 1 /\ up' # <<>> /\ up'[Len(up')] = m
          /\ up # <<>> => up'[1] = up[1]
      BY <1>0, <3>2, <3>3
    <3> QED BY <2>2, <2>3, <3>2, <3>4 DEF PinsTold
  <2>4. CASE ~(online /\ Ids(ts) # Ids(tabs))
    <3>1. up' = up BY <2>1, <2>4 DEF Show
    <3> QED BY <2>2, <2>4, <3>1 DEF PinsTold
  <2> QED BY <2>3, <2>4
<1>4. CASE Connect
  <2> DEFINE m == [subscribe |-> TRUE, pinned |-> Ids(tabs)]
  <2>1. m.subscribe /\ m.pinned = Ids(tabs) OBVIOUS
  <2>2. up' = <<m>> /\ online' /\ UNCHANGED <<subbed, pins, down, tabs>>
    BY <1>4 DEF Connect, server, client
  <2> HIDE DEF m
  <2>3. up' # <<>> /\ Len(up') = 1 /\ up'[1] = m BY <2>2
  <2> QED BY <2>1, <2>2, <2>3 DEF PinsTold
<1>5. CASE Disconnect BY <1>5 DEF Disconnect, PinsTold
<1>6. CASE ClientMessage
  <2>1. /\ up[1] = Head(up) /\ up[1] \in ClientMsg
        /\ up' = <<>> => up[Len(up)] = up[1]
        /\ up' # <<>> => up'[Len(up')] = up[Len(up)]
    BY <1>0, <1>6, AfterOne DEF ClientMessage
  <2>2. /\ up # <<>> /\ pins' = Head(up).pinned /\ UNCHANGED <<down, online, tabs>>
        /\ IF Head(up).subscribe THEN subbed' = TRUE ELSE subbed' = subbed
    BY <1>6 DEF ClientMessage, client
  <2>3. online BY <2>2 DEF PinsTold
  <2>4. subbed' BY <2>1, <2>2, <2>3 DEF PinsTold
  <2> QED BY <2>1, <2>2, <2>3, <2>4 DEF PinsTold
<1>7. CASE Tick BY <1>7 DEF Tick, PinsTold, client
<1>8. CASE Publish BY <1>8 DEF Publish, PinsTold, server, client
<1>9. CASE UNCHANGED vars BY <1>9 DEF vars, PinsTold
<1> QED BY <1>1, <1>2, <1>3, <1>4, <1>5, <1>6, <1>7, <1>8, <1>9 DEF Next

LEMMA NextLastWord ==
  ASSUME IInv, LastWord, [Next]_vars
  PROVE  LastWord'
<1> DEFINE n == Len(down)
<1>0. down \in Seq(Frame) /\ n \in Nat BY LenProperties DEF IInv, TypeOK
<1>a. ASSUME UNCHANGED <<subbed, sent, force, down, store>> PROVE LastWord'
  BY <1>a DEF LastWord
<1>1. CASE Apply
  <2> DEFINE f == Head(down)
  <2>1. down # <<>> /\ store' = Stored(f) /\ down' = Tail(down) /\ UNCHANGED <<subbed, sent, force>>
    BY <1>1 DEF Apply, server
  <2>2. n > 0 /\ f = down[1] BY <1>0, <2>1
  <2>3. Len(down') = n - 1 /\ \A i \in 1 .. n - 1 : down'[i] = down[i + 1] BY <1>0, <2>1
  <2> HIDE DEF f, n
  <2>4. ASSUME NEW v \in Vehicles
        PROVE  /\ Decides(f, v) => (Stored(f)[v] # 0 <=> Grants(f, v))
               /\ ~Decides(f, v) => Stored(f)[v] = store[v]
    BY DEF Decides, Grants, Stored
  <2> SUFFICES ASSUME subbed, ~force, NEW v \in Vehicles
               PROVE  /\ (\A i \in 1 .. n - 1 : ~Decides(down'[i], v))
                            => (store'[v] # 0 <=> v \in sent)
                      /\ \A i \in 1 .. n - 1 :
                           Decides(down'[i], v) /\ (\A k \in i + 1 .. n - 1 : ~Decides(down'[k], v))
                           => (Grants(down'[i], v) <=> v \in sent)
    BY <2>1, <2>3 DEF LastWord
  <2>5. ASSUME NEW i \in 1 .. n, Decides(down[i], v), \A k \in i + 1 .. n : ~Decides(down[k], v)
        PROVE  Grants(down[i], v) <=> v \in sent
    BY <2>5 DEF LastWord, n
  <2>6. ASSUME \A i \in 1 .. n : ~Decides(down[i], v) PROVE store[v] # 0 <=> v \in sent
    BY <2>6 DEF LastWord, n
  <2>7. ASSUME \A i \in 1 .. n - 1 : ~Decides(down'[i], v) PROVE store'[v] # 0 <=> v \in sent
    <3>1. ASSUME NEW k \in 2 .. n PROVE ~Decides(down[k], v)
      <4>1. k - 1 \in 1 .. n - 1 /\ (k - 1) + 1 = k BY <1>0, <3>1 DEF n
      <4> QED BY <2>3, <2>7, <4>1
    <3>2. CASE Decides(f, v)
      <4>1. 1 \in 1 .. n /\ 1 + 1 = 2 BY <1>0, <2>2 DEF n
      <4>2. Grants(f, v) <=> v \in sent BY <2>2, <2>5, <3>1, <3>2, <4>1
      <4> QED BY <2>1, <2>4, <3>2, <4>2
    <3>3. CASE ~Decides(f, v)
      <4>1. \A i \in 1 .. n : i = 1 \/ i \in 2 .. n BY <1>0 DEF n
      <4>2. store[v] # 0 <=> v \in sent BY <2>2, <2>6, <3>1, <3>3, <4>1
      <4> QED BY <2>1, <2>4, <3>3, <4>2
    <3> QED BY <3>2, <3>3
  <2>8. ASSUME NEW i \in 1 .. n - 1, Decides(down'[i], v),
               \A k \in i + 1 .. n - 1 : ~Decides(down'[k], v)
        PROVE  Grants(down'[i], v) <=> v \in sent
    <3>1. i + 1 \in 1 .. n /\ down'[i] = down[i + 1] BY <1>0, <2>3 DEF n
    <3>2. ASSUME NEW k \in (i + 1) + 1 .. n PROVE ~Decides(down[k], v)
      <4>1. k - 1 \in i + 1 .. n - 1 /\ k - 1 \in 1 .. n - 1 /\ (k - 1) + 1 = k
        BY <1>0 DEF n
      <4> QED BY <2>3, <2>8, <4>1
    <3> QED BY <2>5, <2>8, <3>1, <3>2
  <2> QED BY <2>7, <2>8
<1>2. CASE Flush BY <1>2, <1>a DEF Flush, server
<1>3. CASE User
  <2>1. PICK ts, id : Show(ts, id) BY <1>3, UserShows
  <2> QED BY <2>1, <1>a DEF Show, server
<1>4. CASE Connect BY <1>4, <1>a DEF Connect, server, client
<1>5. CASE Disconnect BY <1>5 DEF Disconnect, LastWord
<1>6. CASE ClientMessage
  <2>1. CASE Head(up).subscribe BY <1>6, <2>1 DEF ClientMessage, LastWord
  <2>2. CASE ~Head(up).subscribe BY <1>6, <2>2, <1>a DEF ClientMessage, client
  <2> QED BY <2>1, <2>2
<1>7. CASE Tick
  <2> DEFINE m == [entered  |-> [v \in Vehicles |-> IF v \in Present \ sent THEN fleet[v] ELSE 0],
                   left     |-> sent \ Present,
                   snapshot |-> force]
  <2>1. /\ subbed /\ down' = Append(down, m) /\ sent' = Present /\ force' = FALSE
        /\ UNCHANGED <<subbed, store>>
    BY <1>7 DEF Tick, client
  <2>2. Present \subseteq Vehicles BY ConstantsAssumption DEF IInv, TypeOK, Present
  <2>3. m \in Frame
    <3>1. 0 \in Journeys BY DEF Journeys
    <3>2. \A v \in Vehicles : fleet[v] \in Journeys BY DEF IInv, TypeOK
    <3>3. m.entered \in [Vehicles -> Journeys] BY <3>1, <3>2
    <3> QED BY <3>3 DEF Frame, IInv, TypeOK
  <2>4. ASSUME NEW v \in Vehicles
        PROVE  /\ Decides(m, v) <=> force \/ ~(v \in sent <=> v \in Present)
               /\ Decides(m, v) => (Grants(m, v) <=> v \in Present)
    <3>1. \A u \in Present : fleet[u] # 0 BY DEF Present
    <3>2. force => sent = {} BY DEF LastWord
    <3> QED BY <3>1, <3>2 DEF Decides, Grants
  <2> HIDE DEF m
  <2>5. /\ Len(down') = n + 1 /\ down'[n + 1] = m
        /\ \A i \in 1 .. n : down'[i] = down[i]
    BY <1>0, <2>1, <2>3
  <2> HIDE DEF n
  <2> SUFFICES ASSUME NEW v \in Vehicles
               PROVE  /\ (\A i \in 1 .. n + 1 : ~Decides(down'[i], v))
                            => (store[v] # 0 <=> v \in Present)
                      /\ \A i \in 1 .. n + 1 :
                           Decides(down'[i], v) /\ (\A k \in i + 1 .. n + 1 : ~Decides(down'[k], v))
                           => (Grants(down'[i], v) <=> v \in Present)
    BY <2>1, <2>5 DEF LastWord
  <2>6. n + 1 \in 1 .. n + 1 /\ \A i \in 1 .. n + 1 : i = n + 1 \/ i \in 1 .. n
    BY <1>0 DEF n
  <2>7. ASSUME \A i \in 1 .. n + 1 : ~Decides(down'[i], v) PROVE store[v] # 0 <=> v \in Present
    <3>1. ~Decides(m, v) BY <2>5, <2>6, <2>7
    <3>2. ~force /\ (v \in sent <=> v \in Present) BY <2>4, <3>1
    <3>3. \A i \in 1 .. n : ~Decides(down[i], v)
      <4>1. \A i \in 1 .. n : i \in 1 .. n + 1 BY <1>0 DEF n
      <4> QED BY <2>5, <2>7, <4>1
    <3> QED BY <2>1, <3>2, <3>3 DEF LastWord, n
  <2>8. ASSUME NEW i \in 1 .. n + 1, Decides(down'[i], v),
               \A k \in i + 1 .. n + 1 : ~Decides(down'[k], v)
        PROVE  Grants(down'[i], v) <=> v \in Present
    <3>1. CASE i = n + 1 BY <2>4, <2>5, <2>8, <3>1
    <3>2. CASE i \in 1 .. n
      <4>1. n + 1 \in i + 1 .. n + 1 BY <1>0, <3>2 DEF n
      <4>2. ~Decides(m, v) BY <2>5, <2>8, <4>1
      <4>3. ~force /\ (v \in sent <=> v \in Present) BY <2>4, <4>2
      <4>4. \A k \in i + 1 .. n : k \in 1 .. n /\ k \in i + 1 .. n + 1 BY <1>0, <3>2 DEF n
      <4>5. \A k \in i + 1 .. n : ~Decides(down[k], v) BY <2>5, <2>8, <4>4
      <4>6. Decides(down[i], v) /\ down'[i] = down[i] BY <2>5, <2>8, <3>2
      <4>7. Grants(down[i], v) <=> v \in sent BY <2>1, <3>2, <4>3, <4>5, <4>6 DEF LastWord, n
      <4> QED BY <4>3, <4>6, <4>7
    <3> QED BY <2>6, <3>1, <3>2
  <2> QED BY <2>7, <2>8
<1>8. CASE Publish BY <1>8, <1>a DEF Publish, server, client
<1>9. CASE UNCHANGED vars BY <1>9, <1>a DEF vars
<1> QED BY <1>1, <1>2, <1>3, <1>4, <1>5, <1>6, <1>7, <1>8, <1>9 DEF Next

\* RestIsShown, the safe half of SelectedStreams: at rest the map has just the
\* running vehicles that are in view or selected, and an ended tab of one of them
\* offers to resume it.
THEOREM RestShown == Spec => []RestIsShown
<1>1. Init => IInv /\ PinsTold /\ LastWord
  BY InitInv DEF Init, PinsTold, LastWord
<1>2. IInv /\ PinsTold /\ LastWord /\ [Next]_vars => (IInv /\ PinsTold /\ LastWord)'
  BY NextInv, NextPinsTold, NextLastWord
<1>3. IInv /\ PinsTold /\ LastWord => RestIsShown
  <2> SUFFICES ASSUME IInv, PinsTold, LastWord, AtRest
               PROVE  /\ \A v \in Vehicles : store[v] # 0 <=> fleet[v] # 0 /\ v \in InView \cup Ids(tabs)
                      /\ \A i \in DOMAIN tabs : fleet[tabs[i].id] # 0 /\ tabs[i].ended => tabs[i].offer # 0
    BY DEF RestIsShown
  <2>1. subbed /\ pins = Ids(tabs) /\ ~force /\ Present = sent /\ down = <<>>
    BY DEF AtRest, PinsTold
  <2>2. \A i \in 1 .. Len(down) : FALSE
    <3>1. Len(<<>>) = 0 OBVIOUS
    <3> QED BY <2>1, <3>1
  <2>3. ASSUME NEW v \in Vehicles PROVE store[v] # 0 <=> fleet[v] # 0 /\ v \in InView \cup Ids(tabs)
    <3>1. store[v] # 0 <=> v \in sent BY <2>1, <2>2 DEF LastWord
    <3> QED BY <2>1, <3>1 DEF Present
  <2>4. ASSUME NEW i \in DOMAIN tabs, fleet[tabs[i].id] # 0, tabs[i].ended PROVE tabs[i].offer # 0
    <3>1. tabs[i].id \in Vehicles /\ tabs[i].id \in Ids(tabs) BY HasTabs DEF IInv, TypeOK, Tab
    <3>2. store[tabs[i].id] # 0 BY <2>3, <2>4, <3>1
    <3> QED BY <2>4, <3>2 DEF IInv, LiveIsOffered
  <2> QED BY <2>3, <2>4
<1> QED BY <1>1, <1>2, <1>3, PTL DEF Spec
=============================================================================
