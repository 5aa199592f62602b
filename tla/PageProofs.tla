----------------------------- MODULE PageProofs -----------------------------
(***************************************************************************)
(* Proofs about the vehicle page (Page.tla), for every plan of a trip, any *)
(* number of positions, delays and speeds, and servers of either age.      *)
(*                                                                         *)
(* The codec: a frame is read as it was written, with the defaults of what *)
(* an older server cannot write and without what a newer one adds.  The    *)
(* invariant: the page has what it heard (Heard), a frame under way is     *)
(* what the subscription last sent (UnderWay), and a subscription whose    *)
(* frames have all come has told the page what it sent (Caught).  The      *)
(* view: which calls are ahead, and the arithmetic of the clock.           *)
(***************************************************************************)
EXTENDS Page, SequenceTheorems, FiniteSetTheorems, WellFoundedInduction, TLAPS

-----------------------------------------------------------------------------
(* The codec.                                                              *)

\* A table that gives each field a number of its own.
Table(number) == \A f, g \in DOMAIN number : number[f] = number[g] => f = g

\* w has the fields of m, under their numbers.
Codes(number, m, w) ==
  /\ \A f \in DOMAIN m : w[number[f]] = m[f]
  /\ \A f \in DOMAIN number : number[f] \in DOMAIN w <=> f \in DOMAIN m

\* What was encoded is under its number.
LEMMA Coded ==
  ASSUME NEW number, Table(number), NEW m, DOMAIN m \subseteq DOMAIN number
  PROVE  Codes(number, m, Numbered(number, m))
<1> DEFINE w == Numbered(number, m)
<1>1. DOMAIN w = { number[f] : f \in DOMAIN m } BY DEF Numbered
<1>2. ASSUME NEW f \in DOMAIN m PROVE w[number[f]] = m[f]
  <2>1. (CHOOSE g \in DOMAIN m : number[g] = number[f]) = f BY DEF Table
  <2>2. w[number[f]] = m[CHOOSE g \in DOMAIN m : number[g] = number[f]]
    BY <1>1 DEF Numbered
  <2> QED BY <2>1, <2>2
<1> HIDE DEF w
<1>3. \A f \in DOMAIN number : number[f] \in DOMAIN w <=> f \in DOMAIN m
  BY <1>1 DEF Table
<1> QED BY <1>2, <1>3 DEF w, Codes

\* Defaults are of the fields that are not there.
LEMMA FilledIn ==
  ASSUME NEW d, NEW m, DOMAIN m \subseteq DOMAIN d
  PROVE  Filled(d, m) = [f \in DOMAIN d |-> IF f \in DOMAIN m THEN m[f] ELSE d[f]]
<1>1. DOMAIN m \cup DOMAIN d = DOMAIN d OBVIOUS
<1> QED BY <1>1 DEF Filled, Spread

\* What a server of either age wrote of m is read as m, with the defaults of what
\* an older one cannot write.
LEMMA Versions ==
  ASSUME NEW number, Table(number), NEW d, DOMAIN d = DOMAIN number,
         NEW m, DOMAIN m = DOMAIN number, NEW added,
         \A f \in DOMAIN number : number[f] # 18 /\ number[f] # 99,
         peer \in {"older", "newer"}
  PROVE  Filled(d, Named(number, Aged(PbEncode(number, d, m), added))) =
           [f \in DOMAIN number |-> IF peer = "older" /\ number[f] \in added THEN d[f] ELSE m[f]]
<1> DEFINE p == [f \in { g \in DOMAIN m : m[g] # d[g] } |-> m[f]]
           w == Numbered(number, p)
           a == Aged(w, added)
           n == Named(number, a)
<1>1. /\ DOMAIN p = { g \in DOMAIN m : m[g] # d[g] } /\ \A f \in DOMAIN p : p[f] = m[f]
      /\ PbEncode(number, d, m) = w
  BY DEF PbEncode
<1> HIDE DEF p
<1>2. /\ \A f \in DOMAIN p : w[number[f]] = m[f]
      /\ \A f \in DOMAIN number : number[f] \in DOMAIN w <=> f \in DOMAIN p
  <2>1. DOMAIN p \subseteq DOMAIN number BY <1>1
  <2>2. Codes(number, p, w) BY <2>1, Coded
  <2> HIDE DEF w
  <2> QED BY <1>1, <2>2 DEF Codes
<1> HIDE DEF w
<1>3. \A f \in DOMAIN number :
        /\ number[f] \in DOMAIN a <=> (number[f] \in DOMAIN w /\ ~(peer = "older" /\ number[f] \in added))
        /\ number[f] \in DOMAIN a => a[number[f]] = w[number[f]]
  <2>1. CASE peer = "older"
    <3>1. a = Spread([k \in DOMAIN w \ added |-> w[k]], [k \in {18} |-> "next"]) BY <2>1 DEF Aged
    <3> QED BY <2>1, <3>1 DEF Spread
  <2>2. CASE peer = "newer"
    <3>1. a = Spread(w, [k \in {99} |-> "new"]) BY <2>2 DEF Aged
    <3> QED BY <2>2, <3>1 DEF Spread
  <2> QED BY <2>1, <2>2
<1> HIDE DEF a
<1>4. /\ DOMAIN n = { g \in DOMAIN number : number[g] \in DOMAIN a }
      /\ \A f \in DOMAIN n : n[f] = a[number[f]]
  BY DEF Named
<1> HIDE DEF n
<1>5. Filled(d, n) = [f \in DOMAIN d |-> IF f \in DOMAIN n THEN n[f] ELSE d[f]]
  BY <1>4, FilledIn
<1>6. ASSUME NEW f \in DOMAIN number
      PROVE  (IF f \in DOMAIN n THEN n[f] ELSE d[f]) =
             (IF peer = "older" /\ number[f] \in added THEN d[f] ELSE m[f])
  BY <1>1, <1>2, <1>3, <1>4
<1> QED BY <1>1, <1>5, <1>6 DEF n, a

\* The tables number each field once, and none with a tag of another version.
LEMMA Numbering ==
  /\ Table(VehicleStateFields) /\ Table(VehicleMoveFields)
  /\ Table(UpdateFields) /\ Table(ServerMessageFields)
  /\ DOMAIN VehicleStateDefaults = DOMAIN VehicleStateFields
  /\ DOMAIN VehicleMoveDefaults = DOMAIN VehicleMoveFields
  /\ \A f \in DOMAIN VehicleStateFields : VehicleStateFields[f] # 18 /\ VehicleStateFields[f] # 99
  /\ \A f \in DOMAIN VehicleMoveFields : VehicleMoveFields[f] # 18 /\ VehicleMoveFields[f] # 99
<1>1. Table(VehicleStateFields) BY DEF Table, VehicleStateFields
<1>2. Table(VehicleMoveFields) /\ Table(UpdateFields) /\ Table(ServerMessageFields)
  BY DEF Table, VehicleMoveFields, UpdateFields, ServerMessageFields
<1>3. DOMAIN VehicleStateDefaults = DOMAIN VehicleStateFields
  BY DEF VehicleStateDefaults, VehicleStateFields
<1>4. DOMAIN VehicleMoveDefaults = DOMAIN VehicleMoveFields BY DEF VehicleMoveDefaults
<1>5. \A f \in DOMAIN VehicleStateFields : VehicleStateFields[f] # 18 /\ VehicleStateFields[f] # 99
  BY DEF VehicleStateFields
<1>6. \A f \in DOMAIN VehicleMoveFields : VehicleMoveFields[f] # 18 /\ VehicleMoveFields[f] # 99
  BY DEF VehicleMoveFields
<1> QED BY <1>1, <1>2, <1>3, <1>4, <1>5, <1>6

\* What a client reads of the trip v.
StateSeen(v) ==
  [f \in DOMAIN VehicleStateFields |->
     IF peer = "older" /\ VehicleStateFields[f] \in Added.entered
     THEN VehicleStateDefaults[f] ELSE to_state(LiveTrip(v))[f]]
MoveSeen(v) ==
  [f \in DOMAIN VehicleMoveFields |->
     IF peer = "older" /\ VehicleMoveFields[f] \in Added.moved
     THEN VehicleMoveDefaults[f] ELSE to_move(LiveTrip(v))[f]]

\* The object u is of a frame with these parts, about the trip v.
Reads(u, en, mv, lf, sn, v) ==
  /\ u.entered = IF en THEN <<StateSeen(v)>> ELSE << >>
  /\ u.moved = IF mv THEN <<MoveSeen(v)>> ELSE << >>
  /\ u.left = IF lf THEN <<"IFF:1">> ELSE << >>
  /\ u.is_snapshot = sn

\* Of a trip that went over the wire a client of either age of server sees this.
LEMMA Seen ==
  ASSUME peer \in {"older", "newer"}, NEW v
  PROVE  /\ VehicleStateObject(DecodeVehicleState(
              Aged(PbEncode(VehicleStateFields, VehicleStateDefaults, to_state(LiveTrip(v))), Added.entered)))
              = StateSeen(v)
         /\ VehicleMoveObject(DecodeVehicleMove(
              Aged(PbEncode(VehicleMoveFields, VehicleMoveDefaults, to_move(LiveTrip(v))), Added.moved)))
              = MoveSeen(v)
<1>1. DOMAIN to_state(LiveTrip(v)) = DOMAIN VehicleStateFields BY DEF to_state
<1>2. DOMAIN to_move(LiveTrip(v)) = DOMAIN VehicleMoveFields BY DEF to_move
<1>3. \A m, a : DOMAIN m = DOMAIN VehicleStateFields =>
        Filled(VehicleStateDefaults, Named(VehicleStateFields,
          Aged(PbEncode(VehicleStateFields, VehicleStateDefaults, m), a))) =
        [f \in DOMAIN VehicleStateFields |->
           IF peer = "older" /\ VehicleStateFields[f] \in a THEN VehicleStateDefaults[f] ELSE m[f]]
  BY Versions, Numbering
<1>4. \A m, a : DOMAIN m = DOMAIN VehicleMoveFields =>
        Filled(VehicleMoveDefaults, Named(VehicleMoveFields,
          Aged(PbEncode(VehicleMoveFields, VehicleMoveDefaults, m), a))) =
        [f \in DOMAIN VehicleMoveFields |->
           IF peer = "older" /\ VehicleMoveFields[f] \in a THEN VehicleMoveDefaults[f] ELSE m[f]]
  BY Versions, Numbering
<1> QED
  BY <1>1, <1>2, <1>3, <1>4 DEF StateSeen, MoveSeen, VehicleStateObject, DecodeVehicleState,
     VehicleMoveObject, DecodeVehicleMove

\* A frame is read with the parts it was built of.
THEOREM FrameRead ==
  ASSUME peer \in {"older", "newer"}, NEW en \in BOOLEAN, NEW mv \in BOOLEAN, NEW lf \in BOOLEAN,
         snap \in BOOLEAN
  PROVE  Reads(decodeServer(Frame(en, mv, lf).w).update, en, mv, lf, snap, veh)
<1> DEFINE se == PbEncode(VehicleStateFields, VehicleStateDefaults, to_state(LiveTrip(veh)))
           me == PbEncode(VehicleMoveFields, VehicleMoveDefaults, to_move(LiveTrip(veh)))
           r == [entered |-> IF en THEN <<se>> ELSE << >>, moved |-> IF mv THEN <<me>> ELSE << >>,
                 left |-> IF lf THEN <<"IFF:1">> ELSE << >>, is_snapshot |-> snap]
           p == [f \in { g \in DOMAIN r : r[g] # UpdateDefaults[g] } |-> r[f]]
           w == Numbered(UpdateFields, p)
           sa == Aged(se, Added.entered)
           ma == Aged(me, Added.moved)
           a == AgedUpdate(w)
<1>1. Frame(en, mv, lf).w = [k \in {1} |-> a]
  <2>1. Each(LAMBDA t : PbEncode(VehicleStateFields, VehicleStateDefaults, to_state(t)),
             IF en THEN <<LiveTrip(veh)>> ELSE << >>) = IF en THEN <<se>> ELSE << >>
    BY DEF Each
  <2>2. Each(LAMBDA t : PbEncode(VehicleMoveFields, VehicleMoveDefaults, to_move(t)),
             IF mv THEN <<LiveTrip(veh)>> ELSE << >>) = IF mv THEN <<me>> ELSE << >>
    BY DEF Each
  <2>3. PbUpdate(IF en THEN <<LiveTrip(veh)>> ELSE << >>, IF mv THEN <<LiveTrip(veh)>> ELSE << >>,
                 IF lf THEN <<"IFF:1">> ELSE << >>, snap)[1] = w
    BY <2>1, <2>2 DEF PbUpdate, PbEncode
  <2> HIDE DEF w
  <2> DEFINE m == PbUpdate(IF en THEN <<LiveTrip(veh)>> ELSE << >>, IF mv THEN <<LiveTrip(veh)>> ELSE << >>,
                           IF lf THEN <<"IFF:1">> ELSE << >>, snap)
  <2>4. Frame(en, mv, lf).w = [k \in {1} |-> AgedUpdate(m[k])] BY DEF Frame
  <2> HIDE DEF m
  <2>5. m[1] = w BY <2>3 DEF m
  <2> QED BY <2>4, <2>5
<1> HIDE DEF se, me
<1>2. /\ DOMAIN r = DOMAIN UpdateFields
      /\ p = [f \in { g \in DOMAIN r : r[g] # UpdateDefaults[g] } |-> r[f]]
      /\ DOMAIN p = { g \in DOMAIN r : r[g] # UpdateDefaults[g] } /\ \A f \in DOMAIN p : p[f] = r[f]
  BY DEF UpdateFields
<1> DEFINE in(f, b) == (f \in DOMAIN p <=> b)
<1>3. in("entered", en) /\ in("moved", mv) /\ in("left", lf) /\ in("is_snapshot", snap)
  BY <1>2 DEF UpdateDefaults
<1> HIDE DEF p
<1>4. Codes(UpdateFields, p, w)
  <2>1. DOMAIN p \subseteq DOMAIN UpdateFields BY <1>2
  <2> QED BY <2>1, Coded, Numbering
<1> HIDE DEF w
<1>5. /\ 1 \in DOMAIN w <=> en
      /\ 2 \in DOMAIN w <=> mv
      /\ 3 \in DOMAIN w <=> lf
      /\ 4 \in DOMAIN w <=> snap
      /\ en => w[1] = <<se>>
      /\ mv => w[2] = <<me>>
      /\ lf => w[3] = <<"IFF:1">>
      /\ snap => w[4] = TRUE
  BY <1>2, <1>3, <1>4 DEF Codes, UpdateFields
<1>6. /\ DOMAIN a = DOMAIN w
      /\ en => a[1] = <<sa>>
      /\ mv => a[2] = <<ma>>
      /\ lf => a[3] = <<"IFF:1">>
      /\ snap => a[4] = TRUE
  BY <1>5 DEF Each, AgedUpdate
<1> HIDE DEF a, sa, ma
<1> DEFINE d == DecodeUpdate(a)
<1>7. decodeServer([k \in {1} |-> a]).update = UpdateObject(d)
  BY DEF decodeServer, DecodeServerMessage, ServerMessageObject, ServerMessageFields, Named
<1>8. /\ DOMAIN d \subseteq {"entered", "moved", "left", "is_snapshot"}
      /\ "entered" \in DOMAIN d <=> en
      /\ "moved" \in DOMAIN d <=> mv
      /\ "left" \in DOMAIN d <=> lf
      /\ "is_snapshot" \in DOMAIN d <=> snap
      /\ en => d.entered = <<DecodeVehicleState(sa)>>
      /\ mv => d.moved = <<DecodeVehicleMove(ma)>>
      /\ lf => d.left = <<"IFF:1">>
      /\ snap => d.is_snapshot = TRUE
  BY <1>5, <1>6 DEF DecodeUpdate, Named, UpdateFields, Each
<1> HIDE DEF d
<1> DEFINE o == Filled(UpdateDefaults, d)
<1>9. /\ DOMAIN o = {"entered", "moved", "left", "is_snapshot"}
      /\ o.entered = IF en THEN <<DecodeVehicleState(sa)>> ELSE << >>
      /\ o.moved = IF mv THEN <<DecodeVehicleMove(ma)>> ELSE << >>
      /\ o.left = IF lf THEN <<"IFF:1">> ELSE << >>
      /\ o.is_snapshot = snap
  <2>1. DOMAIN d \subseteq DOMAIN UpdateDefaults BY <1>8 DEF UpdateDefaults
  <2>2. o = [f \in DOMAIN UpdateDefaults |-> IF f \in DOMAIN d THEN d[f] ELSE UpdateDefaults[f]]
    BY <2>1, FilledIn
  <2> QED BY <1>8, <2>2 DEF UpdateDefaults
<1> HIDE DEF o
<1>10. /\ UpdateObject(d).entered = Each(VehicleStateObject, o.entered)
       /\ UpdateObject(d).moved = Each(VehicleMoveObject, o.moved)
       /\ UpdateObject(d).left = o.left /\ UpdateObject(d).is_snapshot = o.is_snapshot
  BY <1>9 DEF UpdateObject, o
<1>11. /\ Each(VehicleStateObject, o.entered) = IF en THEN <<VehicleStateObject(DecodeVehicleState(sa))>> ELSE << >>
       /\ Each(VehicleMoveObject, o.moved) = IF mv THEN <<VehicleMoveObject(DecodeVehicleMove(ma))>> ELSE << >>
  <2>1. \A y : Each(VehicleStateObject, <<y>>) = <<VehicleStateObject(y)>> BY DEF Each
  <2>2. \A y : Each(VehicleMoveObject, <<y>>) = <<VehicleMoveObject(y)>> BY DEF Each
  <2>3. Each(VehicleStateObject, << >>) = << >> /\ Each(VehicleMoveObject, << >>) = << >> BY DEF Each
  <2> QED BY <1>9, <2>1, <2>2, <2>3
<1>12. VehicleStateObject(DecodeVehicleState(sa)) = StateSeen(veh)
       /\ VehicleMoveObject(DecodeVehicleMove(ma)) = MoveSeen(veh)
  BY Seen DEF sa, ma, se, me
<1> QED BY <1>1, <1>7, <1>9, <1>10, <1>11, <1>12 DEF Reads

\* What is in a trip, and that none of it is Nothing.
LEMMA Tripped ==
  ASSUME NEW v \in Trips
  PROVE  /\ v.journey \in Journeys /\ v.journey # Nothing /\ v.matched \in BOOLEAN
         /\ v.lat \in Int /\ v.lat # Nothing
         /\ v.stopped \in BOOLEAN /\ v.stopped # Nothing /\ v.known \in BOOLEAN /\ v.known # Nothing
         /\ (IF v.known THEN v.delay ELSE 0) \in Int
         /\ (IF v.known THEN v.delay ELSE 0) # Nothing
         /\ v.speed \in Int \cup {Nothing} /\ 0 # Nothing
<1>1. /\ v.journey \in Journeys /\ v.matched \in BOOLEAN /\ v.lat \in Int /\ v.stopped \in BOOLEAN
      /\ v.known \in BOOLEAN /\ v.delay \in Int /\ v.speed \in Int \cup {Nothing}
  BY DEF Trips
<1>2. /\ \A n \in Int : n # Nothing
      /\ \A b \in BOOLEAN : b # Nothing
      /\ \A j \in Journeys : j # Nothing
  BY ConstantsAssumption, NothingAssumption DEF ConstantsAssumption, NothingAssumption
<1>3. (IF v.known THEN v.delay ELSE 0) \in Int BY <1>1
<1>4. v.stopped # Nothing /\ v.known # Nothing BY <1>1, <1>2, Zenon
<1>5. v.lat # Nothing /\ v.journey # Nothing /\ 0 # Nothing /\ (IF v.known THEN v.delay ELSE 0) # Nothing
  BY <1>1, <1>2, <1>3
<1> QED BY <1>1, <1>3, <1>4, <1>5

\* The page has in l what a frame said of h, and what an ENTER said of e.
ShownOf(l, h, e) ==
  /\ l \in [Shown -> Values]
  /\ l.lat = h.lat /\ l.lon = 0 /\ l.atStop = h.stopped
  /\ l.delay = IF h.known THEN h.delay ELSE 0
  /\ l.delayKnown = (peer # "older" /\ h.known)
  /\ l.speedKmh = IF peer = "older" THEN Nothing ELSE h.speed
  /\ l.journey = e.journey
  /\ l.operator = First(Label(e, "NS"), "")
  /\ l.line = First(Label(e, e.journey), "")

\* Values of the fields of a vehicle.
LEMMA Valued ==
  /\ \A n \in Int : n \in Values
  /\ \A j \in Journeys : j \in Values
  /\ Nothing \in Values /\ "" \in Values /\ "1" \in Values /\ "IFF" \in Values
  /\ "IFF:1" \in Values /\ "NS" \in Values
  BY DEF Values

\* So are the two truth values.
LEMMA Truths == \A b \in BOOLEAN : b \in Values
  BY Zenon DEF Values

\* What a trip reports is a value.
LEMMA TripValued ==
  ASSUME NEW v \in Trips
  PROVE  /\ v.lat \in Values /\ v.speed \in Values /\ v.journey \in Values
         /\ (IF v.known THEN v.delay ELSE 0) \in Values /\ 0 \in Values /\ 4 \in Values
<1>1. v.lat \in Int /\ v.speed \in Int \cup {Nothing} /\ v.journey \in Journeys BY Tripped
<1>2. (IF v.known THEN v.delay ELSE 0) \in Int BY Tripped
<1>3. v.lat \in Values /\ v.journey \in Values /\ 0 \in Values /\ 4 \in Values
  <2>1. v.lat \in Values BY <1>1 DEF Values
  <2>2. v.journey \in Values BY <1>1 DEF Values
  <2>3. 0 \in Values /\ 4 \in Values BY DEF Values
  <2> QED BY <2>1, <2>2, <2>3
<1>4. v.speed \in Values BY <1>1, Valued
<1>5. (IF v.known THEN v.delay ELSE 0) \in Values BY <1>2, Valued
<1> QED BY <1>3, <1>4, <1>5

\* What both messages carry, what an older server does not write of it, and that
\* s has of the trip v what was written.
Common == {"id", "lat", "lon", "bearing", "delay_seconds", "at_stop", "current_stop_id",
           "delay_known", "schedule_positioned", "speed_kmh", "speed_known"}
Later == {"delay_known", "schedule_positioned", "speed_kmh", "speed_known"}
Written(s, v, fields) ==
  \A f \in fields :
    s[f] = IF peer = "older" /\ f \in Later THEN VehicleStateDefaults[f]
           ELSE IF f = "speed_known" THEN LiveTrip(v).speed_kmh # Nothing
           ELSE OrDefault(LiveTrip(v)[f], VehicleStateDefaults[f])

\* Both messages carry what was written of the trip.
LEMMA BothWritten ==
  ASSUME NEW v
  PROVE  Written(StateSeen(v), v, DOMAIN VehicleStateFields) /\ Written(MoveSeen(v), v, Common)
<1>1. \A f \in DOMAIN VehicleStateFields : VehicleStateFields[f] \in {21, 22, 23, 24} <=> f \in Later
  BY DEF VehicleStateFields, Later
<1>2. DOMAIN VehicleMoveFields = Common
      /\ \A f \in DOMAIN VehicleMoveFields : VehicleMoveFields[f] \in {8, 9, 10, 11} <=> f \in Later
  BY DEF VehicleMoveFields, Later, Common
<1>3. Written(StateSeen(v), v, DOMAIN VehicleStateFields)
  BY <1>1 DEF Written, StateSeen, to_state, Added
<1>4. Written(MoveSeen(v), v, Common)
  BY <1>2 DEF Written, MoveSeen, to_move, Added, VehicleMoveDefaults
<1> QED BY <1>3, <1>4

\* What the page makes of the common part.
Told(s, v) ==
  /\ s.lat = v.lat /\ s.lon = 0 /\ s.at_stop = v.stopped
  /\ s.delay_seconds = IF v.known THEN v.delay ELSE 0
  /\ s.delay_known = (peer # "older" /\ v.known)
  /\ Speed(s) = IF peer = "older" THEN Nothing ELSE v.speed
  /\ s.schedule_positioned \in BOOLEAN /\ s.id \in {"", "IFF:1"} /\ s.current_stop_id = ""
  /\ Finite(s.bearing) \in {0, Nothing}

\* The common part is read as it was, but for what an older server cannot write.
LEMMA CommonTold ==
  ASSUME peer \in {"older", "newer"}, NEW v \in Trips, NEW s, Written(s, v, Common)
  PROVE  Told(s, v)
<1> DEFINE t == LiveTrip(v)
           d == VehicleStateDefaults
           o(f) == OrDefault(t[f], d[f])
<1>1. /\ t.lat = v.lat /\ t.lon = 0 /\ t.at_stop = v.stopped /\ t.id = "IFF:1"
      /\ t.delay_seconds = (IF v.known THEN v.delay ELSE 0) /\ t.delay_known = v.known
      /\ t.speed_kmh = v.speed /\ t.schedule_positioned = FALSE /\ t.current_stop_id = Nothing
      /\ t.bearing = NaN
  BY DEF LiveTrip
<1>2. /\ d.delay_known = FALSE /\ d.schedule_positioned = FALSE /\ d.speed_known = FALSE
      /\ d.id = "" /\ d.current_stop_id = "" /\ d.bearing = 0
  BY DEF VehicleStateDefaults
<1> HIDE DEF t, d
<1>3. s.lat = o("lat") /\ s.lon = o("lon") /\ s.at_stop = o("at_stop")
  BY DEF Written, Common, Later, t, d
<1>4. s.delay_seconds = o("delay_seconds") /\ s.id = o("id") /\ s.bearing = o("bearing")
      /\ s.current_stop_id = o("current_stop_id")
  BY DEF Written, Common, Later, t, d
<1>5. CASE peer = "older"
  <2>1. s.delay_known = d.delay_known /\ s.schedule_positioned = d.schedule_positioned
        /\ s.speed_known = d.speed_known
    BY <1>5 DEF Written, Common, Later, d
  <2>2. s.delay_known = FALSE /\ s.speed_known = FALSE /\ s.schedule_positioned = FALSE BY <1>2, <2>1
  <2>3. Speed(s) = Nothing BY <2>2 DEF Speed
  <2>4. s.delay_known = (peer # "older" /\ v.known) BY <1>5, <2>2
  <2>5. /\ s.lat = v.lat /\ s.lon = 0 /\ s.at_stop = v.stopped
        /\ s.delay_seconds = IF v.known THEN v.delay ELSE 0
    BY <1>1, <1>3, <1>4, Tripped DEF OrDefault
  <2>6. s.id \in {"", "IFF:1"} /\ s.current_stop_id = "" /\ Finite(s.bearing) \in {0, Nothing}
    BY <1>1, <1>2, <1>4 DEF OrDefault, Finite
  <2> QED BY <1>5, <2>2, <2>3, <2>4, <2>5, <2>6 DEF Told
<1>6. CASE peer = "newer"
  <2>1. s.delay_known = o("delay_known") /\ s.schedule_positioned = o("schedule_positioned")
        /\ s.speed_kmh = o("speed_kmh") /\ s.speed_known = (t.speed_kmh # Nothing)
    BY <1>6 DEF Written, Common, Later, t, d
  <2>2. s.delay_known = v.known BY <1>1, <2>1, Tripped DEF OrDefault
  <2>3. s.schedule_positioned = FALSE BY <1>1, <1>2, <2>1 DEF OrDefault
  <2>4. Speed(s) = v.speed BY <1>1, <2>1 DEF OrDefault, Speed
  <2>5. s.delay_known = (peer # "older" /\ v.known) BY <1>6, <2>2, Tripped
  <2>6. /\ s.lat = v.lat /\ s.lon = 0 /\ s.at_stop = v.stopped
        /\ s.delay_seconds = IF v.known THEN v.delay ELSE 0
    BY <1>1, <1>3, <1>4, Tripped DEF OrDefault
  <2>7. s.id \in {"", "IFF:1"} /\ s.current_stop_id = "" /\ Finite(s.bearing) \in {0, Nothing}
    BY <1>1, <1>2, <1>4 DEF OrDefault, Finite
  <2>8. s.schedule_positioned \in BOOLEAN BY <2>3
  <2> QED BY <1>6, <2>4, <2>5, <2>6, <2>7, <2>8 DEF Told
<1> QED BY <1>5, <1>6

\* An ENTER shows the page the whole trip.
LEMMA EnterShown ==
  ASSUME peer \in {"older", "newer"}, NEW v \in Trips
  PROVE  ShownOf(toVehicle(StateSeen(v)), v, v)
<1> DEFINE s == StateSeen(v)
           l == toVehicle(s)
           t == LiveTrip(v)
           d == VehicleStateDefaults
           o(f) == OrDefault(t[f], d[f])
<1>1. Written(s, v, DOMAIN VehicleStateFields) BY BothWritten
<1> HIDE DEF s
<1>2. Told(s, v)
  <2>1. Common \subseteq DOMAIN VehicleStateFields BY DEF Common, VehicleStateFields
  <2>2. Written(s, v, Common) BY <1>1, <2>1 DEF Written
  <2> QED BY <2>2, CommonTold
<1>3. \A f \in DOMAIN VehicleStateFields \ Common : s[f] = o(f)
  BY <1>1 DEF Written, Later, Common
<1>4. /\ t.journey_number = v.journey /\ t.operator_name = Label(v, "NS")
      /\ t.line_public_number = Label(v, v.journey) /\ t.destination = Label(v, v.journey)
      /\ t.dataowner = "IFF" /\ t.vehicle_number = "1" /\ t.vehicle_type = 4
      /\ t.block_code = Nothing /\ t.line_color = Nothing /\ t.line_text_color = Nothing
  BY DEF LiveTrip
<1>5. /\ d.operator_name = "" /\ d.line_public_number = "" /\ d.destination = ""
      /\ d.block_code = "" /\ d.line_color = "" /\ d.line_text_color = "" /\ d.dataowner = ""
      /\ d.vehicle_number = "" /\ d.vehicle_type = 0
  BY DEF VehicleStateDefaults
<1> HIDE DEF t, d
<1>6. /\ s.journey_number = o("journey_number") /\ s.operator_name = o("operator_name")
      /\ s.line_public_number = o("line_public_number") /\ s.destination = o("destination")
  BY <1>3 DEF VehicleStateFields, Common
<1>7. /\ s.dataowner = o("dataowner") /\ s.vehicle_number = o("vehicle_number")
      /\ s.vehicle_type = o("vehicle_type") /\ s.block_code = o("block_code")
      /\ s.line_color = o("line_color") /\ s.line_text_color = o("line_text_color")
  BY <1>3 DEF VehicleStateFields, Common
<1>8. /\ s.journey_number = v.journey /\ s.operator_name = First(Label(v, "NS"), "")
      /\ s.line_public_number = First(Label(v, v.journey), "")
      /\ s.destination = First(Label(v, v.journey), "")
  BY <1>4, <1>5, <1>6, Tripped DEF OrDefault, First
<1>9. /\ s.dataowner \in {"", "IFF"} /\ s.vehicle_number \in {"", "1"} /\ s.vehicle_type \in {0, 4}
      /\ s.block_code = "" /\ s.line_color = "" /\ s.line_text_color = ""
  BY <1>4, <1>5, <1>7 DEF OrDefault
<1>10. /\ DOMAIN l = Shown /\ l.lat = s.lat /\ l.lon = s.lon /\ l.atStop = s.at_stop
       /\ l.delay = s.delay_seconds /\ l.delayKnown = s.delay_known /\ l.speedKmh = Speed(s)
       /\ l.journey = s.journey_number /\ l.operator = s.operator_name
       /\ l.line = s.line_public_number /\ l.destination = s.destination
  BY DEF toVehicle, Shown
<1>11. /\ l.id = s.id /\ l.dataowner = s.dataowner /\ l.vehicleNumber = s.vehicle_number
       /\ l.type = s.vehicle_type /\ l.bearing = Finite(s.bearing) /\ l.block = s.block_code
       /\ l.currentStopId = s.current_stop_id /\ l.schedulePositioned = s.schedule_positioned
       /\ l.lineColor = s.line_color /\ l.lineTextColor = s.line_text_color
  BY DEF toVehicle
<1> HIDE DEF l
<1>12. {v.lat, 0, Nothing, v.speed, v.journey, "", "NS"} \subseteq Values
       /\ (IF v.known THEN v.delay ELSE 0) \in Values
  BY TripValued, Valued
<1>13. {l.lat, l.lon, l.delay, l.speedKmh} \subseteq Values
  BY <1>2, <1>10, <1>12 DEF Told
<1>14. {l.journey, l.operator, l.line, l.destination} \subseteq Values
  BY <1>8, <1>10, <1>12 DEF First, Label
<1>15. {l.id, l.dataowner, l.vehicleNumber, l.type, l.block, l.currentStopId, l.lineColor,
        l.lineTextColor, l.bearing} \subseteq Values
  <2>1. l.id \in {"", "IFF:1"} /\ l.currentStopId = "" /\ l.bearing \in {0, Nothing}
    BY <1>2, <1>11 DEF Told
  <2>2. {l.id, l.currentStopId, l.bearing} \subseteq Values BY <2>1, TripValued, Valued
  <2>3. /\ l.dataowner \in {"", "IFF"} /\ l.vehicleNumber \in {"", "1"} /\ l.type \in {0, 4}
        /\ l.block = "" /\ l.lineColor = "" /\ l.lineTextColor = ""
    BY <1>9, <1>11
  <2>4. {"", "IFF", "1"} \subseteq Values BY Valued
  <2>5. {0, 4} \subseteq Values BY TripValued
  <2> QED BY <2>2, <2>3, <2>4, <2>5
<1>16. l.atStop \in Values /\ l.delayKnown \in Values /\ l.schedulePositioned \in Values
  <2>1. l.atStop = v.stopped /\ l.delayKnown = (peer # "older" /\ v.known)
        /\ l.schedulePositioned \in BOOLEAN
    BY <1>2, <1>10, <1>11, Zenon DEF Told
  <2>2. (peer # "older" /\ v.known) \in BOOLEAN BY Zenon
  <2>3. v.stopped \in BOOLEAN BY Tripped
  <2> QED BY <2>1, <2>2, <2>3, Truths, Zenon
<1>17. \A f \in Shown : l[f] \in Values
  BY <1>13, <1>14, <1>15, <1>16 DEF Shown
<1>18. l \in [Shown -> Values]
  <2>1. l = [f \in Shown |-> l[f]] BY DEF l, toVehicle, Shown
  <2> QED BY <2>1, <1>17
<1>19. l.delayKnown = (peer # "older" /\ v.known) BY <1>2, <1>10 DEF Told
<1> QED BY <1>2, <1>8, <1>10, <1>18, <1>19 DEF ShownOf, Told, l, s

\* A MOVE shows it where the vehicle is, and leaves the trip as it was.
LEMMA MoveShown ==
  ASSUME peer \in {"older", "newer"}, NEW v \in Trips, NEW l, NEW h, NEW e, ShownOf(l, h, e)
  PROVE  ShownOf(Spread(l, toMove(MoveSeen(v))), v, e)
<1> DEFINE s == MoveSeen(v)
           m == toMove(s)
           n == Spread(l, m)
<1>1. Told(s, v) BY BothWritten, CommonTold
<1> HIDE DEF s
<1>2. /\ DOMAIN m = {"id", "lat", "lon", "bearing", "speedKmh", "delay", "delayKnown", "atStop",
                     "currentStopId", "schedulePositioned"}
      /\ m.lat = s.lat /\ m.lon = s.lon /\ m.atStop = s.at_stop /\ m.delay = s.delay_seconds
      /\ m.delayKnown = s.delay_known /\ m.speedKmh = Speed(s)
      /\ m.id = s.id /\ m.bearing = Finite(s.bearing) /\ m.currentStopId = s.current_stop_id
      /\ m.schedulePositioned = s.schedule_positioned
  BY DEF toMove
<1> HIDE DEF m
<1>3. {v.lat, 0, Nothing, v.speed} \subseteq Values /\ (IF v.known THEN v.delay ELSE 0) \in Values
  BY TripValued, Valued
<1>4. {m.lat, m.lon, m.delay, m.speedKmh, m.id, m.bearing, m.currentStopId} \subseteq Values
  <2>1. m.id \in {"", "IFF:1"} /\ m.currentStopId = "" /\ m.bearing \in {0, Nothing}
    BY <1>1, <1>2 DEF Told
  <2>2. {m.id, m.currentStopId, m.bearing} \subseteq Values BY <2>1, TripValued, Valued
  <2>3. m.lat \in Values /\ m.lon \in Values /\ m.delay \in Values BY <1>1, <1>2, <1>3 DEF Told
  <2>4. m.speedKmh \in Values BY <1>1, <1>2, <1>3 DEF Told
  <2> QED BY <2>2, <2>3, <2>4
<1>5. m.atStop \in Values /\ m.delayKnown \in Values /\ m.schedulePositioned \in Values
  <2>1. m.atStop = v.stopped /\ m.delayKnown = (peer # "older" /\ v.known)
        /\ m.schedulePositioned \in BOOLEAN
    BY <1>1, <1>2, Zenon DEF Told
  <2>2. (peer # "older" /\ v.known) \in BOOLEAN BY Zenon
  <2>3. v.stopped \in BOOLEAN BY Tripped
  <2> QED BY <2>1, <2>2, <2>3, Truths, Zenon
<1>6. \A f \in DOMAIN m : m[f] \in Values BY <1>2, <1>4, <1>5
<1>7. /\ DOMAIN n = DOMAIN l \cup DOMAIN m
      /\ \A f \in DOMAIN n : n[f] = IF f \in DOMAIN m THEN m[f] ELSE l[f]
  BY DEF Spread
<1> HIDE DEF n
<1>8. DOMAIN n = Shown BY <1>2, <1>7 DEF ShownOf, Shown
<1>9. \A f \in Shown : n[f] \in Values BY <1>6, <1>7, <1>8 DEF ShownOf
<1>13. n \in [Shown -> Values]
  <2>1. n = [f \in DOMAIN n |-> n[f]] BY DEF n, Spread
  <2> QED BY <2>1, <1>8, <1>9
<1>10. n.lat = m.lat /\ n.lon = m.lon /\ n.atStop = m.atStop /\ n.delay = m.delay
       /\ n.speedKmh = m.speedKmh /\ n.delayKnown = m.delayKnown
  BY <1>2, <1>7
<1>11. n.journey = l.journey /\ n.operator = l.operator /\ n.line = l.line
  BY <1>2, <1>7, <1>8 DEF Shown
<1>12. n.delayKnown = (peer # "older" /\ v.known) BY <1>1, <1>2, <1>10 DEF Told
<1> QED BY <1>1, <1>2, <1>10, <1>11, <1>12, <1>13 DEF ShownOf, Told, n, m, s

-----------------------------------------------------------------------------
(* The invariant.                                                          *)

Sendings == [lat : Int, delay : Int, stopped : BOOLEAN, speed : Int \cup {Nothing}]

Typed ==
  /\ peer \in {"older", "newer"} /\ snap \in BOOLEAN /\ ended \in BOOLEAN
  /\ veh \in Trips \cup {Nothing}
  /\ entered \in Trips \cup {Nothing} /\ heard \in Trips \cup {Nothing}

\* The page has what it heard.
Heard ==
  /\ live # Nothing => ShownOf(live, heard, entered)
  /\ (live = Nothing) = (heard = Nothing)
  /\ (live = Nothing) = (entered = Nothing)

SentOf(v) == IF v = Nothing THEN Nothing ELSE Compared(v)

\* What is known of a frame from its ENTER, MOVE, LEAVE and snapshot flag.
Fits(f, en, mv, lf, sn) ==
  /\ Reads(decodeServer(f.w).update, en, mv, lf, sn, f.of)
  /\ f.of \in Trips \cup {Nothing} /\ sent = SentOf(f.of)
  /\ f.of = Nothing => ~en /\ ~mv /\ (lf \/ sn)
  /\ f.of # Nothing => (en \/ mv) /\ ~lf /\ (sn => en)
  /\ mv => ~en /\ live # Nothing /\ ~ended

UnderWay ==
  net # << >> => net = <<net[1]>> /\ \E en, mv, lf, sn \in BOOLEAN : Fits(net[1], en, mv, lf, sn)

\* A new subscription has sent nothing; one whose frames have all come has told
\* the page what it sent.
Caught ==
  /\ snap => sent = Nothing /\ net = << >>
  /\ net = << >> /\ ~snap =>
       /\ sent = Nothing => ended
       /\ sent # Nothing => ~ended /\ live # Nothing /\ Compared(heard) = sent

Planned ==
  /\ plan # Nothing => plan.stops \in Seq(Calls)
  /\ planReq \notin {Nothing, Pending} => planReq.stops \in Seq(Calls)

Inv == Typed /\ Heard /\ UnderWay /\ Caught /\ Planned

-----------------------------------------------------------------------------
\* The invariant holds at the start.
LEMMA StartsSo == Init => Inv
<1> SUFFICES ASSUME Init PROVE Inv OBVIOUS
<1>1. ASSUME NEW m \in BOOLEAN PROVE Started(FirstJourney, m) \in Trips
  BY ConstantsAssumption DEF ConstantsAssumption, Started, Trips
<1>2. Typed BY <1>1 DEF Init, Typed
<1> QED BY <1>2 DEF Init, Inv, Heard, UnderWay, Caught, Planned

\* What was sent of a trip is something.
LEMMA Sending ==
  ASSUME NEW v \in Trips
  PROVE  Compared(v) \in Sendings /\ Compared(v) # Nothing /\ v # Nothing
<1>1. v.lat \in Int /\ (IF v.known THEN v.delay ELSE 0) \in Int /\ v.stopped \in BOOLEAN
      /\ v.speed \in Int \cup {Nothing}
  BY Tripped
<1>2. Compared(v) \in Sendings BY <1>1 DEF Compared, Sendings
<1> QED BY <1>2, ConstantsAssumption DEF ConstantsAssumption, Sendings

\* Trips stay trips.
LEMMA Changes ==
  ASSUME Typed, Change
  PROVE  /\ veh' \in Trips \cup {Nothing}
         /\ UNCHANGED <<peer, sent, snap, stream, fetched>>
<1>1. \A j \in Journeys, m \in BOOLEAN : Started(j, m) \in Trips
  BY ConstantsAssumption DEF ConstantsAssumption, Started, Trips
<1>2. UNCHANGED <<peer, sent, snap, stream, fetched>>
  BY DEF Change, Start, Report, Delayed, Match, NextJourney, End, Become
<1>3. CASE veh = Nothing
  <2>1. Start BY <1>3 DEF Change
  <2>2. PICK j \in Journeys, m \in BOOLEAN : Become(Started(j, m)) BY <2>1 DEF Start
  <2> QED BY <1>1, <1>2, <2>2 DEF Become
<1>4. CASE veh # Nothing
  <2>1. veh \in Trips BY <1>4 DEF Typed
  <2>2. CASE Report
    <3>1. PICK p \in Places, b \in BOOLEAN, k \in Speeds :
            Become([veh EXCEPT !.lat = p, !.stopped = b, !.speed = k])
      BY <2>2 DEF Report
    <3>2. p \in Int /\ k \in Int \cup {Nothing} BY ConstantsAssumption DEF ConstantsAssumption
    <3>3. [veh EXCEPT !.lat = p, !.stopped = b, !.speed = k] \in Trips BY <2>1, <3>2 DEF Trips
    <3> QED BY <1>2, <3>1, <3>3 DEF Become
  <2>3. CASE Delayed
    <3>1. PICK d \in Delays : Become([veh EXCEPT !.delay = d, !.known = TRUE]) BY <2>3 DEF Delayed
    <3>2. d \in Int BY ConstantsAssumption DEF ConstantsAssumption
    <3>3. [veh EXCEPT !.delay = d, !.known = TRUE] \in Trips BY <2>1, <3>2 DEF Trips
    <3> QED BY <1>2, <3>1, <3>3 DEF Become
  <2>4. CASE Match
    <3>1. [veh EXCEPT !.matched = TRUE] \in Trips BY <2>1 DEF Trips
    <3> QED BY <1>2, <2>4, <3>1 DEF Become, Match
  <2>5. CASE NextJourney
    <3>1. PICK j \in Journeys : Become(Started(j, TRUE)) BY <2>5 DEF NextJourney
    <3> QED BY <1>1, <1>2, <3>1 DEF Become
  <2>6. CASE End
    BY <1>2, <2>6 DEF End, Become
  <2> QED BY <1>4, <2>2, <2>3, <2>4, <2>5, <2>6 DEF Change
<1> QED BY <1>3, <1>4

\* What leaves the stream alone keeps the invariant of it.
LEMMA Aside ==
  ASSUME Inv, UNCHANGED <<peer, sent, snap, stream>>
  PROVE  Heard' /\ UnderWay' /\ Caught'
<1>1. UNCHANGED <<net, live, ended, entered, heard>> BY DEF stream
<1>2. Heard' BY <1>1 DEF Inv, Heard, ShownOf
<1>3. Caught' BY <1>1 DEF Inv, Caught
<1>4. ASSUME NEW en \in BOOLEAN, NEW mv \in BOOLEAN, NEW lf \in BOOLEAN, NEW sn \in BOOLEAN,
             Fits(net[1], en, mv, lf, sn)
      PROVE  Fits(net[1], en, mv, lf, sn)'
  BY <1>1, <1>4 DEF Fits, Reads, StateSeen, MoveSeen
<1>5. UnderWay' BY <1>1, <1>4 DEF Inv, UnderWay
<1> QED BY <1>2, <1>3, <1>5

\* A tick puts a frame under way that fits.
LEMMA Ticks ==
  ASSUME Inv, Tick
  PROVE  Inv'
<1> DEFINE enters == veh # Nothing /\ sent = Nothing
           moves == veh # Nothing /\ sent # Nothing /\ sent # Compared(veh)
           leaves == veh = Nothing /\ sent # Nothing
<1>1. PICK en, mv, lf, sn \in BOOLEAN :
        en = enters /\ mv = moves /\ lf = leaves /\ sn = snap
  BY Zenon DEF Inv, Typed
<1>2. /\ net = << >> /\ (sn \/ en \/ mv \/ lf) /\ net' = <<Frame(en, mv, lf)>>
      /\ sent' = (IF veh = Nothing THEN Nothing ELSE Compared(veh)) /\ snap' = FALSE
      /\ UNCHANGED <<peer, veh, live, ended, entered, heard, plan, planReq>>
  BY <1>1 DEF Tick, fetched
<1>3. PICK f : f = Frame(en, mv, lf) OBVIOUS
<1>4. Reads(decodeServer(f.w).update, en, mv, lf, sn, veh) /\ f.of = veh
  <2>1. Reads(decodeServer(f.w).update, en, mv, lf, snap, veh)
    BY <1>1, <1>3, FrameRead DEF Inv, Typed
  <2>2. f.of = veh BY <1>3 DEF Frame
  <2> QED BY <1>1, <2>1, <2>2
<1>5. f.of \in Trips \cup {Nothing} /\ sent' = SentOf(f.of)
  BY <1>2, <1>4 DEF Inv, Typed, SentOf
<1>6. /\ f.of = Nothing => ~en /\ ~mv /\ (lf \/ sn)
      /\ f.of # Nothing => (en \/ mv) /\ ~lf /\ (sn => en)
      /\ mv => ~en /\ live # Nothing /\ ~ended
  BY <1>1, <1>2, <1>4 DEF Inv, Caught
<1>7. Fits(f, en, mv, lf, sn)'
  BY <1>2, <1>4, <1>5, <1>6 DEF Fits, Reads, StateSeen, MoveSeen
<1>8. net' = <<f>> BY <1>2, <1>3
<1>9. UnderWay' BY <1>7, <1>8 DEF UnderWay
<1>10. Typed' BY <1>2 DEF Inv, Typed
<1>11. Heard' BY <1>2 DEF Inv, Heard, ShownOf
<1>12. Caught' BY <1>2, <1>8 DEF Caught
<1>13. Planned' BY <1>2 DEF Inv, Planned
<1> QED BY <1>9, <1>10, <1>11, <1>12, <1>13 DEF Inv

\* A frame that fits leaves the page with what was sent.
LEMMA Receives ==
  ASSUME Inv, Receive
  PROVE  Inv'
<1> DEFINE u == decodeServer(net[1].w).update
           v == net[1].of
           e == IF u.entered # << >> THEN toVehicle(u.entered[1]) ELSE live
<1>1. /\ net # << >> /\ net = <<net[1]>> /\ net' = << >>
      /\ UNCHANGED <<peer, veh, sent, snap, plan, planReq>>
  <2>1. net # << >> /\ net = <<net[1]>> /\ net' = Tail(net) BY DEF Inv, UnderWay, Receive
  <2>2. Tail(net) = << >> BY <2>1
  <2> QED BY <2>1, <2>2 DEF Receive, server, fetched
<1>2. /\ live' = IF u.moved # << >> /\ e # Nothing THEN Spread(e, toMove(u.moved[1])) ELSE e
      /\ ended' = (\/ u.left # << >> \/ (u.is_snapshot /\ u.entered = << >>)
                   \/ (ended /\ u.entered = << >>))
      /\ entered' = IF u.entered # << >> THEN v ELSE entered
      /\ heard' = IF u.entered # << >> \/ u.moved # << >> THEN v ELSE heard
  BY DEF Receive, onUpdate
<1>3. PICK en, mv, lf, sn \in BOOLEAN : Fits(net[1], en, mv, lf, sn)
  BY <1>1 DEF Inv, UnderWay
<1>4. /\ u.entered = (IF en THEN <<StateSeen(v)>> ELSE << >>)
      /\ u.moved = (IF mv THEN <<MoveSeen(v)>> ELSE << >>)
      /\ u.left = (IF lf THEN <<"IFF:1">> ELSE << >>)
      /\ u.is_snapshot = sn
  BY <1>3 DEF Fits, Reads
<1>5. /\ v \in Trips \cup {Nothing} /\ sent = SentOf(v)
      /\ v = Nothing => ~en /\ ~mv /\ (lf \/ sn)
      /\ v # Nothing => (en \/ mv) /\ ~lf /\ (sn => en)
      /\ mv => ~en /\ live # Nothing /\ ~ended
  BY <1>3 DEF Fits
<1>6. /\ u.entered # << >> <=> en
      /\ u.moved # << >> <=> mv
      /\ u.left # << >> <=> lf
      /\ en => u.entered[1] = StateSeen(v)
      /\ mv => u.moved[1] = MoveSeen(v)
  BY <1>4
<1> HIDE DEF u, v
<1>7. peer \in {"older", "newer"} /\ ~snap BY <1>1 DEF Inv, Typed, Caught
<1>8. ASSUME NEW l, NEW h, NEW d, ShownOf(l, h, d) PROVE l # Nothing
  BY <1>8, ConstantsAssumption DEF ShownOf, ConstantsAssumption
<1>9. Typed' /\ Planned'
  BY <1>1, <1>2, <1>3, <1>4, <1>5 DEF Inv, Typed, Planned
<1>10. UnderWay' BY <1>1 DEF UnderWay
<1>11. CASE en
  <2>1. v \in Trips /\ v # Nothing /\ ~mv /\ ~lf BY <1>5, <1>11
  <2>2. live' = toVehicle(StateSeen(v)) /\ entered' = v /\ heard' = v /\ ended' = FALSE
    BY <1>2, <1>6, <1>11, <2>1
  <2>3. ShownOf(toVehicle(StateSeen(v)), v, v) BY <1>7, <2>1, EnterShown
  <2>4. ShownOf(live, heard, entered)' BY <1>1, <2>2, <2>3 DEF ShownOf
  <2>5. live' # Nothing BY <1>8, <2>2, <2>3
  <2>6. Heard' BY <2>1, <2>2, <2>4, <2>5 DEF Heard
  <2>7. Caught' BY <1>1, <1>5, <1>7, <2>1, <2>2, <2>5, Sending DEF Caught, SentOf
  <2> QED BY <1>9, <1>10, <2>6, <2>7 DEF Inv
<1>12. CASE mv
  <2>1. v \in Trips /\ v # Nothing /\ ~en /\ ~lf /\ live # Nothing /\ ~ended BY <1>5, <1>12
  <2>2. live' = Spread(live, toMove(MoveSeen(v))) /\ entered' = entered /\ heard' = v
    BY <1>2, <1>6, <1>12, <2>1
  <2>3. ended' = FALSE
    BY <1>2, <1>4, <1>5, <1>6, <1>12, <2>1
  <2>4. ShownOf(live, heard, entered) /\ entered # Nothing BY <2>1 DEF Inv, Heard
  <2>5. ShownOf(Spread(live, toMove(MoveSeen(v))), v, entered) BY <1>7, <2>1, <2>4, MoveShown
  <2>6. ShownOf(live, heard, entered)' BY <1>1, <2>2, <2>5 DEF ShownOf
  <2>7. live' # Nothing BY <1>8, <2>2, <2>5
  <2>8. Heard' BY <2>1, <2>2, <2>4, <2>6, <2>7 DEF Heard
  <2>9. Caught' BY <1>1, <1>5, <1>7, <2>1, <2>2, <2>3, <2>7, Sending DEF Caught, SentOf
  <2> QED BY <1>9, <1>10, <2>8, <2>9 DEF Inv
<1>13. CASE ~en /\ ~mv
  <2>1. v = Nothing /\ sent = Nothing /\ (lf \/ sn) BY <1>5, <1>13 DEF SentOf
  <2>2. live' = live /\ entered' = entered /\ heard' = heard BY <1>2, <1>6, <1>13
  <2>3. ended' = TRUE BY <1>2, <1>4, <1>6, <1>13, <2>1
  <2>4. Heard' BY <1>1, <2>2 DEF Inv, Heard, ShownOf
  <2>5. Caught' BY <1>1, <1>7, <2>1, <2>3 DEF Caught
  <2> QED BY <1>9, <1>10, <2>4, <2>5 DEF Inv
<1> QED BY <1>11, <1>12, <1>13

\* A plan is a sequence of calls.
LEMMA Planning ==
  ASSUME NEW v \in Trips
  PROVE  Plan(v).stops \in Seq(Calls)
<1>1. Plans[v.journey] \in Seq(Calls) BY Tripped, ConstantsAssumption DEF ConstantsAssumption
<1>2. << >> \in Seq(Calls) OBVIOUS
<1> QED BY <1>1, <1>2 DEF Plan

\* Every step keeps the invariant.
LEMMA Steps == Inv /\ [Next]_vars => Inv'
<1> SUFFICES ASSUME Inv, [Next]_vars PROVE Inv' OBVIOUS
<1>1. CASE Change
  <2>1. veh' \in Trips \cup {Nothing} /\ UNCHANGED <<peer, sent, snap, stream, fetched>>
    BY <1>1, Changes DEF Inv
  <2>2. Heard' /\ UnderWay' /\ Caught' BY <2>1, Aside
  <2>3. Typed' /\ Planned' BY <2>1 DEF Inv, Typed, Planned, stream, fetched
  <2> QED BY <2>2, <2>3 DEF Inv
<1>2. CASE Reconnect
  <2>1. /\ sent' = Nothing /\ snap' = TRUE /\ net' = << >>
        /\ UNCHANGED <<peer, veh, live, ended, entered, heard, plan, planReq>>
    BY <1>2 DEF Reconnect, fetched
  <2> QED BY <2>1 DEF Inv, Typed, Heard, ShownOf, UnderWay, Caught, Planned
<1>3. CASE Tick BY <1>3, Ticks
<1>4. CASE Receive BY <1>4, Receives
<1>5. ASSUME UNCHANGED <<server, stream>>, Planned' PROVE Inv'
  <2>1. UNCHANGED <<peer, veh, sent, snap, stream>> BY <1>5 DEF server
  <2>2. Heard' /\ UnderWay' /\ Caught' BY <2>1, Aside
  <2>3. Typed' BY <2>1 DEF Inv, Typed, stream
  <2> QED BY <1>5, <2>2, <2>3 DEF Inv
<1>6. CASE Poll \/ Lost
  <2>1. UNCHANGED <<server, stream, plan, planReq>> BY <1>6 DEF Poll, Lost
  <2> QED BY <1>5, <2>1 DEF Inv, Planned
<1>7. ASSUME NEW r \in polls, Arrive(r) PROVE Inv'
  <2>1. UNCHANGED <<server, stream>> /\ Followed(r.ans, plan, planReq) BY <1>7 DEF Arrive
  <2>2. plan' = plan /\ planReq' \in {Pending, planReq} BY <2>1 DEF Followed
  <2>3. Planned' BY <2>2 DEF Inv, Planned
  <2> QED BY <1>5, <2>1, <2>3
<1>8. ASSUME NEW r \in polls, Fail(r) PROVE Inv'
  <2>1. UNCHANGED <<server, stream, plan, planReq>> BY <1>8 DEF Fail
  <2> QED BY <1>5, <2>1 DEF Inv, Planned
<1>9. CASE PlanServe
  <2>1. UNCHANGED <<server, stream, plan>> /\ planReq' = IF veh = Nothing THEN Nothing ELSE Plan(veh)
    BY <1>9 DEF PlanServe
  <2>2. veh # Nothing => Plan(veh).stops \in Seq(Calls) BY Planning DEF Inv, Typed
  <2> QED BY <1>5, <2>1, <2>2 DEF Inv, Planned
<1>10. CASE PlanLost
  <2>1. UNCHANGED <<server, stream, plan>> /\ planReq' = Nothing BY <1>10 DEF PlanLost
  <2> QED BY <1>5, <2>1 DEF Inv, Planned
<1>11. CASE PlanArrive
  <2>1. /\ UNCHANGED <<server, stream>> /\ planReq \notin {Nothing, Pending}
        /\ Followed(detail, planReq, Nothing)
    BY <1>11 DEF PlanArrive
  <2>2. plan' = planReq /\ planReq' \in {Pending, Nothing} BY <2>1 DEF Followed
  <2> QED BY <1>5, <2>1, <2>2 DEF Inv, Planned
<1>12. CASE UNCHANGED vars
  <2>1. UNCHANGED <<server, stream, plan, planReq>> BY <1>12 DEF vars, fetched
  <2> QED BY <1>5, <2>1 DEF Inv, Planned
<1> QED BY <1>1, <1>2, <1>3, <1>4, <1>6, <1>7, <1>8, <1>9, <1>10, <1>11, <1>12 DEF Next

\* The invariant holds always.
LEMMA Always == Spec => []Inv
  BY StartsSo, Steps, PTL DEF Spec

-----------------------------------------------------------------------------
(* The types of the requests.                                              *)

\* The trip of a detail or of an answer is a journey, if it has one.
TripOf(d) == Field(d, "trip_id") \in Journeys \cup {Nothing}

Requests ==
  /\ changes \in 0 .. MaxChanges /\ missing \in BOOLEAN
  /\ IsFiniteSet(polls) /\ Cardinality(polls) <= MaxPolls
  /\ planTrip \in Journeys \cup {Nothing}
  /\ TripOf(detail)
  /\ \A r \in polls : DOMAIN r = {"initial", "ans"} /\ (r.ans # Failed => TripOf(r.ans))

\* An answer of the server tells a journey.
LEMMA Answers ==
  ASSUME veh \in Trips \cup {Nothing}
  PROVE  Answer # Failed => TripOf(Answer)
<1>1. CASE veh = Nothing BY <1>1 DEF Answer
<1>2. CASE veh # Nothing
  <2>1. Label(veh, veh.journey) \in Journeys \cup {Nothing} BY <1>2, Tripped DEF Label
  <2> QED BY <1>2, <2>1 DEF Answer, Detail, TripOf, Field
<1> QED BY <1>1, <1>2

\* Requests keep their types, and their number its bound.
LEMMA RequestsStep == Inv /\ Requests /\ [Next]_vars => Requests'
<1> SUFFICES ASSUME Inv, Requests, [Next]_vars PROVE Requests' OBVIOUS
<1>1. /\ changes \in 0 .. MaxChanges /\ missing \in BOOLEAN /\ IsFiniteSet(polls)
      /\ Cardinality(polls) <= MaxPolls /\ planTrip \in Journeys \cup {Nothing}
      /\ TripOf(detail)
      /\ (\A r \in polls : DOMAIN r = {"initial", "ans"} /\ (r.ans # Failed => TripOf(r.ans)))
      /\ MaxChanges \in Nat /\ MaxPolls \in Nat
  BY ConstantsAssumption DEF Requests, ConstantsAssumption
<1>2. \A d : TripOf(d)' <=> TripOf(d) BY DEF TripOf
<1>3. ASSUME changes' \in 0 .. MaxChanges, UNCHANGED fetched PROVE Requests'
  BY <1>1, <1>3 DEF Requests, fetched, TripOf
<1>4. CASE Change \/ Reconnect
  <2>1. changes < MaxChanges /\ changes' = changes + 1 /\ UNCHANGED fetched
    BY <1>4 DEF Change, Start, Report, Delayed, Match, NextJourney, End, Become, Reconnect, fetched
  <2> QED BY <1>1, <1>3, <2>1
<1>5. CASE Tick \/ Receive \/ UNCHANGED vars
  <2>1. changes' = changes /\ UNCHANGED fetched BY <1>5 DEF Tick, Receive, server, vars
  <2> QED BY <1>1, <1>3, <2>1
<1>6. CASE Poll
  <2>1. /\ Cardinality(polls) < MaxPolls
        /\ polls' = polls \cup {[initial |-> FALSE, ans |-> Answer]}
        /\ UNCHANGED <<changes, detail, missing, planTrip>>
    BY <1>6 DEF Poll, server
  <2>2. IsFiniteSet(polls') /\ Cardinality(polls') <= MaxPolls
    <3>1. Cardinality(polls) \in Nat BY <1>1, FS_CardinalityType
    <3>2. /\ IsFiniteSet(polls')
          /\ Cardinality(polls') \in {Cardinality(polls), Cardinality(polls) + 1}
      BY <1>1, <2>1, FS_AddElement
    <3> QED BY <1>1, <2>1, <3>1, <3>2
  <2>3. \A r \in polls' : DOMAIN r = {"initial", "ans"} /\ (r.ans # Failed => TripOf(r.ans))
    BY <1>1, <2>1, Answers DEF Inv, Typed
  <2> QED BY <1>1, <2>1, <2>2, <2>3 DEF Requests, TripOf
<1>7. ASSUME NEW r \in polls
      PROVE  /\ IsFiniteSet(polls \ {r}) /\ Cardinality(polls \ {r}) + 1 <= MaxPolls
             /\ Cardinality(polls \ {r}) \in Nat
  <2>1. IsFiniteSet(polls \ {r}) /\ Cardinality(polls \ {r}) = Cardinality(polls) - 1
    BY <1>1, FS_RemoveElement
  <2>2. Cardinality(polls) \in Nat /\ Cardinality(polls \ {r}) \in Nat
    BY <1>1, <2>1, FS_CardinalityType
  <2> QED BY <1>1, <2>1, <2>2
<1>8. CASE Lost
  <2>1. PICK r \in polls : polls' = (polls \ {r}) \cup {[r EXCEPT !.ans = Failed]}
    BY <1>8 DEF Lost
  <2>2. UNCHANGED <<changes, detail, missing, planTrip>> BY <1>8 DEF Lost, server
  <2>3. IsFiniteSet(polls') /\ Cardinality(polls') <= MaxPolls
    <3> DEFINE S == polls \ {r}
    <3>1. IsFiniteSet(S) /\ Cardinality(S) + 1 <= MaxPolls /\ Cardinality(S) \in Nat BY <1>7
    <3> HIDE DEF S
    <3>2. IsFiniteSet(S \cup {[r EXCEPT !.ans = Failed]})
          /\ Cardinality(S \cup {[r EXCEPT !.ans = Failed]}) \in {Cardinality(S), Cardinality(S) + 1}
      BY <3>1, FS_AddElement
    <3>3. polls' = S \cup {[r EXCEPT !.ans = Failed]} BY <2>1 DEF S
    <3> QED BY <1>1, <3>1, <3>2, <3>3
  <2>4. \A q \in polls' : DOMAIN q = {"initial", "ans"} /\ (q.ans # Failed => TripOf(q.ans))
    <3> DEFINE l == [r EXCEPT !.ans = Failed]
    <3>1. DOMAIN l = {"initial", "ans"} /\ l.ans = Failed BY <1>1
    <3> HIDE DEF l
    <3>2. \A q \in polls' : q \in polls \/ q = l BY <2>1 DEF l
    <3> QED BY <1>1, <3>1, <3>2
  <2> QED BY <1>1, <2>2, <2>3, <2>4 DEF Requests, TripOf
<1>9. ASSUME NEW r \in polls, Arrive(r) \/ Fail(r) PROVE Requests'
  <2>1. polls' = polls \ {r} /\ changes' = changes BY <1>9 DEF Arrive, Fail, server
  <2>2. IsFiniteSet(polls') /\ Cardinality(polls') <= MaxPolls
    <3> DEFINE S == polls \ {r}
    <3>1. IsFiniteSet(S) /\ Cardinality(S) + 1 <= MaxPolls /\ Cardinality(S) \in Nat BY <1>7
    <3> HIDE DEF S
    <3>2. polls' = S BY <2>1 DEF S
    <3> QED BY <1>1, <3>1, <3>2
  <2>3. \A q \in polls' : DOMAIN q = {"initial", "ans"} /\ (q.ans # Failed => TripOf(q.ans))
    BY <1>1, <2>1
  <2>4. missing' \in BOOLEAN /\ TripOf(detail)' /\ planTrip' \in Journeys \cup {Nothing}
    <3>1. CASE Arrive(r)
      <4>1. /\ missing' = FALSE /\ detail' = r.ans /\ r.ans # Failed
            /\ planTrip' \in {Field(r.ans, "trip_id"), planTrip}
        BY <3>1 DEF Arrive, Followed
      <4>2. TripOf(r.ans) BY <1>1, <4>1
      <4> QED BY <1>1, <4>1, <4>2 DEF TripOf
    <3>2. CASE Fail(r)
      BY <1>1, <3>2 DEF Fail, TripOf
    <3> QED BY <1>9, <3>1, <3>2
  <2> QED BY <1>1, <2>1, <2>2, <2>3, <2>4 DEF Requests, TripOf
<1>10. CASE PlanServe \/ PlanLost
  BY <1>1, <1>10 DEF PlanServe, PlanLost, server, Requests, TripOf
<1>11. CASE PlanArrive
  <2>1. /\ UNCHANGED <<changes, missing, polls>> /\ detail' = detail
        /\ planTrip' \in {Field(detail, "trip_id"), planTrip}
    BY <1>11 DEF PlanArrive, Followed, server
  <2> QED BY <1>1, <2>1 DEF Requests, TripOf
<1> QED BY <1>4, <1>5, <1>6, <1>8, <1>9, <1>10, <1>11 DEF Next

\* Every reachable state is well typed, and its requests bounded.
THEOREM WellTyped == Spec => []TypeOK
<1>1. Init => Requests
  <2> SUFFICES ASSUME Init PROVE Requests OBVIOUS
  <2>1. Inv BY StartsSo
  <2>2. Answer # Failed => TripOf(Answer) BY <2>1, Answers DEF Inv, Typed
  <2>3. IsFiniteSet(polls) /\ Cardinality(polls) = 1 BY FS_Singleton DEF Init
  <2>4. 0 \in 0 .. MaxChanges /\ 1 <= MaxPolls BY ConstantsAssumption DEF ConstantsAssumption
  <2>5. TripOf(Nothing) BY DEF TripOf, Field
  <2>6. changes \in 0 .. MaxChanges /\ Cardinality(polls) <= MaxPolls BY <2>3, <2>4 DEF Init
  <2>7. missing \in BOOLEAN /\ planTrip \in Journeys \cup {Nothing} /\ TripOf(detail)
    BY <2>5 DEF Init
  <2>8. \A r \in polls : DOMAIN r = {"initial", "ans"} /\ (r.ans # Failed => TripOf(r.ans))
    BY <2>2 DEF Init
  <2> QED BY <2>3, <2>6, <2>7, <2>8 DEF Requests
<1>2. Inv /\ Requests => TypeOK
  <2> SUFFICES ASSUME Inv, Requests PROVE TypeOK OBVIOUS
  <2>1. Len(net) <= 1
    <3>1. CASE net = << >> BY <3>1
    <3>2. CASE net # << >>
      <4>1. PICK f : net = <<f>> BY <3>2 DEF Inv, UnderWay
      <4> QED BY <4>1
    <3> QED BY <3>1, <3>2
  <2> QED BY <2>1 DEF TypeOK, Inv, Typed, Heard, Requests
<1>3. Spec => []Requests BY <1>1, Always, RequestsStep, PTL DEF Spec
<1> QED BY <1>2, <1>3, Always, PTL

-----------------------------------------------------------------------------
(* The stream.                                                             *)

\* Over the codec and across versions of the server the page has what the last
\* frame said (ws.ts toVehicle, toMove; useVehicleLive of live.ts).
THEOREM WhatWasHeard == Spec => []LiveIsHeard
<1>1. Inv => LiveIsHeard
  <2> SUFFICES ASSUME Inv, live # Nothing PROVE LiveIsHeard BY DEF LiveIsHeard
  <2>1. ShownOf(live, heard, entered) BY DEF Inv, Heard
  <2>2. live.delayKnown => live.delay = heard.delay
    <3>1. live.delayKnown = (peer # "older" /\ heard.known)
          /\ live.delay = IF heard.known THEN heard.delay ELSE 0
      BY <2>1 DEF ShownOf
    <3> QED BY <3>1
  <2>3. live.delayKnown = (peer # "older" /\ heard.known) BY <2>1 DEF ShownOf
  <2>4. /\ live.lat = heard.lat /\ live.atStop = heard.stopped
        /\ live.speedKmh = IF peer = "older" THEN Nothing ELSE heard.speed
        /\ live.journey = entered.journey /\ live.operator = First(Label(entered, "NS"), "")
    BY <2>1 DEF ShownOf
  <2> QED BY <2>2, <2>3, <2>4 DEF LiveIsHeard
<1> QED BY <1>1, Always, PTL

\* When the stream is quiet the page has the vehicle where it is and knows
\* whether it runs (useVehicleLive, routes/vehicle.tsx).
THEOREM QuietTells == Spec => []QuietIsTrue
<1>1. Inv => QuietIsTrue
  <2> SUFFICES ASSUME Inv, net = << >>, ~snap, sent = SentOf(veh)
      PROVE  /\ ended = (veh = Nothing)
             /\ veh # Nothing => /\ ~NotLive /\ live.lat = veh.lat /\ live.atStop = veh.stopped
                                 /\ heard.speed = veh.speed
    BY DEF QuietIsTrue, SentOf
  <2>1. ended \in BOOLEAN BY DEF Inv, Typed
  <2>2. CASE veh = Nothing
    BY <2>1, <2>2 DEF SentOf, Inv, Caught
  <2>3. CASE veh # Nothing
    <3>1. veh \in Trips BY <2>3 DEF Inv, Typed
    <3>2. sent = Compared(veh) /\ sent # Nothing BY <2>3, <3>1, Sending DEF SentOf
    <3>3. ~ended /\ live # Nothing /\ Compared(heard) = Compared(veh) BY <3>2 DEF Inv, Caught
    <3>4. ShownOf(live, heard, entered) BY <3>3 DEF Inv, Heard
    <3>5. heard.lat = veh.lat /\ heard.stopped = veh.stopped /\ heard.speed = veh.speed
      BY <3>3 DEF Compared
    <3> QED BY <2>1, <2>3, <3>3, <3>4, <3>5 DEF ShownOf, NotLive
  <2> QED BY <2>2, <2>3
<1> QED BY <1>1, Always, PTL

-----------------------------------------------------------------------------
(* The view.                                                               *)

\* Where the list of calls begins, and that list.
From(t) ==
  IF plan = Nothing THEN 0
  ELSE upcomingFromIndex(plan.stops, [lat |-> heard.lat, lon |-> 0, atStop |-> heard.stopped,
                                      delay |-> live.delay], t)
Ahead(t) == IF plan = Nothing THEN << >> ELSE SubSeq(plan.stops, From(t) + 1, Len(plan.stops))

\* What the page has of the stream shows through.
ViewOf(w, t) ==
  /\ w.delay = live.delay /\ w.lat = heard.lat /\ w.lon = 0
  /\ w.upcomingFrom = From(t) /\ w.stops = Ahead(t)
  /\ w.atStop = (/\ heard.stopped /\ Ahead(t) # << >>
                 /\ distance2(heard.lat, 0, Ahead(t)[1].lat, Ahead(t)[1].lon) <= AtStopRadius2)

\* What the page has of a vehicle that it shows.
LEMMA Shows ==
  ASSUME Inv, live # Nothing
  PROVE  /\ live.lat = heard.lat /\ live.lon = 0 /\ live.atStop = heard.stopped
         /\ live.delay \in Int /\ live.delay # Nothing
         /\ heard.lat \in Int /\ heard.lat # Nothing /\ heard.stopped \in BOOLEAN
         /\ heard.stopped # Nothing /\ 0 # Nothing /\ heard \in Trips /\ entered \in Trips
<1>1. heard \in Trips /\ entered \in Trips BY DEF Inv, Heard, Typed
<1>2. ShownOf(live, heard, entered) BY DEF Inv, Heard
<1>3. live.lat = heard.lat /\ live.lon = 0 /\ live.atStop = heard.stopped
      /\ live.delay = (IF heard.known THEN heard.delay ELSE 0)
  BY <1>2 DEF ShownOf
<1>4. live.delay \in Int /\ live.delay # Nothing BY <1>1, <1>3, Tripped
<1>5. heard.lat \in Int /\ heard.lat # Nothing /\ heard.stopped \in BOOLEAN
      /\ heard.stopped # Nothing /\ 0 # Nothing
  BY <1>1, Tripped
<1> QED BY <1>1, <1>3, <1>4, <1>5

\* The stream wins over the poll wherever both have the field.
LEMMA Views ==
  ASSUME Inv, live # Nothing, NEW t
  PROVE  ViewOf(View(t), t)
<1> DEFINE v == IF ended THEN Nothing ELSE Field(detail, "vehicle")
           S(g, f) == First(Field(live, g), Field(v, f))
           reports == First(S("atStop", "at_stop"), FALSE)
           delay == First(S("delay", "delay_seconds"), 0)
           from == IF plan = Nothing THEN 0
                   ELSE upcomingFromIndex(plan.stops,
                          [lat |-> S("lat", "lat"), lon |-> S("lon", "lon"), atStop |-> reports,
                           delay |-> delay], t)
           stops == IF plan = Nothing THEN << >> ELSE SubSeq(plan.stops, from + 1, Len(plan.stops))
<1>1. /\ View(t).delay = delay /\ View(t).lat = S("lat", "lat") /\ View(t).lon = S("lon", "lon")
      /\ View(t).upcomingFrom = from /\ View(t).stops = stops
      /\ View(t).atStop = (/\ reports /\ stops # << >> /\ S("lat", "lat") # Nothing /\ S("lon", "lon") # Nothing
                 /\ distance2(S("lat", "lat"), S("lon", "lon"), stops[1].lat, stops[1].lon) <= AtStopRadius2)
  BY DEF View, vehicleView
<1> HIDE DEF v
<1>2. S("lat", "lat") = heard.lat /\ S("lon", "lon") = 0 BY Shows DEF First, Field
<1>3. delay = live.delay BY Shows DEF First, Field
<1>4. reports = heard.stopped
  <2>1. Field(live, "atStop") = heard.stopped BY Shows DEF Field
  <2> QED BY <2>1, Shows, Zenon DEF First
<1>5. from = From(t) BY <1>2, <1>3, <1>4 DEF From
<1> HIDE DEF from
<1>6. stops = Ahead(t) BY <1>5 DEF Ahead
<1> HIDE DEF stops, reports
<1>7. View(t).atStop = (/\ heard.stopped /\ Ahead(t) # << >>
                 /\ distance2(heard.lat, 0, Ahead(t)[1].lat, Ahead(t)[1].lon) <= AtStopRadius2)
  BY <1>1, <1>2, <1>4, <1>6, Shows
<1> QED BY <1>1, <1>2, <1>3, <1>5, <1>6, <1>7 DEF ViewOf

\* After the end of the trip the page stays where the stream left it, whatever
\* polls bring: with the ended trip's label if that is still what the last ENTER
\* said, else with that of the ENTER (vehicleView of vehicle-view.ts).
THEOREM Frozen == Spec => []EndedIsFrozen
<1>1. Inv => EndedIsFrozen
  <2> SUFFICES ASSUME Inv, ended, live # Nothing, NEW t \in Nows
      PROVE  /\ View(t).lat = heard.lat
             /\ Telemetry(t) = [speed |-> IF peer = "older" THEN Nothing ELSE heard.speed,
                                age |-> Nothing]
             /\ Identity(t).delay = Nothing
             /\ over.journey = entered.journey /\ over.matched = entered.matched =>
                  Labelled(View(t), over)
             /\ Labelled(View(t), over) \/ Labelled(View(t), entered)
    BY DEF EndedIsFrozen
  <2>1. entered \in Trips /\ ShownOf(live, heard, entered) BY DEF Inv, Heard, Typed
  <2>2. /\ live.journey = entered.journey /\ live.line = First(Label(entered, entered.journey), "")
        /\ live.speedKmh = IF peer = "older" THEN Nothing ELSE heard.speed
    BY <2>1 DEF ShownOf
  <2>3. /\ View(t).journeyNumber = First(First(Nothing, live.journey), "")
        /\ View(t).line = First(First(Nothing, live.line), "?")
        /\ View(t).speedKmh = First(live.speedKmh, Nothing)
        /\ View(t).lastUpdate = Nothing
    BY DEF View, vehicleView, Field
  <2>4. entered.journey # Nothing BY <2>1, Tripped
  <2>5. First(Label(entered, entered.journey), "") # Nothing
    BY <2>4, NothingAssumption DEF First, NothingAssumption
  <2>6. View(t).journeyNumber = entered.journey BY <2>2, <2>3, <2>4 DEF First
  <2>7. View(t).line = First(Label(entered, entered.journey), "")
    BY <2>2, <2>3, <2>5 DEF First
  <2>8. View(t).speedKmh = live.speedKmh BY <2>3 DEF First
  <2>9. Telemetry(t) = [speed |-> live.speedKmh, age |-> Nothing]
    BY <2>3, <2>8 DEF Telemetry, VehicleTelemetry
  <2>10. Identity(t).delay = Nothing BY DEF Identity, VehicleIdentity
  <2>11. View(t).lat = heard.lat BY Views DEF ViewOf
  <2>12. Labelled(View(t), entered) BY <2>6, <2>7 DEF Labelled
  <2>13. over.journey = entered.journey /\ over.matched = entered.matched =>
           Labelled(View(t), over)
    BY <2>6, <2>7 DEF Labelled, Label
  <2> QED BY <2>2, <2>9, <2>10, <2>11, <2>12, <2>13
<1> QED BY <1>1, Always, PTL

\* A set of numbers has a least one.
LEMMA Least ==
  ASSUME NEW S \in SUBSET Nat, S # {}
  PROVE  \E n \in S : \A m \in S : n <= m
<1>1. IsWellFoundedOn(OpToRel(<, Nat), Nat) BY NatLessThanWellFounded
<1>2. PICK n \in S : \A m \in S : <<m, n>> \notin OpToRel(<, Nat)
  BY <1>1, WFMin
<1>3. \A m \in S : ~(m < n) BY <1>2 DEF OpToRel
<1> QED BY <1>3

\* Squares order as the distances.
LEMMA Square ==
  ASSUME NEW x \in Int
  PROVE  x * x \in Nat /\ (x * x = 0 <=> x = 0)
<1>1. CASE x >= 0 BY <1>1
<1>2. CASE x < 0
  <2>1. -x \in Nat \ {0} /\ (-x) * (-x) = x * x BY <1>2
  <2>2. (-x) * (-x) \in Nat \ {0} BY <2>1
  <2> QED BY <1>2, <2>1, <2>2
<1> QED BY <1>1, <1>2

\* The points are on a line.
LEMMA OnLine ==
  ASSUME NEW a \in Int, NEW b \in Int
  PROVE  distance2(a, 0, b, 0) \in Nat /\ (distance2(a, 0, b, 0) = 0 <=> a = b)
<1>1. distance2(a, 0, b, 0) = (b - a) * (b - a) BY DEF distance2
<1>2. b - a \in Int OBVIOUS
<1>3. (b - a) * (b - a) \in Nat /\ ((b - a) * (b - a) = 0 <=> b - a = 0) BY <1>2, Square
<1> QED BY <1>1, <1>3

\* A call of a plan.
LEMMA CallsOf ==
  ASSUME NEW s \in Seq(Calls), NEW i \in DOMAIN s
  PROVE  s[i] \in Calls /\ s[i].lat \in Int /\ s[i].lon = 0 /\ s[i].arrival \in Int
         /\ s[i].departure \in Int /\ i \in 1 .. Len(s)
<1>1. s[i] \in Calls /\ i \in 1 .. Len(s) OBVIOUS
<1> QED BY <1>1 DEF Calls

\* i is the first of the nearest calls.
FirstNearest(s, p, i) ==
  \A j \in DOMAIN s :
    /\ distance2(p, 0, s[i].lat, s[i].lon) <= distance2(p, 0, s[j].lat, s[j].lon)
    /\ j < i => distance2(p, 0, s[i].lat, s[i].lon) < distance2(p, 0, s[j].lat, s[j].lon)

\* There is a nearest call, and the one chosen is the first of them.
THEOREM NearestFound ==
  ASSUME NEW s \in Seq(Calls), s # << >>, NEW p \in Int
  PROVE  nearestStopIndex(s, p, 0) \in DOMAIN s /\ FirstNearest(s, p, nearestStopIndex(s, p, 0))
<1> DEFINE d(i) == distance2(p, 0, s[i].lat, s[i].lon)
<1>1. ASSUME NEW i \in DOMAIN s PROVE d(i) \in Nat BY CallsOf, OnLine
<1>2. DOMAIN s = 1 .. Len(s) /\ Len(s) \in Nat /\ Len(s) # 0 BY EmptySeq
<1> HIDE DEF d
<1> DEFINE Ds == { d(i) : i \in DOMAIN s }
<1>3. Ds \in SUBSET Nat /\ Ds # {}
  <2>1. 1 \in DOMAIN s BY <1>2
  <2>2. d(1) \in Ds BY <2>1
  <2>3. \A x \in Ds : x \in Nat BY <1>1
  <2> QED BY <2>2, <2>3
<1>4. PICK k \in Ds : \A m \in Ds : k <= m BY <1>3, Least
<1> DEFINE Is == { i \in DOMAIN s : d(i) = k }
<1>5. Is \in SUBSET Nat /\ Is # {} BY <1>2, <1>4
<1>6. PICK i \in Is : \A m \in Is : i <= m BY <1>5, Least
<1>7. \A j \in DOMAIN s : d(i) <= d(j) /\ (j < i => d(i) < d(j))
  <2> SUFFICES ASSUME NEW j \in DOMAIN s PROVE d(i) <= d(j) /\ (j < i => d(i) < d(j)) OBVIOUS
  <2>1. d(i) = k /\ i \in DOMAIN s BY <1>6
  <2>2. d(j) \in Ds /\ k <= d(j) BY <1>4
  <2>3. j < i => d(j) # k
    <3>1. d(j) = k => j \in Is OBVIOUS
    <3> QED BY <1>2, <1>6, <3>1
  <2>4. d(i) \in Nat /\ d(j) \in Nat BY <1>1, <2>1
  <2> QED BY <2>1, <2>2, <2>3, <2>4
<1>8. \E x \in DOMAIN s : \A j \in DOMAIN s : d(x) <= d(j) /\ (j < x => d(x) < d(j))
  BY <1>6, <1>7
<1>9. nearestStopIndex(s, p, 0) =
        CHOOSE x \in DOMAIN s : \A j \in DOMAIN s : d(x) <= d(j) /\ (j < x => d(x) < d(j))
  BY DEF nearestStopIndex, d
<1>10. /\ nearestStopIndex(s, p, 0) \in DOMAIN s
       /\ \A j \in DOMAIN s : d(nearestStopIndex(s, p, 0)) <= d(j)
            /\ (j < nearestStopIndex(s, p, 0) => d(nearestStopIndex(s, p, 0)) < d(j))
  BY <1>8, <1>9
<1> QED BY <1>10 DEF FirstNearest, d

\* A call at the very place is the nearest; the first of them is chosen.
LEMMA FirstThere ==
  ASSUME NEW s \in Seq(Calls), NEW p \in Int, NEW i \in DOMAIN s, s[i].lat = p,
         \A j \in 1 .. (i - 1) : s[j].lat # p
  PROVE  nearestStopIndex(s, p, 0) = i
<1>1. DOMAIN s = 1 .. Len(s) /\ s # << >> OBVIOUS
<1> DEFINE n == nearestStopIndex(s, p, 0)
<1>2. n \in DOMAIN s /\ FirstNearest(s, p, n) BY <1>1, NearestFound
<1> HIDE DEF n
<1>3. /\ s[i].lon = 0 /\ s[n].lon = 0 /\ s[i].lat \in Int /\ s[n].lat \in Int
      /\ i \in Nat /\ n \in Nat
  BY <1>2, CallsOf
<1>4. distance2(p, 0, s[i].lat, 0) = 0 BY <1>3, OnLine
<1>5. distance2(p, 0, s[n].lat, 0) <= 0 BY <1>2, <1>3, <1>4 DEF FirstNearest
<1>6. s[n].lat = p
  <2>1. distance2(p, 0, s[n].lat, 0) \in Nat
        /\ (distance2(p, 0, s[n].lat, 0) = 0 <=> p = s[n].lat)
    BY <1>3, OnLine
  <2> QED BY <1>5, <2>1
<1>7. ~(n < i)
  <2>1. n < i => n \in 1 .. (i - 1) BY <1>1, <1>2, <1>3
  <2> QED BY <1>6, <2>1
<1>8. ~(i < n)
  <2>1. i < n => distance2(p, 0, s[n].lat, 0) < distance2(p, 0, s[i].lat, 0)
    BY <1>2, <1>3 DEF FirstNearest
  <2>2. distance2(p, 0, s[n].lat, 0) = 0 BY <1>3, <1>6, OnLine
  <2> QED BY <1>4, <2>1, <2>2
<1> QED BY <1>3, <1>7, <1>8 DEF n

\* The calls ahead begin before or behind the nearest one, at it if the vehicle
\* stands.
LEMMA Begins ==
  ASSUME Inv, live # Nothing, plan # Nothing, NEW t
  PROVE  /\ plan.stops = << >> => From(t) = 0
         /\ plan.stops # << >> =>
              LET n == nearestStopIndex(plan.stops, heard.lat, 0)
              IN From(t) \in {n - 1, n} /\ (heard.stopped => From(t) = n - 1)
<1> DEFINE r == [lat |-> heard.lat, lon |-> 0, atStop |-> heard.stopped, delay |-> live.delay]
           ahead == { i \in DOMAIN plan.stops : ~departed(plan.stops[i], live.delay, t) }
           n == nearestStopIndex(plan.stops, heard.lat, 0)
<1>1. From(t) = upcomingFromIndex(plan.stops, r, t) BY DEF From
<1>2. heard.lat # Nothing /\ 0 # Nothing BY Shows
<1>3. plan.stops = << >> => upcomingFromIndex(plan.stops, r, t) = 0 BY DEF upcomingFromIndex
<1>4. plan.stops # << >> =>
        upcomingFromIndex(plan.stops, r, t) = IF heard.stopped \/ n \in ahead THEN n - 1 ELSE n
  BY <1>2 DEF upcomingFromIndex
<1> HIDE DEF ahead, n
<1>5. plan.stops # << >> => From(t) \in {n - 1, n} /\ (heard.stopped => From(t) = n - 1)
  BY <1>1, <1>4
<1> QED BY <1>1, <1>3, <1>5 DEF n

\* The calls ahead are the end of the plan.
LEMMA AheadOf ==
  ASSUME Inv, live # Nothing, plan # Nothing, NEW t
  PROVE  /\ plan.stops \in Seq(Calls) /\ From(t) \in Nat /\ From(t) <= Len(plan.stops)
         /\ DOMAIN Ahead(t) = 1 .. (Len(plan.stops) - From(t))
         /\ \A i \in DOMAIN Ahead(t) :
              /\ From(t) + i \in DOMAIN plan.stops
              /\ Ahead(t)[i] = plan.stops[From(t) + i]
<1>1. plan.stops \in Seq(Calls) BY DEF Inv, Planned
<1> DEFINE s == plan.stops
           n == nearestStopIndex(s, heard.lat, 0)
<1> HIDE DEF s
<1>2. s \in Seq(Calls) /\ Len(s) \in Nat /\ DOMAIN s = 1 .. Len(s) BY <1>1 DEF s
<1>3. From(t) \in Nat /\ From(t) <= Len(s)
  <2>1. CASE s = << >>
    <3>1. From(t) = 0 BY <2>1, Begins DEF s
    <3> QED BY <1>2, <3>1
  <2>2. CASE s # << >>
    <3>1. n \in DOMAIN s
      <4>1. heard.lat \in Int BY Shows
      <4> QED BY <1>2, <2>2, <4>1, NearestFound
    <3>2. From(t) \in {n - 1, n} BY <2>2, Begins DEF s
    <3> HIDE DEF n
    <3> QED BY <1>2, <3>1, <3>2
  <2> QED BY <2>1, <2>2
<1> DEFINE m == From(t) + 1
<1>4. Ahead(t) = SubSeq(s, m, Len(s)) BY DEF Ahead, s
<1>5. m \in Int /\ m >= 1 BY <1>3
<1>6. \A i \in m .. Len(s) : s[i] \in Calls BY <1>2, <1>5
<1>7. /\ SubSeq(s, m, Len(s)) \in Seq(Calls)
      /\ Len(SubSeq(s, m, Len(s))) = IF m <= Len(s) THEN Len(s) - m + 1 ELSE 0
      /\ \A i \in 1 .. Len(s) - m + 1 : SubSeq(s, m, Len(s))[i] = s[m + i - 1]
  BY <1>2, <1>5, <1>6, SubSeqProperties
<1>8. Len(Ahead(t)) = Len(s) - From(t) /\ Ahead(t) \in Seq(Calls)
  BY <1>2, <1>3, <1>4, <1>7
<1>9. DOMAIN Ahead(t) = 1 .. (Len(s) - From(t)) BY <1>8
<1>10. ASSUME NEW i \in DOMAIN Ahead(t)
       PROVE  From(t) + i \in DOMAIN s /\ Ahead(t)[i] = s[From(t) + i]
  <2>1. i \in 1 .. Len(s) - m + 1 /\ m + i - 1 = From(t) + i BY <1>2, <1>3, <1>9, <1>10
  <2>2. From(t) + i \in 1 .. Len(s) BY <1>2, <1>3, <1>9, <1>10
  <2> QED BY <1>2, <1>4, <1>7, <2>1, <2>2
<1> QED BY <1>2, <1>3, <1>9, <1>10 DEF s

\* There is a row for each call ahead.
LEMMA RowsOf ==
  ASSUME Inv, live # Nothing, NEW t
  PROVE  /\ DOMAIN Rows(t) = DOMAIN Ahead(t)
         /\ \A i \in DOMAIN Ahead(t) :
              /\ Rows(t)[i].number = From(t) + i
              /\ Rows(t)[i].current = (View(t).atStop /\ i = 1)
              /\ ~Rows(t)[i].current =>
                   Rows(t)[i].eta = etaLabel(etaSeconds(Ahead(t)[i].arrival + live.delay, t))
<1>1. ViewOf(View(t), t) BY Views
<1> DEFINE w == View(t)
<1> HIDE DEF w
<1>2. w.stops = Ahead(t) /\ w.upcomingFrom = From(t) /\ w.delay = live.delay
  BY <1>1 DEF ViewOf, w
<1>3. Rows(t) = UpcomingStops(w, t) BY DEF Rows, w
<1>4. DOMAIN UpcomingStops(w, t) = DOMAIN w.stops BY DEF UpcomingStops
<1>5. ASSUME NEW i \in DOMAIN w.stops
      PROVE  /\ UpcomingStops(w, t)[i].number = w.upcomingFrom + i
             /\ UpcomingStops(w, t)[i].current = (w.atStop /\ i = 1)
             /\ UpcomingStops(w, t)[i].eta =
                  IF w.atStop /\ i = 1 THEN Nothing
                  ELSE etaLabel(etaSeconds(w.stops[i].arrival + w.delay, t))
  BY DEF UpcomingStops, expectedTime
<1>6. ASSUME NEW i \in DOMAIN Ahead(t)
      PROVE  /\ Rows(t)[i].number = From(t) + i
             /\ Rows(t)[i].current = (View(t).atStop /\ i = 1)
             /\ ~Rows(t)[i].current =>
                   Rows(t)[i].eta = etaLabel(etaSeconds(Ahead(t)[i].arrival + live.delay, t))
  <2>1. i \in DOMAIN w.stops BY <1>2
  <2>2. Rows(t)[i].number = From(t) + i BY <1>2, <1>3, <1>5, <2>1
  <2>3. Rows(t)[i].current = (w.atStop /\ i = 1) BY <1>3, <1>5, <2>1
  <2>4. Rows(t)[i].eta = IF w.atStop /\ i = 1 THEN Nothing
                         ELSE etaLabel(etaSeconds(Ahead(t)[i].arrival + live.delay, t))
    BY <1>2, <1>3, <1>5, <2>1
  <2> QED BY <2>2, <2>3, <2>4 DEF w
<1> QED BY <1>2, <1>3, <1>4, <1>6

\* The stop a vehicle stands at is the first one listed, and no other is marked
\* (upcomingFromIndex of trip.ts, vehicleView).
THEOREM Standing == Spec => []StandingListed
<1>1. Inv => StandingListed
  <2> SUFFICES ASSUME Inv, live # Nothing, plan # Nothing, NEW t \in Nows
      PROVE  LET rows == Rows(t)
                 lat(i) == plan.stops[i].lat
             IN /\ \A i \in DOMAIN plan.stops :
                     heard.stopped /\ heard.lat = lat(i) /\ (\A j \in 1 .. (i - 1) : lat(j) # lat(i)) =>
                       rows # << >> /\ rows[1].number = i /\ rows[1].current
                /\ \A i \in DOMAIN rows : rows[i].current =>
                     heard.stopped /\ distance2(heard.lat, 0, lat(rows[i].number), 0) <= AtStopRadius2
    BY DEF StandingListed
  <2> DEFINE s == plan.stops
  <2>1. s \in Seq(Calls) /\ heard.lat \in Int BY Shows DEF Inv, Planned
  <2>2. View(t).atStop = (/\ heard.stopped /\ Ahead(t) # << >>
                 /\ distance2(heard.lat, 0, Ahead(t)[1].lat, Ahead(t)[1].lon) <= AtStopRadius2)
    BY Views DEF ViewOf
  <2>3. ASSUME NEW i \in DOMAIN s, heard.stopped, heard.lat = s[i].lat,
               \A j \in 1 .. (i - 1) : s[j].lat # s[i].lat
        PROVE  Rows(t) # << >> /\ Rows(t)[1].number = i /\ Rows(t)[1].current
    <3>1. nearestStopIndex(s, heard.lat, 0) = i BY <2>1, <2>3, FirstThere
    <3>2. s # << >> /\ i \in 1 .. Len(s) /\ Len(s) \in Nat BY <2>1, <2>3
    <3>3. From(t) = i - 1 BY <2>3, <3>1, <3>2, Begins
    <3>4. 1 \in DOMAIN Ahead(t) /\ Ahead(t)[1] = s[i]
      <4>1. 1 \in DOMAIN Ahead(t) BY <3>2, <3>3, AheadOf
      <4>2. From(t) + 1 = i BY <3>2, <3>3
      <4> QED BY <4>1, <4>2, AheadOf
    <3>5. distance2(heard.lat, 0, s[i].lat, s[i].lon) = 0
      <4>1. s[i].lat \in Int /\ s[i].lon = 0 BY <2>1, CallsOf
      <4>2. distance2(heard.lat, 0, s[i].lat, 0) = 0 BY <2>1, <2>3, <4>1, OnLine
      <4> QED BY <4>1, <4>2
    <3>6. AtStopRadius2 \in Nat BY ConstantsAssumption DEF ConstantsAssumption
    <3>7. Ahead(t) # << >> BY <3>4
    <3>8. View(t).atStop
      <4>1. distance2(heard.lat, 0, Ahead(t)[1].lat, Ahead(t)[1].lon) <= AtStopRadius2
        BY <3>4, <3>5, <3>6
      <4> QED BY <2>2, <2>3, <3>7, <4>1, Zenon
    <3>9. /\ 1 \in DOMAIN Rows(t) /\ Rows(t)[1].number = From(t) + 1
          /\ Rows(t)[1].current = (View(t).atStop /\ 1 = 1)
      BY <3>4, RowsOf
    <3>10. Rows(t)[1].current BY <3>8, <3>9, Zenon
    <3>11. Rows(t)[1].number = i BY <3>2, <3>3, <3>9
    <3>12. Rows(t) # << >> BY <3>9
    <3> QED BY <3>10, <3>11, <3>12
  <2>4. ASSUME NEW i \in DOMAIN Rows(t), Rows(t)[i].current
        PROVE  /\ heard.stopped
               /\ distance2(heard.lat, 0, s[Rows(t)[i].number].lat, 0) <= AtStopRadius2
    <3>1. i \in DOMAIN Ahead(t) BY RowsOf
    <3>2. View(t).atStop /\ i = 1 /\ Rows(t)[i].number = From(t) + i BY <2>4, <3>1, RowsOf
    <3>3. Ahead(t)[1] = s[From(t) + 1] /\ From(t) + 1 \in DOMAIN s BY <3>1, <3>2, AheadOf
    <3>4. s[From(t) + 1].lon = 0 BY <2>1, <3>3, CallsOf
    <3> QED BY <2>2, <3>2, <3>3, <3>4
  <2> QED BY <2>3, <2>4
<1> QED BY <1>1, Always, PTL

\* Two halves are a day.
LEMMA Halves == Day \in Nat /\ HalfDay \in Nat /\ HalfDay > 0 /\ Day = HalfDay + HalfDay
  BY SMT DEF Day, HalfDay
\* A multiple of d that is nearer than d is 0.
LEMMA Multiple ==
  ASSUME NEW d \in Nat, d > 0, NEW m \in Int, -d < d * m, d * m < d
  PROVE  m = 0
<1>1. CASE m >= 1
  <2>1. d * m >= d * 1 BY <1>1, SMT
  <2> QED BY <2>1, SMT
<1>2. CASE m <= -1
  <2>1. d * m <= d * (-1) BY <1>2, SMT
  <2> QED BY <2>1, SMT
<1> QED BY <1>1, <1>2, SMT
\* What is left of a number below d after multiples of d.
LEMMA Remainder ==
  ASSUME NEW d \in Nat, d > 0, NEW z \in Int, 0 <= z, z < d, NEW k \in Int
  PROVE  (z + d * k) % d = z
<1> DEFINE a == z + d * k
           q == a \div d
           r == a % d
<1>1. a \in Int /\ d * k \in Int BY SMT
<1>2. q \in Int /\ r \in Int /\ a = d * q + r /\ 0 <= r /\ r < d BY <1>1, SMT
<1> HIDE DEF q, r
<1>3. d * (k - q) = r - z /\ k - q \in Int
  <2>1. d * (k - q) = d * k - d * q BY <1>2, SMT
  <2> QED BY <1>1, <1>2, <2>1, SMT
<1>4. -d < r - z /\ r - z < d BY <1>2, SMT
<1>5. k - q = 0 BY <1>3, <1>4, Multiple
<1>6. r - z = 0 BY <1>3, <1>5, SMT
<1> QED BY <1>2, <1>6, SMT DEF r
\* Half a day either way is told exactly, on whichever day the clock is read.
THEOREM EtaExact ==
  ASSUME NEW x \in Int, NEW y \in Int, NEW k \in Int, y = x + Day * k, NEW t \in Nat, Near(x - t)
  PROVE  etaSeconds(y, t) = x - t
<1> DEFINE z == x - t + HalfDay
           r == t % Day
           q == t \div Day
<1>1. Day \in Nat /\ HalfDay \in Nat /\ Day > 0 /\ Day = HalfDay + HalfDay BY Halves, SMT
<1>2. -HalfDay <= x - t /\ x - t <= HalfDay - 1 BY <1>1, SMT DEF Near
<1>3. z \in Int /\ 0 <= z /\ z < Day BY <1>1, <1>2, SMT
<1>4. r \in Int /\ q \in Int /\ t = Day * q + r BY <1>1, SMT
<1>5. etaSeconds(y, t) = ((y - r + HalfDay) % Day) - HalfDay
  BY DEF etaSeconds, secsSinceMidnightNL
<1> HIDE DEF r, q
<1>6. y - r + HalfDay = z + Day * (k + q)
  <2>1. Day * (k + q) = Day * k + Day * q /\ Day * k \in Int /\ Day * q \in Int BY <1>1, <1>4, SMT
  <2> QED BY <1>1, <1>4, <2>1, SMT
<1> HIDE DEF z
<1>9. k + q \in Int BY <1>4
<1>7. (z + Day * (k + q)) % Day = z BY <1>1, <1>3, <1>9, Remainder, Zenon
<1>8. etaSeconds(y, t) = z - HalfDay BY <1>5, <1>6, <1>7
<1> QED BY <1>1, <1>8 DEF z

\* A countdown of up to half a day is exact on any day (etaSeconds of format.ts,
\* UpcomingStops, StopPanel).
THEOREM Countdowns == Spec => []CountdownsExact
<1>1. Inv => CountdownsExact
  <2> SUFFICES ASSUME Inv, live # Nothing, plan # Nothing, NEW t \in Nows
      PROVE  LET rows == Rows(t)
             IN /\ \A i \in DOMAIN rows :
                     LET secs == plan.stops[rows[i].number].arrival + live.delay - t
                     IN ~rows[i].current /\ Near(secs) => rows[i].eta = etaLabel(secs)
                /\ heard.matched => \A i \in DOMAIN Plans[heard.journey], b \in Nows :
                     LET s == Plans[heard.journey][i]
                         secs == s.departure + (IF heard.known THEN heard.delay ELSE 0) - t
                     IN b <= t /\ Near(secs) =>
                          DepartureRow(Departure(heard, s, b), t).eta = etaLabel(secs)
    BY DEF CountdownsExact
  <2>0. t \in Nat /\ Nows \subseteq Nat BY ConstantsAssumption DEF ConstantsAssumption
  <2> DEFINE late == IF heard.known THEN heard.delay ELSE 0
             arrives(n) == plan.stops[n].arrival + live.delay - t
             departs(i) == Plans[heard.journey][i].departure + late - t
  <2>1. ASSUME NEW i \in DOMAIN Rows(t), ~Rows(t)[i].current, Near(arrives(Rows(t)[i].number))
        PROVE  Rows(t)[i].eta = etaLabel(arrives(Rows(t)[i].number))
    <3>1. i \in DOMAIN Ahead(t) BY RowsOf
    <3>2. /\ Rows(t)[i].number = From(t) + i
          /\ Rows(t)[i].eta = etaLabel(etaSeconds(Ahead(t)[i].arrival + live.delay, t))
      BY <2>1, <3>1, RowsOf
    <3>3. Ahead(t)[i] = plan.stops[From(t) + i] /\ From(t) + i \in DOMAIN plan.stops
          /\ plan.stops \in Seq(Calls)
      BY <3>1, AheadOf
    <3> DEFINE x == plan.stops[From(t) + i].arrival + live.delay
    <3>11. plan.stops[From(t) + i].arrival \in Int /\ live.delay \in Int BY <3>3, CallsOf, Shows
    <3>4. x \in Int BY <3>11
    <3>5. arrives(Rows(t)[i].number) = x - t BY <2>0, <3>2, <3>11
    <3>6. Ahead(t)[i].arrival + live.delay = x BY <3>3
    <3> HIDE DEF x, arrives
    <3>7. x = x + Day * 0 BY <3>4, Halves
    <3>8. Near(x - t) BY <2>1, <3>5
    <3>9. etaSeconds(x, t) = x - t BY <2>0, <3>4, <3>7, <3>8, EtaExact
    <3>10. Rows(t)[i].eta = etaLabel(x - t) BY <3>2, <3>6, <3>9, Zenon
    <3> QED BY <3>5, <3>10
  <2>2. ASSUME NEW i \in DOMAIN Plans[heard.journey], NEW b \in Nows, Near(departs(i))
        PROVE  DepartureRow(Departure(heard, Plans[heard.journey][i], b), t).eta = etaLabel(departs(i))
    <3> DEFINE s == Plans[heard.journey][i]
               x == s.departure + late
               q == b \div Day
               y == s.departure - Day * q + First(IF heard.known THEN heard.delay ELSE Nothing, 0)
    <3>1. heard \in Trips /\ Plans[heard.journey] \in Seq(Calls)
      BY Shows, Tripped, ConstantsAssumption DEF ConstantsAssumption
    <3>2. s.departure \in Int BY <3>1, CallsOf
    <3>3. late \in Int /\ late # Nothing BY <3>1, Tripped
    <3>4. First(IF heard.known THEN heard.delay ELSE Nothing, 0) = late BY <3>3 DEF First
    <3>5. DepartureRow(Departure(heard, s, b), t).eta = etaLabel(etaSeconds(y, t))
      BY DEF DepartureRow, Departure
    <3>6. q \in Int BY <2>0, Halves
    <3> HIDE DEF s, late, q
    <3>11. departs(i) = x - t BY <2>0, <3>2, <3>3 DEF s
    <3> HIDE DEF departs
    <3>7. y = s.departure - Day * q + late BY <3>4
    <3>8. x \in Int /\ y \in Int /\ -q \in Int /\ y = x + Day * (-q)
      BY <3>2, <3>3, <3>6, <3>7, Halves
    <3> HIDE DEF x, y
    <3>9. Near(x - t) BY <2>2, <3>11
    <3>10. etaSeconds(y, t) = x - t BY <2>0, <3>8, <3>9, EtaExact
    <3> QED BY <3>5, <3>10, <3>11 DEF s
  <2> QED BY <2>1, <2>2
<1> QED BY <1>1, Always, PTL
=============================================================================
