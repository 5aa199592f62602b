-------------------------------- MODULE Page --------------------------------
(***************************************************************************)
(* A vehicle on its own page (routes/vehicle.tsx, vehicle/[id].tsx): the   *)
(* stream of the one pinned vehicle (lib/live.ts) as it comes over the     *)
(* wire, the detail polled beside it, the plan of its trip, and the view   *)
(* that is made of the three.                                              *)
(*                                                                         *)
(* The server may be older than the client, which then misses the fields   *)
(* added since, or newer, and send fields the client does not know.        *)
(***************************************************************************)
EXTENDS Present, FiniteSets

CONSTANTS
  Journeys,    \* what the vehicle may run
  FirstJourney, \* the one it is on when it runs at the start
  Plans,       \* Plans[j]: the calls of the trip that journey j is matched to
  Places,      \* where it may be
  Delays,      \* how late, where that is known
  Speeds,      \* how fast, or Nothing
  Nows,        \* moments at which the page is looked at
  Pending,     \* a request without an answer
  Failed,      \* a request that failed
  MaxChanges,  \* bound on what happens to the vehicle and the connection
  MaxPolls     \* bound on polls under way

\* The vehicle as the server has it, a call of its trip, and what the page has
\* of the vehicle (Vehicle of types.ts, under its names).
Trips == [journey : Journeys, matched : BOOLEAN, lat : Int, stopped : BOOLEAN,
          delay : Int, known : BOOLEAN, speed : Int \cup {Nothing}]
Calls == [id : STRING, lat : Int, lon : {0}, arrival : Int, departure : Int]
Shown == {"id", "dataowner", "vehicleNumber", "line", "type", "operator", "lat", "lon", "bearing",
          "speedKmh", "delay", "delayKnown", "destination", "block", "journey", "atStop",
          "currentStopId", "schedulePositioned", "lineColor", "lineTextColor"}
Values == Int \cup Journeys \cup BOOLEAN \cup {Nothing, "", "1", "IFF", "IFF:1", "NS"}

\* The vehicle runs on a line, where calls are too; Nothing is no value of
\* another kind.
ConstantsAssumption ==
  /\ Journeys \subseteq STRING /\ FirstJourney \in Journeys
  /\ \A j \in Journeys : Plans[j] \in Seq(Calls)
  /\ Places \subseteq Int /\ Delays \subseteq Int /\ Speeds \subseteq Int \cup {Nothing}
  /\ Nows \subseteq Nat /\ AtStopRadius2 \in Nat
  /\ MaxChanges \in Nat /\ MaxPolls \in Nat \ {0}
  /\ Nothing \notin {Pending, Failed} /\ Nothing \notin Trips
  /\ Nothing \notin [lat : Int, delay : Int, stopped : BOOLEAN, speed : Int \cup {Nothing}]
  /\ Nothing \notin [Shown -> Values]
ASSUME ConstantsAssumption

VARIABLES
  peer,     \* the server: "older" than the client or "newer"
  veh,      \* the trip the server has for the vehicle, or Nothing
  changes,  \* how often veh or the connection changed
  sent,     \* what the subscription last sent of it (Sent), or Nothing
  snap,     \* force_snapshot
  net,      \* frames under way
  live, ended,             \* useVehicleLive
  detail, missing, polls,  \* the detail, the first poll failed, polls under way
  plan, planTrip, planReq, \* trip, the id it was asked for, its request
  gone,     \* history: the trip that ended, while the server has none
  entered,  \* history: the trip of the last ENTER received
  heard,    \* history: the trip of the last ENTER or MOVE received
  over      \* history: the trip the server had, or had last, at the last frame received

server == <<peer, veh, changes, sent, snap, gone>>
stream == <<net, live, ended, entered, heard, over>>
fetched == <<detail, missing, polls, plan, planTrip, planReq>>
vars == <<server, stream, fetched>>

-----------------------------------------------------------------------------
(* The vehicle as the server knows it.  Enrichment gives it its line, its  *)
(* operator and its trip id together.                                      *)

Started(j, m) ==
  [journey |-> j, matched |-> m, lat |-> 0, stopped |-> FALSE,
   delay |-> 0, known |-> FALSE, speed |-> Nothing]

Label(v, x) == IF v.matched THEN x ELSE Nothing

\* LiveTrip under the names of the wire.
LiveTrip(v) ==
  [id |-> "IFF:1", dataowner |-> "IFF", vehicle_number |-> "1", vehicle_type |-> 4,
   line_public_number |-> Label(v, v.journey), operator_name |-> Label(v, "NS"),
   journey_number |-> v.journey, destination |-> Label(v, v.journey), block_code |-> Nothing,
   line_color |-> Nothing, line_text_color |-> Nothing, current_stop_id |-> Nothing,
   lat |-> v.lat, lon |-> 0, bearing |-> NaN, at_stop |-> v.stopped, schedule_positioned |-> FALSE,
   delay_seconds |-> IF v.known THEN v.delay ELSE 0, delay_known |-> v.known,
   speed_kmh |-> v.speed]

\* rest.rs: an Option stays null, the type is a word.
VehicleJson(v) ==
  [f \in DOMAIN LiveTrip(v) \cup {"last_update"} |->
     CASE f = "vehicle_type" -> "train"
       [] f = "bearing"      -> Nothing
       [] f = "last_update"  -> 0
       [] OTHER              -> LiveTrip(v)[f]]

Detail(v) == [vehicle |-> VehicleJson(v), trip_id |-> Label(v, v.journey)]
\* vehicle_detail answers 404 for a vehicle that is not running.
Answer == IF veh = Nothing THEN Failed ELSE Detail(veh)

Plan(v) == [trip_id |-> Label(v, v.journey),
            stops   |-> IF v.matched THEN Plans[v.journey] ELSE << >>]

\* A row of the departure board answered at time t: seconds of that day.
Departure(v, s, t) ==
  LET at == s.departure - Day * (t \div Day)
      delay == IF v.known THEN v.delay ELSE Nothing
  IN [vehicle_id |-> "IFF:1", dataowner |-> "IFF", operator |-> Nothing, line |-> v.journey,
      scheduled_departure |-> at, expected_departure |-> at + First(delay, 0),
      delay_seconds |-> delay]

-----------------------------------------------------------------------------
Init ==
  /\ peer \in {"older", "newer"}
  /\ veh \in {Nothing, Started(FirstJourney, TRUE), Started(FirstJourney, FALSE)}
  /\ changes = 0 /\ sent = Nothing /\ snap = TRUE /\ gone = Nothing /\ net = << >>
  /\ live = Nothing /\ ended = FALSE /\ entered = Nothing /\ heard = Nothing /\ over = Nothing
  /\ detail = Nothing /\ missing = FALSE /\ polls = {[initial |-> TRUE, ans |-> Answer]}
  /\ plan = Nothing /\ planTrip = Nothing /\ planReq = Pending

\* What becomes of the vehicle: a position, a punctuality, a GTFS match, another
\* journey, the end, a start.
Become(v) ==
  /\ changes < MaxChanges /\ changes' = changes + 1
  /\ v # veh /\ veh' = v
  /\ gone' = IF v = Nothing THEN veh ELSE Nothing
  /\ UNCHANGED <<peer, sent, snap, stream, fetched>>

\* Only trains report a speed, and they never that they stand at a stop.
Report == \E p \in Places, b \in BOOLEAN, k \in Speeds :
  /\ b => k = Nothing
  /\ Become([veh EXCEPT !.lat = p, !.stopped = b, !.speed = k])
Delayed == \E d \in Delays : Become([veh EXCEPT !.delay = d, !.known = TRUE])
Match == Become([veh EXCEPT !.matched = TRUE])
NextJourney == \E j \in Journeys \ {veh.journey} : Become(Started(j, TRUE))
End == Become(Nothing)
Start == \E j \in Journeys, m \in BOOLEAN : Become(Started(j, m))

Change == IF veh = Nothing THEN Start
          ELSE Report \/ Delayed \/ Match \/ NextJourney \/ End

\* The socket is lost and replaced: what was under way is gone, the new
\* subscription has sent nothing.
Reconnect ==
  /\ changes < MaxChanges /\ changes' = changes + 1
  /\ sent' = Nothing /\ snap' = TRUE /\ net' = << >>
  /\ UNCHANGED <<peer, veh, gone, live, ended, entered, heard, over, fetched>>

-----------------------------------------------------------------------------
(* The stream.                                                             *)

Compared(v) == [lat |-> v.lat, delay |-> IF v.known THEN v.delay ELSE 0,
                stopped |-> v.stopped, speed |-> v.speed]

\* An older server lacks the tags added since and may still send the three that
\* were removed; a newer one has more.
Added == [entered |-> {21, 22, 23, 24}, moved |-> {8, 9, 10, 11}]
Aged(w, added) ==
  CASE peer = "older" -> Spread([n \in DOMAIN w \ added |-> w[n]], [n \in {18} |-> "next"])
    [] peer = "newer" -> Spread(w, [n \in {99} |-> "new"])

AgedUpdate(u) ==
  [n \in DOMAIN u |-> CASE n = 1 -> Each(LAMBDA w : Aged(w, Added.entered), u[n])
                        [] n = 2 -> Each(LAMBDA w : Aged(w, Added.moved), u[n])
                        [] OTHER -> u[n]]

\* build_update for the pinned vehicle, and its encoding.
Frame(en, mv, lf) ==
  LET m == PbUpdate(IF en THEN <<LiveTrip(veh)>> ELSE << >>, IF mv THEN <<LiveTrip(veh)>> ELSE << >>,
                    IF lf THEN <<"IFF:1">> ELSE << >>, snap)
  IN [w |-> [k \in {1} |-> AgedUpdate(m[k])], of |-> veh, last |-> First(veh, gone)]

Tick ==
  LET en == veh # Nothing /\ sent = Nothing
      mv == veh # Nothing /\ sent # Nothing /\ sent # Compared(veh)
      lf == veh = Nothing /\ sent # Nothing
  IN /\ net = << >>
     /\ snap \/ en \/ mv \/ lf
     /\ net' = <<Frame(en, mv, lf)>>
     /\ sent' = IF veh = Nothing THEN Nothing ELSE Compared(veh)
     /\ snap' = FALSE
     /\ UNCHANGED <<peer, veh, changes, gone, live, ended, entered, heard, over, fetched>>

onUpdateUnsnapped(u) ==
  LET e == IF u.entered # << >> THEN toVehicle(u.entered[1]) ELSE live
  IN /\ live' = IF u.moved # << >> /\ e # Nothing THEN Spread(e, toMove(u.moved[1])) ELSE e
     /\ ended' = (u.left # << >> \/ (ended /\ u.entered = << >>))

\* onUpdate of useVehicleLive.
onUpdate(u) ==
  LET e == IF u.entered # << >> THEN toVehicle(u.entered[1]) ELSE live
  IN /\ live' = IF u.moved # << >> /\ e # Nothing THEN Spread(e, toMove(u.moved[1])) ELSE e
     /\ ended' = \/ u.left # << >> \/ (u.is_snapshot /\ u.entered = << >>)
                 \/ (ended /\ u.entered = << >>)

Receive ==
  /\ net # << >>
  /\ LET u == decodeServer(Head(net).w).update
     IN /\ onUpdate(u)
        /\ entered' = IF u.entered # << >> THEN Head(net).of ELSE entered
        /\ heard' = IF u.entered # << >> \/ u.moved # << >> THEN Head(net).of ELSE heard
        /\ over' = Head(net).last
  /\ net' = Tail(net)
  /\ UNCHANGED <<server, fetched>>

-----------------------------------------------------------------------------
(* The requests.                                                           *)

\* setInterval does not wait for an answer; a request stands with what the
\* server answered until that arrives.  It may fail on the way.
Poll ==
  /\ Cardinality(polls) < MaxPolls
  /\ polls' = polls \cup {[initial |-> FALSE, ans |-> Answer]}
  /\ UNCHANGED <<server, stream, detail, missing, plan, planTrip, planReq>>

Lost ==
  /\ \E r \in polls : r.ans # Failed /\ polls' = (polls \ {r}) \cup {[r EXCEPT !.ans = Failed]}
  /\ UNCHANGED <<server, stream, detail, missing, plan, planTrip, planReq>>

\* The plan is asked for again when the poll reports a trip that is neither the
\* plan's nor the one asked for last.
Followed(d, p, rest) ==
  LET id == Field(d, "trip_id")
      again == id # Nothing /\ p # Nothing /\ id \notin {p.trip_id, planTrip}
  IN /\ detail' = d /\ plan' = p
     /\ planTrip' = IF again THEN id ELSE planTrip
     /\ planReq' = IF again THEN Pending ELSE rest

Arrive(r) ==
  /\ r.ans # Failed
  /\ Followed(r.ans, plan, planReq)
  /\ missing' = FALSE
  /\ polls' = polls \ {r}
  /\ UNCHANGED <<server, stream>>

\* Only the first failure means "not running".
Fail(r) ==
  /\ r.ans = Failed
  /\ missing' = (missing \/ r.initial)
  /\ polls' = polls \ {r}
  /\ UNCHANGED <<server, stream, detail, plan, planTrip, planReq>>

PlanServe ==
  /\ planReq = Pending
  /\ planReq' = IF veh = Nothing THEN Nothing ELSE Plan(veh)
  /\ UNCHANGED <<server, stream, detail, missing, polls, plan, planTrip>>

PlanLost ==
  /\ planReq = Pending
  /\ planReq' = Nothing
  /\ UNCHANGED <<server, stream, detail, missing, polls, plan, planTrip>>

PlanArrive ==
  /\ planReq \notin {Nothing, Pending}
  /\ Followed(detail, planReq, Nothing)
  /\ UNCHANGED <<server, stream, missing, polls>>

Next ==
  \/ Change \/ Reconnect \/ Tick \/ Receive
  \/ Poll \/ Lost \/ (\E r \in polls : Arrive(r) \/ Fail(r))
  \/ PlanServe \/ PlanLost \/ PlanArrive

Spec == Init /\ [][Next]_vars
-----------------------------------------------------------------------------
(* What the page shows at time t; it is rendered again every second.       *)

ViewThawed(t) == vehicleView("IFF", live, detail, plan, FALSE, t)

View(t) == vehicleView("IFF", live, detail, plan, ended, t)

\* The stream is the tie-breaker: a vehicle it brought is live.
NotLive == missing /\ live = Nothing
Identity(t) == VehicleIdentity(View(t), ~ended)
Telemetry(t) == VehicleTelemetry(View(t), t)
Rows(t) == UpcomingStops(View(t), t)

-----------------------------------------------------------------------------
(* Properties.                                                             *)

TypeOK ==
  /\ changes \in 0 .. MaxChanges
  /\ snap \in BOOLEAN /\ ended \in BOOLEAN /\ missing \in BOOLEAN
  /\ Len(net) <= 1 /\ Cardinality(polls) <= MaxPolls
  /\ (live = Nothing) = (entered = Nothing) /\ (live = Nothing) = (heard = Nothing)
  /\ planTrip \in Journeys \cup {Nothing}

\* Over the codec and across the versions of the two sides, the page has what
\* the last frame said of the vehicle and what the last ENTER said of its trip;
\* a delay or a speed that nobody measured stays unknown, and a speed of 0 is
\* one (speed_known, delay_known of ovlive.proto).
LiveIsHeard ==
  live # Nothing =>
    /\ live.lat = heard.lat /\ live.atStop = heard.stopped
    /\ live.delayKnown = (peer # "older" /\ heard.known)
    /\ live.delayKnown => live.delay = heard.delay
    /\ live.speedKmh = IF peer = "older" THEN Nothing ELSE heard.speed
    /\ live.journey = entered.journey /\ live.operator = First(Label(entered, "NS"), "")

\* The badge and the journey that go with a trip.
Labelled(w, v) == w.journeyNumber = v.journey /\ w.line = First(Label(v, v.journey), "")

\* "freeze on the last-known info for this trip": once the trip has ended the
\* place, the speed and the label are those the stream told last, and no answered
\* poll, which may be of the vehicle's next trip, shows through.  The label is
\* the ended trip's if that is still what its ENTER said; a MOVE carries none, so
\* that a journey begun (or a match made) since the ENTER loses its label at the
\* end, and the page falls back to the label of the ENTER.
EndedIsFrozen ==
  ended /\ live # Nothing => \A t \in Nows :
    /\ View(t).lat = heard.lat
    /\ Telemetry(t) = [speed |-> IF peer = "older" THEN Nothing ELSE heard.speed, age |-> Nothing]
    /\ Identity(t).delay = Nothing
    /\ over.journey = entered.journey /\ over.matched = entered.matched => Labelled(View(t), over)
    /\ Labelled(View(t), over) \/ Labelled(View(t), entered)

\* The stop a vehicle stands at is the first one listed and is marked, whatever
\* the timetable says (the first call there, where the trip comes by twice); a
\* stop it is not near is never marked (trip.ts, AT_STOP_RADIUS_M).
StandingListed ==
  live # Nothing /\ plan # Nothing => \A t \in Nows :
    LET rows == Rows(t)
        lat(i) == plan.stops[i].lat
    IN /\ \A i \in DOMAIN plan.stops :
            heard.stopped /\ heard.lat = lat(i) /\ (\A j \in 1 .. (i - 1) : lat(j) # lat(i)) =>
              rows # << >> /\ rows[1].number = i /\ rows[1].current
       /\ \A i \in DOMAIN rows : rows[i].current =>
            heard.stopped /\ distance2(heard.lat, 0, lat(rows[i].number), 0) <= AtStopRadius2

\* A countdown counts to the moment itself, which may be half a day away, over
\* midnight, in the panel and on a departure board that was answered on an
\* earlier day.
Near(secs) == secs \in -HalfDay .. HalfDay - 1
CountdownsExact ==
  live # Nothing /\ plan # Nothing => \A t \in Nows :
    LET rows == Rows(t)
    IN /\ \A i \in DOMAIN rows :
            LET secs == plan.stops[rows[i].number].arrival + live.delay - t
            IN ~rows[i].current /\ Near(secs) => rows[i].eta = etaLabel(secs)
       /\ heard.matched => \A i \in DOMAIN Plans[heard.journey], b \in Nows :
            LET s == Plans[heard.journey][i]
                secs == s.departure + (IF heard.known THEN heard.delay ELSE 0) - t
            IN b <= t /\ Near(secs) => DepartureRow(Departure(heard, s, b), t).eta = etaLabel(secs)

\* Once the stream is quiet the page has the vehicle where it is and tells a
\* running one from one that is not, after any losses of the connection; what
\* the first poll said does not count any more.
QuietIsTrue ==
  net = << >> /\ ~snap /\ sent = (IF veh = Nothing THEN Nothing ELSE Compared(veh)) =>
    /\ ended = (veh = Nothing)
    /\ veh # Nothing => /\ ~NotLive /\ live.lat = veh.lat /\ live.atStop = veh.stopped
                        /\ heard.speed = veh.speed
=============================================================================
