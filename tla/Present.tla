------------------------------ MODULE Present ------------------------------
(***************************************************************************)
(* What the clients show of a vehicle: the derivations of packages/shared  *)
(* (format.ts, trip.ts, vehicle-view.ts, clock.ts) and what the components *)
(* of both apps render from them.                                          *)
(*                                                                         *)
(* Times are seconds.  The wall clock is read as Dutch local time, on days *)
(* of 24 hours.  Positions are points of a plane, in units of which the    *)
(* squared distance is compared.  An operator's name stands for its        *)
(* spelling without case and without a trailing "(...)".                   *)
(***************************************************************************)
EXTENDS Wire

CONSTANTS
  Brands,        \* BY_ALIAS: the brand a known code or agency name stands for
  AtStopRadius2  \* AT_STOP_RADIUS_M, squared

Day == 86400
HalfDay == 43200

\* x ?? y, and o?.f on an object that may not be there.
First(x, y) == IF x # Nothing THEN x ELSE y
Field(o, f) == IF o = Nothing THEN Nothing ELSE o[f]
\* x ? x : y
Truthy(x) == x # Nothing /\ x # ""

-----------------------------------------------------------------------------
(* format.ts                                                               *)

make(name) == IF name \in DOMAIN Brands THEN Brands[name] ELSE name

\* The brand GTFS names, or else the code of the data owner.
resolveOperator(dataowner, operator) ==
  CASE Truthy(operator)  -> make(operator)
    [] ~Truthy(operator) /\ Truthy(dataowner) -> make(dataowner)
    [] OTHER -> ""

typeKeyOf(t) == IF t \in {"bus", "tram", "metro", "train", "ferry"} THEN t ELSE "vehicle"

Abs(n) == IF n < 0 THEN -n ELSE n

formatDelay(sec, known) ==
  [kind |-> CASE ~known -> "unknown"
              [] known /\ sec = 0 -> "ontime"
              [] known /\ sec > 0 -> "late"
              [] known /\ sec < 0 -> "early",
   mins |-> Abs(sec) \div 60, secs |-> Abs(sec) % 60]

distance2(lat1, lon1, lat2, lon2) ==
  (lat2 - lat1) * (lat2 - lat1) + (lon2 - lon1) * (lon2 - lon1)

\* A vehicle's clock may run ahead of ours.
updateAge(at, now) ==
  LET secs == IF now < at THEN 0 ELSE now - at
  IN [secs |-> secs,
      kind |-> IF secs < 60 THEN "fresh" ELSE IF secs < 180 THEN "aging" ELSE "stale"]

secsSinceMidnightNL(now) == now % Day

etaUnwrapped(scheduled, now) == scheduled - secsSinceMidnightNL(now)

\* The difference, wrapped into half a day either way.
etaSeconds(scheduled, now) ==
  ((scheduled - secsSinceMidnightNL(now) + HalfDay) % Day) - HalfDay

secsToClock(sec) == [h |-> (sec % Day) \div 3600, m |-> ((sec % Day) % 3600) \div 60]

\* clock.ts: Nothing is "now".
etaLabel(secs) ==
  IF secs <= 0 THEN Nothing
  ELSE [h |-> secs \div 3600, m |-> (secs \div 60) % 60, s |-> secs % 60]

-----------------------------------------------------------------------------
(* trip.ts                                                                 *)

expectedTime(scheduled, delay) == scheduled + delay

\* The first of those that are nearest.
nearestStopIndex(stops, lat, lon) ==
  LET d(i) == distance2(lat, lon, stops[i].lat, stops[i].lon)
  IN CHOOSE i \in DOMAIN stops :
       \A j \in DOMAIN stops : d(i) <= d(j) /\ (j < i => d(i) < d(j))

departed(stop, delay, now) == etaSeconds(stop.departure + delay, now) <= 0

upcomingByTime(stops, veh, now) ==
  LET ahead == { i \in DOMAIN stops : ~departed(stops[i], veh.delay, now) }
  IN IF ahead = {} THEN 0 ELSE (CHOOSE i \in ahead : \A j \in ahead : i <= j) - 1

\* How many calls of the trip are behind the vehicle.
upcomingFromIndex(stops, veh, now) ==
  LET ahead == { i \in DOMAIN stops : ~departed(stops[i], veh.delay, now) }
      near  == nearestStopIndex(stops, veh.lat, veh.lon)
  IN CASE stops = << >> -> 0
       [] stops # << >> /\ (veh.lat = Nothing \/ veh.lon = Nothing) ->
            IF ahead = {} THEN 0
            ELSE (CHOOSE i \in ahead : \A j \in ahead : i <= j) - 1
       [] OTHER -> IF veh.atStop \/ near \in ahead THEN near - 1 ELSE near

tripStopFeatures(stops, from) ==
  [i \in DOMAIN stops |-> [stopId |-> stops[i].id, n |-> i, upcoming |-> i > from]]

-----------------------------------------------------------------------------
(* vehicle-view.ts: which source wins per field.                           *)

TypeKeys == <<"bus", "tram", "metro", "train", "ferry">>

vehicleView(owner, basic, detail, trip, ended, now) ==
  LET v == IF ended THEN Nothing ELSE Field(detail, "vehicle")
      Polled(f, g)   == First(Field(v, f), Field(basic, g))
      Streamed(g, f) == First(Field(basic, g), Field(v, f))
      op    == resolveOperator(First(Polled("dataowner", "dataowner"), owner),
                               Polled("operator_name", "operator"))
      color == Polled("line_color", "lineColor")
      delay == First(Streamed("delay", "delay_seconds"), 0)
      d     == formatDelay(delay, First(Streamed("delayKnown", "delay_known"), FALSE))
      lat   == Streamed("lat", "lat")
      lon   == Streamed("lon", "lon")
      reports == First(Streamed("atStop", "at_stop"), FALSE)
      from  == IF trip = Nothing THEN 0
               ELSE upcomingFromIndex(trip.stops,
                      [lat |-> lat, lon |-> lon, atStop |-> reports, delay |-> delay], now)
      stops == IF trip = Nothing THEN << >> ELSE SubSeq(trip.stops, from + 1, Len(trip.stops))
      type  == First(Field(basic, "type"), 0)
  IN [ended |-> ended, op |-> op,
      badge |-> IF Truthy(color) THEN color ELSE op,
      line        |-> First(Polled("line_public_number", "line"), "?"),
      destination |-> First(Polled("destination", "destination"), "-"),
      typeText    |-> IF type # 0 THEN TypeKeys[type] ELSE typeKeyOf(Field(v, "vehicle_type")),
      delay |-> delay, delayKind |-> d.kind,
      speedKmh |-> Streamed("speedKmh", "speed_kmh"),
      operatorName  |-> First(Polled("operator_name", "operator"), ""),
      vehicleNumber |-> First(Polled("vehicle_number", "vehicleNumber"), ""),
      blockCode     |-> First(Polled("block_code", "block"), ""),
      journeyNumber |-> First(Polled("journey_number", "journey"), ""),
      lastUpdate    |-> Field(v, "last_update"),
      lat |-> lat, lon |-> lon,
      atStop |-> /\ reports /\ stops # << >> /\ lat # Nothing /\ lon # Nothing
                 /\ distance2(lat, lon, stops[1].lat, stops[1].lon) <= AtStopRadius2,
      stops |-> stops, upcomingFrom |-> from]

-----------------------------------------------------------------------------
(* What the components render.                                             *)

VehicleIdentity(view, showDelay) ==
  [line |-> view.line, badge |-> view.badge, op |-> view.op, type |-> view.typeText,
   delay |-> IF showDelay THEN view.delayKind ELSE Nothing, destination |-> view.destination]

VehicleMeta(view) ==
  LET cell(s) == IF s = "" THEN "-" ELSE s
  IN <<cell(view.operatorName), cell(view.vehicleNumber),
       cell(view.blockCode), cell(view.journeyNumber)>>

VehicleTelemetry(view, now) ==
  [speed |-> view.speedKmh,
   age   |-> IF view.lastUpdate = Nothing THEN Nothing ELSE updateAge(view.lastUpdate, now)]

clockRange(arrive, depart) == {secsToClock(arrive), secsToClock(depart)}

\* One row per call ahead.
UpcomingStops(view, now) ==
  [i \in DOMAIN view.stops |->
     LET s == view.stops[i]
         current   == view.atStop /\ i = 1
         arrival   == expectedTime(s.arrival, view.delay)
         departure == expectedTime(s.departure, view.delay)
         planned   == clockRange(s.arrival, s.departure)
         expected  == clockRange(arrival, departure)
     IN [number |-> view.upcomingFrom + i, current |-> current,
         eta |-> IF current THEN Nothing ELSE etaLabel(etaSeconds(arrival, now)),
         tone |-> IF planned # expected THEN view.delayKind ELSE "ontime",
         planned |-> planned, expected |-> expected]]

\* A row of the departure board (StopPanel).
DepartureRow(d, now) ==
  LET live     == d.vehicle_id # Nothing
      known    == d.delay_seconds # Nothing
      delay    == formatDelay(First(d.delay_seconds, 0), known)
      planned  == secsToClock(d.scheduled_departure)
      expected == secsToClock(d.expected_departure)
  IN [opens |-> live, op |-> resolveOperator(Field(d, "dataowner"), d.operator),
      line |-> d.line, delay |-> IF live /\ known /\ d.delay_seconds # 0 THEN delay ELSE Nothing,
      eta  |-> etaLabel(etaSeconds(d.expected_departure, now)),
      tone |-> IF live /\ planned # expected /\ known THEN delay.kind ELSE "ontime",
      planned |-> planned, expected |-> expected]
=============================================================================
