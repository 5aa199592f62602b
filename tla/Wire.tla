-------------------------------- MODULE Wire --------------------------------
(***************************************************************************)
(* The wire contract between the server and its clients: the generated     *)
(* codec (packages/api-types/src/gen/ovlive.js) as far as proto.ts uses    *)
(* it, what the server writes and reads (crates/api/src/convert.rs), and   *)
(* the conversion to the types of the clients (ws.ts).                     *)
(*                                                                         *)
(* An encoded message is a function from field numbers to values; a nested *)
(* message is one of these again, a repeated field a sequence.  A          *)
(* JavaScript object is a function from the names of its own properties.   *)
(* A message is generated from its fields, so each is given by the table   *)
(* of their numbers and the table of their defaults.                       *)
(***************************************************************************)
EXTENDS Integers, Sequences, TLC

CONSTANTS
  Nothing,  \* null, undefined, Option::None
  NaN       \* the number that is none

VehicleTypes == 0 .. 5   \* UNSPECIFIED, BUS, TRAM, METRO, TRAIN, FERRY
KnownTypes == VehicleTypes \ {0}

\* Types of what a client asks for, and of what the server keeps of it.
Viewport == [min_lat : Int, min_lon : Int, max_lat : Int, max_lon : Int, zoom : Int]
Filters == [vehicle_types : Seq(KnownTypes), dataowners : Seq(STRING), search : {""}]
Subscribe == [viewport : Viewport, filters : Filters, pinned : Seq(STRING)]
Subscription ==
  [bbox : [minLat : Int, minLon : Int, maxLat : Int, maxLon : Int],
   filters : [types : SUBSET KnownTypes, owners : SUBSET STRING, search : {""}],
   pinned : Seq(STRING)]

\* Nothing is no value of another kind.  That "" is a string the provers are told.
NothingAssumption ==
  /\ "" \in STRING
  /\ Nothing \notin Int /\ Nothing \notin STRING /\ Nothing \notin BOOLEAN
  /\ Nothing \notin Seq(KnownTypes) /\ Nothing \notin Seq(STRING)
  /\ Nothing \notin Viewport /\ Nothing \notin Filters /\ Nothing \notin Subscribe
  /\ Nothing \notin Subscription
ASSUME NothingAssumption

-----------------------------------------------------------------------------
(* What the generated functions do for one message.                        *)

\* { ...o, ...p }
Spread(o, p) ==
  [f \in DOMAIN o \cup DOMAIN p |-> IF f \in DOMAIN p THEN p[f] ELSE o[f]]

\* encode: the own properties, under their numbers.
Numbered(number, m) ==
  [n \in { number[f] : f \in DOMAIN m } |->
     m[CHOOSE f \in DOMAIN m : number[f] = n]]

\* decode: the fields it knows; reader.skipType passes over the others.
Named(number, w) ==
  [f \in { g \in DOMAIN number : number[g] \in DOMAIN w } |-> w[number[f]]]

\* verify: an own property that is not null must pass the test of its type.
Verified(o, f, Test(_)) == f \in DOMAIN o => (o[f] = Nothing \/ Test(o[f]))

\* fromObject: an absent or null property leaves the field unset.
Set(o) == [f \in { g \in DOMAIN o : o[g] # Nothing } |-> o[f]]

\* toObject with defaults: true.
Filled(default, m) == Spread(default, m)

Each(Op(_), s) == [i \in DOMAIN s |-> Op(s[i])]

\* Repeated fields are written when they have elements.
NonEmpty(m, lists) == [f \in { g \in DOMAIN m : g \in lists => m[g] # << >> } |-> m[f]]

IsNumber(x) == x = NaN \/ x \in Int
IsInteger(x) == x \in Int
IsString(x) == x \in STRING
AllIn(s, Test(_)) == \A i \in DOMAIN s : Test(s[i])

-----------------------------------------------------------------------------
(* Client to server.                                                       *)

ViewportFields == [min_lat |-> 1, min_lon |-> 2, max_lat |-> 3, max_lon |-> 4, zoom |-> 5]
FiltersFields == [vehicle_types |-> 1, dataowners |-> 2, search |-> 3]
SubscribeFields == [viewport |-> 1, filters |-> 2, pinned |-> 3]
UpdateViewportFields == [viewport |-> 1, filters |-> 2, pinned |-> 3]
ClientMessageFields == [subscribe |-> 1, update_viewport |-> 2, ping |-> 3]

VerifyViewport(o) ==
  /\ \A f \in DOMAIN o \ {"zoom"} : Verified(o, f, IsNumber)
  /\ Verified(o, "zoom", IsInteger)

\* An enum value the generated code does not list is refused.
VerifyFilters(o) ==
  /\ Verified(o, "vehicle_types", LAMBDA s : AllIn(s, LAMBDA t : t \in VehicleTypes))
  /\ Verified(o, "dataowners", LAMBDA s : AllIn(s, IsString))
  /\ Verified(o, "search", IsString)

VerifySubscribe(o) ==
  /\ Verified(o, "viewport", VerifyViewport)
  /\ Verified(o, "filters", VerifyFilters)
  /\ Verified(o, "pinned", LAMBDA s : AllIn(s, IsString))

VerifyUpdateViewport(o) ==
  /\ Verified(o, "viewport", VerifyViewport)
  /\ Verified(o, "filters", VerifyFilters)
  /\ Verified(o, "pinned", LAMBDA s : AllIn(s, IsString))

\* payload is a oneof: one of the three.
VerifyClientMessage(o) ==
  /\ \A f, g \in { h \in DOMAIN o : o[h] # Nothing } : f = g
  /\ Verified(o, "subscribe", VerifySubscribe)
  /\ Verified(o, "update_viewport", VerifyUpdateViewport)
  /\ Verified(o, "ping", LAMBDA p : p \in BOOLEAN)

ViewportFromObject(o) == Set(o)
FiltersFromObject(o) == Set(o)
SubscribeFromObject(o) ==
  [f \in DOMAIN Set(o) |-> CASE f = "viewport" -> ViewportFromObject(o[f])
                             [] f = "filters"  -> FiltersFromObject(o[f])
                             [] OTHER          -> o[f]]
UpdateViewportFromObject(o) ==
  [f \in DOMAIN Set(o) |-> CASE f = "viewport" -> ViewportFromObject(o[f])
                             [] f = "filters"  -> FiltersFromObject(o[f])
                             [] OTHER          -> o[f]]
ClientMessageFromObject(o) ==
  [f \in DOMAIN Set(o) |->
     CASE f = "subscribe"       -> SubscribeFromObject(o[f])
       [] f = "update_viewport" -> UpdateViewportFromObject(o[f])
       [] OTHER                 -> o[f]]

EncodeViewport(m) == Numbered(ViewportFields, m)
EncodeFilters(m) == Numbered(FiltersFields, NonEmpty(m, {"vehicle_types", "dataowners"}))
EncodeSubscribe(m) ==
  Numbered(SubscribeFields,
    NonEmpty([f \in DOMAIN m |-> CASE f = "viewport" -> EncodeViewport(m[f])
                                   [] f = "filters"  -> EncodeFilters(m[f])
                                   [] OTHER          -> m[f]], {"pinned"}))
EncodeUpdateViewport(m) ==
  Numbered(UpdateViewportFields,
    NonEmpty([f \in DOMAIN m |-> CASE f = "viewport" -> EncodeViewport(m[f])
                                   [] f = "filters"  -> EncodeFilters(m[f])
                                   [] OTHER          -> m[f]], {"pinned"}))
EncodeClientMessage(m) ==
  Numbered(ClientMessageFields,
    [f \in DOMAIN m |-> CASE f = "subscribe"       -> EncodeSubscribe(m[f])
                          [] f = "update_viewport" -> EncodeUpdateViewport(m[f])
                          [] OTHER                 -> m[f]])

\* encodeClient throws what verify refuses.
Sendable(payload) == VerifyClientMessage(payload)
encodeClient(payload) == EncodeClientMessage(ClientMessageFromObject(payload))

\* ws.ts viewportMsg: the wish of the caller as both requests carry it.
viewportMsg(b, zoom, f, pinned) ==
  [viewport |-> [min_lat |-> b.minLat, min_lon |-> b.minLon, max_lat |-> b.maxLat,
                 max_lon |-> b.maxLon, zoom |-> zoom],
   filters  |-> [vehicle_types |-> f.types, dataowners |-> f.owners, search |-> f.search],
   pinned   |-> pinned]

-----------------------------------------------------------------------------
(* The server reads it (prost, convert.rs, apply_client_msg).              *)

PbViewport(w) ==
  Filled([min_lat |-> 0, min_lon |-> 0, max_lat |-> 0, max_lon |-> 0, zoom |-> 0],
         Named(ViewportFields, w))
PbFilters(w) ==
  Filled([vehicle_types |-> << >>, dataowners |-> << >>, search |-> ""], Named(FiltersFields, w))

BBoxOf(w) ==
  LET v == PbViewport(w)
  IN [minLat |-> v.min_lat, minLon |-> v.min_lon, maxLat |-> v.max_lat, maxLon |-> v.max_lon]

\* Types it cannot name are dropped, UNSPECIFIED among them.
FiltersOf(w) ==
  LET f == PbFilters(w)
  IN [types  |-> { f.vehicle_types[i] : i \in DOMAIN f.vehicle_types } \cap KnownTypes,
      owners |-> { f.dataowners[i] : i \in DOMAIN f.dataowners },
      search |-> f.search]

\* Subscribe replaces the subscription, UpdateViewport changes one.
Subscribed(w, sub) ==
  LET m == Named(ClientMessageFields, w)
      k == CHOOSE f \in DOMAIN m : TRUE
      p == Named(SubscribeFields, m[k])
      wish == [bbox    |-> BBoxOf(p.viewport),
               filters |-> IF "filters" \in DOMAIN p THEN FiltersOf(p.filters)
                           ELSE IF k = "subscribe" THEN [types |-> {}, owners |-> {}, search |-> ""]
                           ELSE sub.filters,
               pinned  |-> IF "pinned" \in DOMAIN p THEN p.pinned ELSE << >>]
  IN IF k = "ping" THEN sub
     ELSE IF "viewport" \notin DOMAIN p THEN sub
     ELSE IF k = "update_viewport" /\ sub = Nothing THEN sub
     ELSE wish

-----------------------------------------------------------------------------
(* Server to client.                                                       *)

VehicleStateFields ==
  [id |-> 1, dataowner |-> 2, vehicle_number |-> 3, line_public_number |-> 4, vehicle_type |-> 5,
   operator_name |-> 6, lat |-> 7, lon |-> 8, bearing |-> 9, delay_seconds |-> 10,
   destination |-> 11, block_code |-> 12, journey_number |-> 13, at_stop |-> 14,
   current_stop_id |-> 15, line_color |-> 16, line_text_color |-> 17, delay_known |-> 21,
   schedule_positioned |-> 22, speed_kmh |-> 23, speed_known |-> 24]

VehicleMoveFields ==
  [id |-> 1, lat |-> 2, lon |-> 3, bearing |-> 4, delay_seconds |-> 5, at_stop |-> 6,
   current_stop_id |-> 7, delay_known |-> 8, schedule_positioned |-> 9, speed_kmh |-> 10,
   speed_known |-> 11]

UpdateFields == [entered |-> 1, moved |-> 2, left |-> 3, is_snapshot |-> 4]
ServerErrorFields == [code |-> 1, message |-> 2]
ServerMessageFields == [update |-> 1, pong |-> 2, error |-> 3]

VehicleStateDefaults ==
  [id |-> "", dataowner |-> "", vehicle_number |-> "", line_public_number |-> "",
   vehicle_type |-> 0, operator_name |-> "", lat |-> 0, lon |-> 0, bearing |-> 0,
   delay_seconds |-> 0, destination |-> "", block_code |-> "", journey_number |-> "",
   at_stop |-> FALSE, current_stop_id |-> "", line_color |-> "", line_text_color |-> "",
   delay_known |-> FALSE, schedule_positioned |-> FALSE, speed_kmh |-> 0, speed_known |-> FALSE]

VehicleMoveDefaults == [f \in DOMAIN VehicleMoveFields |-> VehicleStateDefaults[f]]
UpdateDefaults == [entered |-> << >>, moved |-> << >>, left |-> << >>, is_snapshot |-> FALSE]
ServerErrorDefaults == [code |-> 0, message |-> ""]

OrDefault(x, default) == IF x = Nothing THEN default ELSE x

\* convert.rs to_state and to_move: an Option becomes its default, speed says
\* beside it whether it is one.
to_state(t) ==
  [f \in DOMAIN VehicleStateFields |->
     CASE f = "speed_known" -> t.speed_kmh # Nothing
       [] OTHER -> OrDefault(t[f], VehicleStateDefaults[f])]

to_move(t) ==
  [f \in DOMAIN VehicleMoveFields |->
     CASE f = "speed_known" -> t.speed_kmh # Nothing
       [] OTHER -> OrDefault(t[f], VehicleMoveDefaults[f])]

\* proto3: a field at its default is not written.
PbEncode(number, default, m) ==
  Numbered(number, [f \in { g \in DOMAIN m : m[g] # default[g] } |-> m[f]])

PbUpdate(entered, moved, left, snapshot) ==
  [n \in {1} |-> PbEncode(UpdateFields, UpdateDefaults,
    [entered |-> Each(LAMBDA t : PbEncode(VehicleStateFields, VehicleStateDefaults, to_state(t)), entered),
     moved   |-> Each(LAMBDA t : PbEncode(VehicleMoveFields, VehicleMoveDefaults, to_move(t)), moved),
     left |-> left, is_snapshot |-> snapshot])]

DecodeVehicleState(w) == Named(VehicleStateFields, w)
DecodeVehicleMove(w) == Named(VehicleMoveFields, w)
DecodeServerError(w) == Named(ServerErrorFields, w)
DecodeUpdate(w) ==
  LET m == Named(UpdateFields, w)
  IN [f \in DOMAIN m |-> CASE f = "entered" -> Each(DecodeVehicleState, m[f])
                           [] f = "moved"   -> Each(DecodeVehicleMove, m[f])
                           [] OTHER         -> m[f]]
DecodeServerMessage(w) ==
  LET m == Named(ServerMessageFields, w)
  IN [f \in DOMAIN m |-> CASE f = "update" -> DecodeUpdate(m[f])
                           [] f = "error"  -> DecodeServerError(m[f])
                           [] OTHER        -> m[f]]

VehicleStateObject(m) == Filled(VehicleStateDefaults, m)
VehicleMoveObject(m) == Filled(VehicleMoveDefaults, m)
ServerErrorObject(m) == Filled(ServerErrorDefaults, m)
UpdateObject(m) ==
  LET o == Filled(UpdateDefaults, m)
  IN [o EXCEPT !.entered = Each(VehicleStateObject, @), !.moved = Each(VehicleMoveObject, @)]
\* A oneof has no defaults: what did not come is not there.
ServerMessageObject(m) ==
  [f \in DOMAIN m |-> CASE f = "update" -> UpdateObject(m[f])
                        [] f = "error"  -> ServerErrorObject(m[f])
                        [] OTHER        -> m[f]]

decodeServer(w) == ServerMessageObject(DecodeServerMessage(w))

-----------------------------------------------------------------------------
(* The client's types.                                                     *)

Finite(x) == IF x = NaN THEN Nothing ELSE x

SpeedIfTruthy(m) == IF m.speed_known /\ m.speed_kmh # 0 THEN m.speed_kmh ELSE Nothing

\* Guarded by speed_known: a standing train sends a real 0.
Speed(m) == IF m.speed_known THEN m.speed_kmh ELSE Nothing

toVehicle(s) ==
  [id |-> s.id, dataowner |-> s.dataowner, vehicleNumber |-> s.vehicle_number,
   line |-> s.line_public_number, type |-> s.vehicle_type, operator |-> s.operator_name,
   lat |-> s.lat, lon |-> s.lon, bearing |-> Finite(s.bearing), speedKmh |-> Speed(s),
   delay |-> s.delay_seconds, delayKnown |-> s.delay_known, destination |-> s.destination,
   block |-> s.block_code, journey |-> s.journey_number, atStop |-> s.at_stop,
   currentStopId |-> s.current_stop_id, schedulePositioned |-> s.schedule_positioned,
   lineColor |-> s.line_color, lineTextColor |-> s.line_text_color]

toMove(m) ==
  [id |-> m.id, lat |-> m.lat, lon |-> m.lon, bearing |-> Finite(m.bearing),
   speedKmh |-> Speed(m), delay |-> m.delay_seconds, delayKnown |-> m.delay_known,
   atStop |-> m.at_stop, currentStopId |-> m.current_stop_id,
   schedulePositioned |-> m.schedule_positioned]
=============================================================================
