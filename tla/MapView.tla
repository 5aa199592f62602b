------------------------------ MODULE MapView ------------------------------
(***************************************************************************)
(* The live map: MapView.tsx of the web app and LiveMap.tsx of the mobile  *)
(* one, with the settings that drive it.  It is told of the fleet by the   *)
(* stream and of the stops by REST, of the selection by the screen around  *)
(* it, and of the camera by the map library, in any order.                 *)
(*                                                                         *)
(* The web app builds its layers by hand: they are gone when the basemap   *)
(* is replaced, and come back when the new style is loaded; until then a   *)
(* push has nowhere to go.  The mobile app declares them.                  *)
(*                                                                         *)
(* The map is a line of places.  A camera looks at the places next to its  *)
(* own, and is near (zoomed to where stops are shown) or far.              *)
(***************************************************************************)
EXTENDS Present, Prefs

CONSTANTS
  Vehicles, Labels,  \* vehicles, and what their markers may say
  Places,            \* where they may be, and be said to be
  Cameras,           \* where the camera is taken
  Calls,             \* the trip plan of a selected vehicle
  Now,               \* the time of day
  Stops,             \* places of the stops of the country
  Limit,             \* STOPS_LIMIT
  Home,              \* NL_CENTER
  Disks,             \* what may be stored when the program starts
  MaxActs            \* bound on what user, stream and network do

View == [at : Int, near : BOOLEAN]
KeptFilters == [types : Seq(KnownTypes), owners : Seq(ValidOwners)]

\* Nothing is no value of another kind; what is stored is what could be parsed,
\* or Nothing under its key.
ConstantsAssumption ==
  /\ Nothing \notin View /\ Nothing \notin Int \X Int
  /\ Nothing \notin {"failed", "overtaken"} /\ Nothing \notin KeptFilters
  /\ Vehicles \subseteq STRING /\ Operators \subseteq ValidOwners
  /\ Home \in Int /\ Cameras \subseteq Int /\ Places \subseteq Int
  /\ Stops \subseteq Int /\ IsFiniteSet(Stops) /\ Limit \in Nat
  /\ \A d \in Disks :
       /\ DOMAIN d = {"theme", "lang", "stops", "numbers", "multi", "filters", "view"}
       /\ d.view = Nothing \/ d.view \in View
       /\ d.filters # Nothing => /\ d.filters.types = Nothing \/ d.filters.types \in Seq(Int)
                                 /\ d.filters.owners = Nothing \/ d.filters.owners \in Seq(STRING)
ASSUME ConstantsAssumption

VARIABLES
  online, wish, sub,                   \* LiveClient, and the Subscription it has
  at, finger, moved, view, flown,      \* the camera; a gesture moves it; it has not settled; where
                                       \* it did last; it was sent away from what it follows
  active, selected, isolate, following, stopId, plan,  \* props
  fleet, dirty,                        \* vehiclesRef and featuresRef; a flush is due
  base, drawn, images, upcomingFrom,   \* the basemap, what is on it, and its images
  stops, box, req, gap,                \* the stop layer; why stops of the view may be missing
  acts

stream == <<online, wish, sub>>
camera == <<at, finger, moved, view, flown>>
props == <<active, selected, isolate, following, stopId, plan>>
canvas == <<base, drawn, images, upcomingFrom>>
stopLayer == <<stops, box, req, gap>>
vars == <<prefs, stream, camera, props, fleet, dirty, canvas, stopLayer, acts>>

Act == acts < MaxActs /\ acts' = acts + 1

-----------------------------------------------------------------------------
(* Boxes, as the places of their ends.                                     *)

boundsToBBox(v) == <<v.at - 1, v.at + 1>>
padBBox(b) == <<b[1] - 1, b[2] + 1>>
covers(have, v) == have # Nothing /\ have[1] <= v[1] /\ have[2] >= v[2]
StopsIn(b) == Stops \cap (b[1] .. b[2])

-----------------------------------------------------------------------------
(* What is drawn of a vehicle and of its trip.                             *)

\* A marker says its operator and its line; its icon was baked from these for a
\* tone of the basemap.
markerId(label, tone, ring) == [label |-> label, dark |-> tone, ring |-> ring]
vehicleFeature(label, p, tone) == [label |-> label, at |-> p, dark |-> web /\ tone]

Fresh == [v \in Vehicles |-> Nothing]
Known(f) == { v \in Vehicles : f[v] # Nothing }

\* On the web a feature names its icon; on the mobile map the layer does, by the
\* tone of the app.
Icon(f, tone, ring) == markerId(f.label, IF web THEN f.dark ELSE tone, ring)
Icons(f, tone) == { Icon(f[v], tone, FALSE) : v \in Known(f) }
RingIcons(f, ids, tone) == { Icon(f[v], tone, TRUE) : v \in Known(f) \cap ids }

\* Which call the vehicle is heading for, from its live frame.
currentUpcomingFrom(id, p, f) ==
  LET v == IF id \in Vehicles THEN f[id] ELSE Nothing
  IN upcomingFromIndex(p, [lat |-> IF v = Nothing THEN Nothing ELSE 0, lon |-> Field(v, "at"),
                           atStop |-> FALSE, delay |-> 0], Now)

-----------------------------------------------------------------------------
(* The layers; drawn is Nothing while the web map has none.  The mobile    *)
(* map declares what the web map sets on its layers one by one: Declared.  *)
(* The selected markers are on layers of their own, ring; the screen has   *)
(* rendered since these were made, ringed.                                 *)

Isolated(on, ids) == IF on /\ ids # {} THEN ids ELSE Vehicles

Declared(s, halo, on, ids) ==
  [stops |-> s.stops, halo |-> halo, numbers |-> s.numbers, shown |-> Isolated(on, ids)]

\* The selected layers are made with the selection of the first render, when
\* there was none: the style.load handler holds that closure.
ensureLayers ==
  LET from == currentUpcomingFrom(active, plan, fleet)
  IN /\ drawn' = [layers |-> Declared(ui, stopId, isolate, ToSet(selected)), ring |-> {}, ringed |-> FALSE,
                  route |-> plan # << >>, vehicles |-> fleet, trip |-> tripStopFeatures(plan, from)]
     /\ upcomingFrom' = from
     /\ images' = Icons(fleet, dark) \cup RingIcons(fleet, ToSet(selected), dark)

\* The selection on the layers.
Highlighted(d, on, ids) ==
  IF d = Nothing THEN Nothing
  ELSE [d EXCEPT !.ring = ids, !.ringed = TRUE, !.layers.shown = Isolated(on, ids)]

\* The ringed icons of a new selection: of the vehicles as they are on the web,
\* as they are drawn on the mobile map.
Ringed(ids, f) ==
  IF drawn = Nothing THEN images
  ELSE images \cup RingIcons(IF web THEN f ELSE drawn.vehicles, ids, dark)

\* Every render of the screen sets the selection once more, as selectedIds is
\* another array each time.  Those for what is not modelled (the count, a poll, a
\* search) are left out.
Rendered == Highlighted(drawn, isolate, ToSet(selected))
Rerender == drawn' = Rendered /\ images' = Ringed(ToSet(selected), fleet)

\* pushRoute, pushTripStops: nowhere to push to without a source.
TripPushed(d, id, p, f) ==
  LET from == currentUpcomingFrom(id, p, f)
  IN IF d = Nothing THEN drawn' = Nothing /\ UNCHANGED upcomingFrom
     ELSE /\ drawn' = [d EXCEPT !.trip = tripStopFeatures(p, from), !.route = p # << >>]
          /\ upcomingFrom' = from

\* The trip is pushed again when the vehicle has come to another of its calls.
AdvancedNever(d) == drawn' = d /\ UNCHANGED upcomingFrom
Advanced(d) ==
  IF currentUpcomingFrom(active, plan, fleet) # upcomingFrom
  THEN TripPushed(d, active, plan, fleet) ELSE drawn' = d /\ UNCHANGED upcomingFrom

\* One property of the layers, set by the effect of its setting.
LayerSet(k, x) ==
  /\ drawn' = IF drawn = Nothing THEN Nothing ELSE [Rendered EXCEPT !.layers[k] = x]
  /\ images' = Ringed(ToSet(selected), fleet)

-----------------------------------------------------------------------------
Init ==
  /\ PrefsInit(Disks) /\ acts = 0
  /\ online = FALSE /\ sub = Nothing
  /\ at = getSavedView(disk.view, [at |-> Home, near |-> FALSE])
  /\ finger = FALSE /\ flown = FALSE /\ moved = ~web
  \* The mobile map knows its view when the library tells it, and guesses a box.
  /\ view = IF web THEN at ELSE Nothing
  /\ wish = Wish(IF web THEN boundsToBBox(at) ELSE <<at.at, at.at>>, at.near, << >>)
  /\ active = Nothing /\ selected = << >> /\ isolate = FALSE /\ following = FALSE
  /\ stopId = Nothing /\ plan = << >>
  /\ fleet = Fresh /\ dirty = FALSE
  /\ base = [dark |-> dark, loaded |-> ~web] /\ images = {} /\ upcomingFrom = -1
  /\ drawn = IF web THEN Nothing
             ELSE [layers |-> Declared(ui, Nothing, FALSE, {}), ring |-> {}, ringed |-> TRUE,
                   route |-> FALSE, vehicles |-> Fresh, trip |-> << >>]
  /\ stops = {} /\ box = Nothing /\ req = Nothing /\ gap = Nothing

-----------------------------------------------------------------------------
(* The camera.                                                             *)

centerOn(p) == at' = [at EXCEPT !.at = p] /\ moved' = TRUE /\ flown' = FALSE
Still == UNCHANGED <<at, moved, flown>>

\* Following (re-)activates for a selection: recentre.
Reattached(id, on) ==
  IF on /\ id # Nothing /\ <<id, on>> # <<active, following>> /\ fleet[id] # Nothing
  THEN centerOn(fleet[id].at) ELSE Still

Ask(w) ==
  /\ wish' = w
  /\ sub' = IF online THEN Heard([update_viewport |-> viewportOf(w)], sub) ELSE sub
  /\ UNCHANGED online

loadStops(on, v) ==
  LET b == boundsToBBox(v)
  IN IF ~on \/ ~v.near \/ covers(box, b) THEN UNCHANGED stopLayer
     ELSE /\ req' = padBBox(b) /\ gap' = Nothing   \* the request under way is aborted
          /\ UNCHANGED <<stops, box>>

resync(v) ==
  /\ view' = v
  /\ Ask(Wish(boundsToBBox(v), v.near, wish.pins))
  /\ disk' = Saved("view", v)
  /\ loadStops(ui.stops, v)

\* The user takes the camera elsewhere: on the web that ends following.
Drag(p, near) ==
  /\ Act /\ [at |-> p, near |-> near] # at
  /\ at' = [at |-> p, near |-> near] /\ finger' = TRUE /\ moved' = TRUE
  /\ following' = (following /\ ~web)
  /\ IF web /\ following THEN Rerender ELSE UNCHANGED <<drawn, images>>
  /\ UNCHANGED <<prefs, stream, view, flown, active, selected, isolate, stopId, plan, fleet,
                 dirty, base, upcomingFrom, stopLayer>>

SettleThere ==
  /\ moved
  /\ resync(at)
  /\ finger' = FALSE /\ moved' = FALSE
  /\ UNCHANGED <<web, ui, full, chips, at, flown, props, fleet, dirty, canvas, acts>>

\* moveend, onRegionDidChange: on the mobile map a vehicle that is followed comes
\* back when the finger lets go.
Settle ==
  /\ moved
  /\ resync(at)
  /\ finger' = FALSE
  /\ IF ~web /\ finger /\ following /\ active # Nothing /\ fleet[active] # Nothing
     THEN centerOn(fleet[active].at) ELSE moved' = FALSE /\ UNCHANGED <<at, flown>>
  /\ UNCHANGED <<web, ui, full, chips, props, fleet, dirty, canvas, acts>>

\* locate, and the flight to a linked vehicle once its detail has come.
Fly(p) ==
  /\ Act /\ ~finger
  /\ at' = [at |-> p, near |-> TRUE] /\ moved' = TRUE /\ flown' = TRUE
  /\ UNCHANGED <<prefs, stream, finger, view, props, fleet, dirty, canvas, stopLayer>>

-----------------------------------------------------------------------------
(* What the screen around the map makes of the user's choices.             *)

\* The selected vehicles, the active one, isolation, following, the open stop;
\* the selection is pinned, and a plan is of the active vehicle.
Choose(ids, id, on, follow, stop) ==
  LET p == IF id = active THEN plan ELSE << >>
      d == Highlighted(drawn, on, ToSet(ids))
      h == IF d = Nothing THEN Nothing
           ELSE [d EXCEPT !.layers.halo = stop]
  IN /\ selected' = ids /\ active' = id /\ isolate' = on /\ following' = follow
     /\ stopId' = stop /\ plan' = p
     /\ images' = Ringed(ToSet(ids), fleet)
     /\ IF id = active THEN drawn' = h /\ UNCHANGED upcomingFrom ELSE TripPushed(h, id, p, fleet)
     /\ Ask([wish EXCEPT !.pins = ids])
     /\ UNCHANGED <<finger, view, fleet, dirty, base, stopLayer>>

Show(ids, id, on, follow, stop) == Choose(ids, id, on, follow, stop) /\ UNCHANGED prefs

\* Without multi-select the vehicle takes the place of the selection.  That a
\* ninth drops the first is in Selection.
selectVehicle(v) ==
  LET ids == IF ~ui.multi THEN <<v>>
             ELSE IF Contains(selected, v) THEN selected ELSE Append(selected, v)
  IN Show(ids, v, isolate, TRUE, Nothing)

\* A marker is picked, which may have left meanwhile.
Pick(v) ==
  /\ Act /\ ~finger /\ drawn # Nothing
  /\ drawn.vehicles[v] # Nothing /\ v \in drawn.layers.shown
  /\ selectVehicle(v)
  /\ IF fleet[v] # Nothing THEN centerOn(fleet[v].at) ELSE Still

\* A search hit or a departure: the camera goes where the vehicle was said to be.
Open(v, p) ==
  /\ Act /\ ~finger
  /\ selectVehicle(v)
  /\ IF (v # active \/ ~following) /\ fleet[v] # Nothing THEN centerOn(fleet[v].at)
     ELSE at' = [at EXCEPT !.at = p] /\ moved' = TRUE /\ flown' = TRUE

closeTab(v) ==
  /\ Act
  /\ \E i \in DOMAIN selected :
       /\ selected[i] = v
       /\ LET rest == RemoveAt(selected, i)
              id == CASE v # active -> active
                      [] v = active /\ rest = << >> -> Nothing
                      [] OTHER -> rest[IF i <= Len(rest) THEN i ELSE Len(rest)]
          IN Show(rest, id, isolate, following, stopId) /\ Reattached(id, following)

closeAll == Act /\ selected # << >> /\ Show(<< >>, Nothing, FALSE, following, stopId) /\ Still

toggleIsolate ==
  Act /\ active # Nothing /\ Show(selected, active, ~isolate, following, stopId) /\ Still

\* On the mobile map the button also ends following.
follow ==
  /\ Act /\ active # Nothing /\ (following => ~web)
  /\ Show(selected, active, isolate, ~following, stopId)
  /\ Reattached(active, ~following)

openStop(p) ==
  /\ Act /\ ~finger /\ p \in stops /\ drawn # Nothing /\ drawn.layers.stops /\ at.near
  /\ Show(selected, active, isolate, FALSE, p)
  /\ centerOn(p)

closeStop == Act /\ stopId # Nothing /\ Show(selected, active, isolate, following, Nothing) /\ Still

\* The plan of the active vehicle comes, of which the map gets shape and calls.
PlanArrives ==
  /\ Act /\ active # Nothing /\ plan = << >>
  /\ plan' = Calls
  /\ TripPushed(Rendered, active, Calls, fleet)
  /\ images' = Ringed(ToSet(selected), fleet)
  /\ UNCHANGED <<prefs, stream, camera, active, selected, isolate, following, stopId, fleet,
                 dirty, base, stopLayer>>

-----------------------------------------------------------------------------
(* The settings.                                                           *)

\* The effect that replaces the basemap asks for a loaded style, which it is
\* not while anything loads.  All that was drawn goes with the old style; the
\* markers are re-keyed before.
Theme(t, busy) ==
  LET tone == t \in DarkThemes
  IN /\ setTheme(t)
     /\ IF ~web THEN
          /\ images' = images \cup Icons(drawn.vehicles, tone)
                               \cup RingIcons(drawn.vehicles, ToSet(selected), tone)
          /\ base' = [base EXCEPT !.dark = tone]
          /\ UNCHANGED <<fleet, drawn>>
        ELSE IF ~base.loaded \/ busy THEN
          /\ Rerender
          /\ UNCHANGED <<fleet, base>>
        ELSE
          /\ fleet' = [v \in Vehicles |-> IF fleet[v] = Nothing THEN Nothing
                                           ELSE [fleet[v] EXCEPT !.dark = tone]]
          /\ base' = [dark |-> tone, loaded |-> FALSE]
          /\ drawn' = Nothing /\ images' = {}
     /\ UNCHANGED <<stream, camera, props, dirty, upcomingFrom, stopLayer>>

\* style.load.
StyleLoad ==
  /\ ~base.loaded
  /\ base' = [base EXCEPT !.loaded = TRUE]
  /\ ensureLayers
  /\ resync(at)
  /\ UNCHANGED <<web, ui, full, chips, at, finger, moved, flown, props, fleet, dirty, acts>>

\* On the mobile map loadStops has the last view, if there is one.
ShowStops ==
  /\ setFlag("stops") /\ LayerSet("stops", ~ui.stops)
  /\ IF web THEN loadStops(~ui.stops, at)
     ELSE IF view # Nothing THEN loadStops(~ui.stops, view) ELSE UNCHANGED stopLayer
  /\ UNCHANGED <<stream, camera, props, fleet, dirty, base, upcomingFrom>>

StopNumbers ==
  /\ setFlag("numbers") /\ LayerSet("numbers", ~ui.numbers)
  /\ UNCHANGED <<stream, camera, props, fleet, dirty, base, upcomingFrom, stopLayer>>

\* The filters go to the server with the view, if that is known.
Filter ==
  /\ (\E t \in KnownTypes : toggleType(t)) \/ (\E o \in chips : toggleOwner(o))
  /\ IF web THEN Ask([Wish(boundsToBBox(at), at.near, wish.pins) EXCEPT !.filters = ui'.filters])
     ELSE IF view # Nothing
     THEN Ask([Wish(boundsToBBox(view), view.near, wish.pins) EXCEPT !.filters = ui'.filters])
     ELSE UNCHANGED stream
  /\ Rerender
  /\ UNCHANGED <<camera, props, fleet, dirty, base, upcomingFrom, stopLayer>>

\* Leaving multi-select leaves the active vehicle selected.
Multi ==
  /\ setFlag("multi")
  /\ Choose(IF ui.multi /\ active # Nothing THEN <<active>> ELSE selected,
            active, isolate, following, stopId)
  /\ Still

Elsewhere ==
  /\ (\E l \in Langs : setLang(l)) \/ OperatorsArrive
  /\ Rerender
  /\ UNCHANGED <<stream, camera, props, fleet, dirty, base, upcomingFrom, stopLayer>>

Settings ==
  /\ Act
  /\ \/ \E t \in Themes, b \in BOOLEAN : Theme(t, b)
     \/ ShowStops \/ StopNumbers \/ Filter \/ Multi \/ Elsewhere
-----------------------------------------------------------------------------
(* The stream.                                                             *)

\* onopen.  The screen shows the status.
SocketOpen ==
  /\ ~online /\ online' = TRUE
  /\ sub' = Heard([subscribe |-> viewportOf(wish)], Nothing)
  /\ Rerender
  /\ UNCHANGED <<prefs, wish, camera, props, fleet, dirty, base, upcomingFrom, stopLayer, acts>>

SocketLost ==
  /\ Act /\ online /\ online' = FALSE /\ sub' = Nothing
  /\ Rerender
  /\ UNCHANGED <<prefs, wish, camera, props, fleet, dirty, base, upcomingFrom, stopLayer>>

\* onUpdate, VehicleStore.apply: the vehicles are f after the frame, entered and
\* gone those it reports.  The screen hears of the selected ones, and renders.
onUpdate(f, entered, gone) ==
  /\ Act /\ online
  /\ fleet' = f /\ dirty' = TRUE
  /\ following' = (following /\ active \notin gone)
  /\ IF (entered \cup gone) \cap ToSet(selected) = {} THEN UNCHANGED <<drawn, images>>
     ELSE drawn' = Rendered /\ images' = Ringed(ToSet(selected), f)
  /\ UNCHANGED <<prefs, stream, camera, active, selected, isolate, stopId, plan,
                 base, upcomingFrom, stopLayer>>

Entering(v, l, p) == onUpdate([fleet EXCEPT ![v] = vehicleFeature(l, p, dark)], {v}, {})
Moving(v, p) ==
  /\ fleet[v] # Nothing /\ p # fleet[v].at
  /\ onUpdate([fleet EXCEPT ![v].at = p], {}, {})
Leaving(v) == fleet[v] # Nothing /\ onUpdate([fleet EXCEPT ![v] = Nothing], {}, {v})
Snapshot(vs, l, p) ==
  onUpdate([v \in Vehicles |-> IF v \in vs THEN vehicleFeature(l, p, dark) ELSE Nothing],
           vs, Vehicles \ vs)

Frame ==
  \/ \E v \in Vehicles, p \in Places : Moving(v, p) \/ (\E l \in Labels : Entering(v, l, p))
  \/ \E v \in Vehicles : Leaving(v)
  \/ \E vs \in SUBSET Vehicles, p \in Places, l \in Labels : Snapshot(vs, l, p)

\* pushData.
Pushed(d) == IF d = Nothing THEN Nothing ELSE [d EXCEPT !.vehicles = fleet]

\* scheduleFlush and onFlush, once for any number of frames.  The screen is told
\* of the active vehicle, and renders.
Flush ==
  LET ids == ToSet(selected)
      shows == active # Nothing /\ fleet[active] # Nothing
      d == IF shows THEN Highlighted(Pushed(drawn), isolate, ids) ELSE Pushed(drawn)
  IN /\ dirty /\ dirty' = FALSE
     /\ images' = IF drawn = Nothing THEN images
                  ELSE images \cup Icons(fleet, dark) \cup RingIcons(fleet, ids, dark)
     /\ Advanced(d)
     /\ IF shows /\ following /\ (web \/ ~finger) THEN centerOn(fleet[active].at) ELSE Still
     /\ UNCHANGED <<prefs, stream, finger, view, props, fleet, base, stopLayer, acts>>

-----------------------------------------------------------------------------
(* The stops.                                                              *)

Distance(p, q) == Abs(p - q)

\* At most Limit stops, those nearest to the centre of the box.
Nearest(b, ps) ==
  LET middle == (b[1] + b[2]) \div 2
  IN /\ ps \subseteq StopsIn(b)
     /\ Cardinality(ps) = Min({Cardinality(StopsIn(b)), Limit})
     /\ \A p \in ps, q \in StopsIn(b) \ ps : Distance(p, middle) <= Distance(q, middle)

\* An answer to a request that is no longer for this view, as the user is back
\* in the box it was to replace.
Overtaken(b) ==
  /\ view # Nothing /\ covers(box, boundsToBBox(view)) /\ ~covers(b, boundsToBBox(view))

StopsAnswerCovers ==
  /\ req # Nothing /\ req' = Nothing /\ box' = req
  /\ \E ps \in SUBSET StopsIn(req) : Nearest(req, ps) /\ stops' = ps
  /\ gap' = IF Overtaken(box') THEN "overtaken" ELSE gap
  /\ UNCHANGED <<prefs, stream, camera, props, fleet, dirty, canvas, acts>>

\* An answer as long as the limit counts as truncated, and does not cover its box.
StopsAnswer ==
  /\ req # Nothing /\ req' = Nothing
  /\ \E ps \in SUBSET StopsIn(req) : Nearest(req, ps) /\ stops' = ps
  /\ box' = IF Cardinality(stops') >= Limit THEN Nothing ELSE req
  /\ gap' = IF Overtaken(box') THEN "overtaken" ELSE gap
  /\ UNCHANGED <<prefs, stream, camera, props, fleet, dirty, canvas, acts>>

\* What was drawn stays.
StopsFail ==
  /\ Act /\ req # Nothing /\ req' = Nothing
  /\ gap' = "failed"
  /\ UNCHANGED <<prefs, stream, camera, props, fleet, dirty, canvas, stops, box>>

-----------------------------------------------------------------------------
User ==
  \/ \E p \in Cameras, near \in BOOLEAN : Drag(p, near)
  \/ \E p \in Places : Fly(p) \/ (\E v \in Vehicles : Open(v, p))
  \/ \E p \in Stops : openStop(p)
  \/ \E v \in Vehicles : Pick(v) \/ closeTab(v)
  \/ closeAll \/ toggleIsolate \/ follow \/ closeStop

Next ==
  \/ User \/ Settings \/ PlanArrives \/ Frame \/ SocketOpen \/ SocketLost
  \/ Settle \/ StyleLoad \/ Flush \/ StopsAnswer \/ StopsFail

Spec == Init /\ [][Next]_vars
-----------------------------------------------------------------------------
(* Properties.                                                             *)

Settled == ~moved

TypeOK ==
  /\ web \in BOOLEAN /\ full \in BOOLEAN /\ online \in BOOLEAN /\ dirty \in BOOLEAN
  /\ chips \subseteq Operators /\ acts \in 0 .. MaxActs
  /\ stops \subseteq Stops /\ gap \in {Nothing, "failed", "overtaken"}
  /\ ToSet(selected) \subseteq Vehicles
  /\ IF selected = << >> THEN active = Nothing ELSE active \in ToSet(selected)
  /\ (drawn = Nothing) = ~base.loaded

\* Where the camera rests, the server filters by what the chips show, for the
\* view on the screen and the vehicles selected, whatever the store held at the
\* start and however often the socket was lost ("a stale or hand-edited value
\* must not reach the WS viewport message").
HeardIsWished ==
  online /\ Settled =>
    /\ sub # Nothing /\ FiltersHeard(sub)
    /\ sub.bbox = BBox(boundsToBBox(view)) /\ sub.pinned = selected

\* Once a flush is done the map shows the vehicles the stream left it with, the
\* trip's calls as far as the active one has come, and its markers have their
\* icons; its layers always are as the settings and the selection say, through
\* any replacement of the basemap.  The selected markers are drawn again from the
\* first render after it: the handler that makes their layers has the selection
\* of when the page was opened, which was none.
DrawnIsCurrent ==
  drawn # Nothing =>
    /\ drawn.layers = Declared(ui, stopId, isolate, ToSet(selected))
    /\ drawn.ring = IF drawn.ringed THEN ToSet(selected) ELSE {}
    /\ drawn.route = (plan # << >>)
    /\ ~dirty =>
         /\ drawn.vehicles = fleet
         /\ drawn.trip = tripStopFeatures(plan, currentUpcomingFrom(active, plan, fleet))
         /\ Icons(fleet, dark) \cup RingIcons(fleet, drawn.ring, dark) \subseteq images

\* The stops of a near view are drawn once its request is answered, or the
\* nearest of them if there are too many.  Left out are a failure, and the
\* answer to an older request that covers(...) did not abort.
StopsOfView ==
  drawn # Nothing /\ ui.stops /\ Settled /\ view.near /\ req = Nothing /\ gap = Nothing =>
    LET b == boundsToBBox(view)
    IN StopsIn(b) \subseteq stops \/ Nearest(padBBox(b), stops)

\* A vehicle that is followed is in the middle once a flush is done, however it
\* was moved and whoever moved the camera; only a flight elsewhere lasts until
\* the next one.
FollowedIsCentred ==
  following /\ ~dirty /\ Settled /\ ~flown /\ active # Nothing =>
    (fleet[active] # Nothing => at.at = fleet[active].at)

\* "Theme change -> swap style, then re-add layers + data": the basemap has the
\* tone of the theme.
BasemapIsThemed == base.loaded => base.dark = dark
=============================================================================
