--------------------------- MODULE MapViewProofs ---------------------------
(***************************************************************************)
(* Proofs about MapView, for any vehicles, places, stops, settings and     *)
(* stores, and any number of acts.                                         *)
(*                                                                         *)
(* Two parts of the state are invariant by themselves.  Centred: a         *)
(* followed vehicle is in the middle unless a flush is due, the camera was *)
(* sent elsewhere, or a finger holds the mobile map; whether the camera    *)
(* has settled has no part in it.  Drawing: what is on the basemap agrees  *)
(* with settings, selection and plan at any time, and with the fleet       *)
(* unless a flush is due.                                                  *)
(*                                                                         *)
(* The rest builds on them.  Placed: the camera at rest is where the view  *)
(* was taken.  Covered: what a near view needs is answered or asked for.   *)
(* Stored: what the store has reads as the settings.  Wished: the wish is  *)
(* of settings, selection and view, and the server has it.                 *)
(***************************************************************************)
EXTENDS MapView, SequenceTheorems, FiniteSetTheorems, WellFoundedInduction, TLAPS

\* The records that EXCEPT takes apart.
At(c) == c = [at |-> c.at, near |-> c.near]
Ui(u) == u = [theme |-> u.theme, lang |-> u.lang, stops |-> u.stops, numbers |-> u.numbers,
              multi |-> u.multi, filters |-> u.filters]
Feature(f) == f = [label |-> f.label, at |-> f.at, dark |-> f.dark]
Fleet(f) == /\ f = [v \in Vehicles |-> f[v]]
            /\ \A v \in Vehicles : f[v] # Nothing => Feature(f[v])

Typed ==
  /\ At(at) /\ Ui(ui) /\ Fleet(fleet)
  /\ selected \in Seq(Vehicles) /\ active \in Vehicles \cup {Nothing}

Centred ==
  /\ finger => moved
  /\ following /\ ~dirty /\ ~flown /\ (web \/ ~finger) =>
       (active # Nothing /\ fleet[active] # Nothing => at.at = fleet[active].at)

Canvas(l, r, n, o, v, t) ==
  [layers |-> l, ring |-> r, ringed |-> n, route |-> o, vehicles |-> v, trip |-> t]

\* What is drawn of settings u, halo, isolation, selection and plan; how far the
\* trip has come is what it was when it was pushed.
Fits(d, u, halo, on, ids, p, from) ==
  /\ d = Canvas(Declared(u, halo, on, ids), d.ring, d.ringed, p # << >>, d.vehicles,
                tripStopFeatures(p, from))
  /\ d.ring = (IF d.ringed THEN ids ELSE {})

\* What is drawn is of the fleet f, and has its icons.
Current(d, ids, id, p, f, tone, im) ==
  /\ d.vehicles = f
  /\ d.trip = tripStopFeatures(p, currentUpcomingFrom(id, p, f))
  /\ Icons(f, tone) \subseteq im /\ RingIcons(f, ids, tone) \subseteq im

Drawing ==
  drawn # Nothing =>
    /\ Fits(drawn, ui, stopId, isolate, ToSet(selected), plan, upcomingFrom)
    /\ ~dirty => Current(drawn, ToSet(selected), active, plan, fleet, dark, images)

Inv == Typed /\ Centred /\ Drawing

\* The changes the actions make to what is drawn.
Haloed(d, halo) == [d EXCEPT !.layers.halo = halo]
TripOn(d, q, n) == [d EXCEPT !.trip = tripStopFeatures(q, n), !.route = q # << >>]
VehiclesOn(d, f) == [d EXCEPT !.vehicles = f]
LayerOn(d, k, x) == [d EXCEPT !.layers[k] = x]

-----------------------------------------------------------------------------
(* The parts.                                                              *)

\* The selection set once more.
LEMMA HighlightedFits ==
  ASSUME NEW d, d # Nothing, NEW u, NEW halo, NEW on, NEW ids, NEW p, NEW from,
         Fits(d, u, halo, on, ids, p, from), NEW on2, NEW ids2
  PROVE  /\ Fits(Highlighted(d, on2, ids2), u, halo, on2, ids2, p, from)
         /\ Highlighted(d, on2, ids2).vehicles = d.vehicles
         /\ Highlighted(d, on2, ids2).trip = d.trip
<1> DEFINE l == Declared(u, halo, on, ids)
           m == Declared(u, halo, on2, ids2)
           t == tripStopFeatures(p, from)
           o == p # << >>
           r == d.ring
           n == d.ringed
           v == d.vehicles
           x == Isolated(on2, ids2)
           yes == TRUE
           e == [d EXCEPT !.ring = ids2]
           f == [e EXCEPT !.ringed = yes]
           h == Highlighted(d, on2, ids2)
<1>1. [l EXCEPT !.shown = x] = m BY DEF Declared
<1>2. h = [f EXCEPT !.layers.shown = x] BY DEF Highlighted
<1>3. d = Canvas(l, r, n, o, v, t) BY DEF Fits
<1> HIDE DEF l, m, t, o, r, n, v, x, yes, h
<1>4. e = Canvas(l, ids2, n, o, v, t) BY <1>3 DEF Canvas
<1> HIDE DEF e
<1>5. f = Canvas(l, ids2, yes, o, v, t) BY <1>4 DEF Canvas
<1> HIDE DEF f
<1>6. [f EXCEPT !.layers.shown = x] = Canvas([l EXCEPT !.shown = x], ids2, yes, o, v, t)
  BY <1>5 DEF Canvas
<1>7. h = Canvas(m, ids2, yes, o, v, t) BY <1>1, <1>2, <1>6
<1>8. d.trip = t /\ d.vehicles = v BY <1>3 DEF Canvas
<1>9. ids2 = (IF yes THEN ids2 ELSE {}) BY DEF yes
<1>10. Fits(h, u, halo, on2, ids2, p, from) /\ h.vehicles = v /\ h.trip = t
  <2>1. h.ring = ids2 /\ h.ringed = yes /\ h.vehicles = v /\ h.trip = t BY <1>7 DEF Canvas
  <2>2. h = Canvas(m, h.ring, h.ringed, o, h.vehicles, t) BY <1>7, <2>1
  <2>3. h.ring = (IF h.ringed THEN ids2 ELSE {}) BY <1>9, <2>1
  <2>4. Fits(h, u, halo, on2, ids2, p, from) BY <2>2, <2>3 DEF Fits, m, t, o
  <2> QED BY <2>1, <2>4
<1> QED BY <1>8, <1>10 DEF h

\* The open stop.
LEMMA HaloedFits ==
  ASSUME NEW d, NEW u, NEW halo, NEW on, NEW ids, NEW p, NEW from,
         Fits(d, u, halo, on, ids, p, from), NEW halo2
  PROVE  /\ Fits(Haloed(d, halo2), u, halo2, on, ids, p, from)
         /\ Haloed(d, halo2).vehicles = d.vehicles /\ Haloed(d, halo2).trip = d.trip
<1> DEFINE l == Declared(u, halo, on, ids)
           m == Declared(u, halo2, on, ids)
           t == tripStopFeatures(p, from)
           o == p # << >>
           r == d.ring
           n == d.ringed
           v == d.vehicles
           h == Haloed(d, halo2)
<1>1. [l EXCEPT !.halo = halo2] = m BY DEF Declared
<1>2. h = [d EXCEPT !.layers.halo = halo2] BY DEF Haloed
<1>3. d = Canvas(l, r, n, o, v, t) /\ r = (IF n THEN ids ELSE {}) BY DEF Fits
<1> HIDE DEF l, m, t, o, r, n, v, h
<1>4. [d EXCEPT !.layers.halo = halo2] = Canvas([l EXCEPT !.halo = halo2], r, n, o, v, t)
  BY <1>3 DEF Canvas
<1>5. h = Canvas(m, r, n, o, v, t) BY <1>1, <1>2, <1>4
<1>6. d.trip = t /\ d.vehicles = v BY <1>3 DEF Canvas
<1>7. Fits(h, u, halo2, on, ids, p, from) /\ h.vehicles = v /\ h.trip = t
  <2>1. h.ring = r /\ h.ringed = n /\ h.vehicles = v /\ h.trip = t BY <1>5 DEF Canvas
  <2>2. h = Canvas(m, h.ring, h.ringed, o, h.vehicles, t) BY <1>5, <2>1
  <2>3. h.ring = (IF h.ringed THEN ids ELSE {}) BY <1>3, <2>1
  <2>4. Fits(h, u, halo2, on, ids, p, from) BY <2>2, <2>3 DEF Fits, m, t, o
  <2> QED BY <2>1, <2>4
<1> QED BY <1>6, <1>7 DEF h

\* A trip pushed to what is drawn.
LEMMA TripFits ==
  ASSUME NEW d, NEW u, NEW halo, NEW on, NEW ids, NEW p, NEW from,
         Fits(d, u, halo, on, ids, p, from), NEW q, NEW n
  PROVE  /\ Fits(TripOn(d, q, n), u, halo, on, ids, q, n)
         /\ TripOn(d, q, n).vehicles = d.vehicles /\ TripOn(d, q, n).trip = tripStopFeatures(q, n)
<1> DEFINE l == Declared(u, halo, on, ids)
           t == tripStopFeatures(p, from)
           o == p # << >>
           t2 == tripStopFeatures(q, n)
           o2 == q # << >>
           r == d.ring
           w == d.ringed
           v == d.vehicles
           e == [d EXCEPT !.trip = t2]
           h == TripOn(d, q, n)
<1>1. h = [e EXCEPT !.route = o2] BY DEF TripOn
<1>2. d = Canvas(l, r, w, o, v, t) /\ r = (IF w THEN ids ELSE {}) BY DEF Fits
<1> HIDE DEF l, t, o, t2, o2, r, w, v, h
<1>3. e = Canvas(l, r, w, o, v, t2) BY <1>2 DEF Canvas
<1> HIDE DEF e
<1>4. h = Canvas(l, r, w, o2, v, t2) BY <1>1, <1>3 DEF Canvas
<1>5. d.vehicles = v BY <1>2 DEF Canvas
<1>6. Fits(h, u, halo, on, ids, q, n) /\ h.vehicles = v /\ h.trip = t2
  <2>1. h.ring = r /\ h.ringed = w /\ h.vehicles = v /\ h.trip = t2 BY <1>4 DEF Canvas
  <2>2. h = Canvas(l, h.ring, h.ringed, o2, h.vehicles, t2) BY <1>4, <2>1
  <2>3. h.ring = (IF h.ringed THEN ids ELSE {}) BY <1>2, <2>1
  <2>4. Fits(h, u, halo, on, ids, q, n) BY <2>2, <2>3 DEF Fits, l, t2, o2
  <2> QED BY <2>1, <2>4
<1> QED BY <1>5, <1>6 DEF h, t2

\* The vehicles pushed.
LEMMA VehiclesFit ==
  ASSUME NEW d, NEW u, NEW halo, NEW on, NEW ids, NEW p, NEW from,
         Fits(d, u, halo, on, ids, p, from), NEW f
  PROVE  /\ Fits(VehiclesOn(d, f), u, halo, on, ids, p, from)
         /\ VehiclesOn(d, f).vehicles = f /\ VehiclesOn(d, f).trip = d.trip
<1> DEFINE l == Declared(u, halo, on, ids)
           t == tripStopFeatures(p, from)
           o == p # << >>
           r == d.ring
           n == d.ringed
           v == d.vehicles
           h == VehiclesOn(d, f)
<1>1. h = [d EXCEPT !.vehicles = f] BY DEF VehiclesOn
<1>2. d = Canvas(l, r, n, o, v, t) /\ r = (IF n THEN ids ELSE {}) BY DEF Fits
<1> HIDE DEF l, t, o, r, n, v, h
<1>3. h = Canvas(l, r, n, o, f, t) /\ d.trip = t BY <1>1, <1>2 DEF Canvas
<1>4. Fits(h, u, halo, on, ids, p, from) /\ h.vehicles = f /\ h.trip = t
  <2>1. h.ring = r /\ h.ringed = n /\ h.vehicles = f /\ h.trip = t BY <1>3 DEF Canvas
  <2>2. h = Canvas(l, h.ring, h.ringed, o, h.vehicles, t) BY <1>3, <2>1
  <2>3. h.ring = (IF h.ringed THEN ids ELSE {}) BY <1>2, <2>1
  <2>4. Fits(h, u, halo, on, ids, p, from) BY <2>2, <2>3 DEF Fits, l, t, o
  <2> QED BY <2>1, <2>4
<1> QED BY <1>3, <1>4 DEF h

\* One setting of the layers, as of the settings u with that one changed.
LEMMA LayerFits ==
  ASSUME NEW d, NEW u, NEW halo, NEW on, NEW ids, NEW p, NEW from,
         Fits(d, u, halo, on, ids, p, from), Ui(u), NEW k \in {"stops", "numbers"}, NEW x
  PROVE  /\ Fits(LayerOn(d, k, x), [u EXCEPT ![k] = x], halo, on, ids, p, from)
         /\ LayerOn(d, k, x).vehicles = d.vehicles /\ LayerOn(d, k, x).trip = d.trip
<1> DEFINE a == IF k = "stops" THEN x ELSE u.stops
           b == IF k = "numbers" THEN x ELSE u.numbers
           m == [stops |-> a, halo |-> halo, numbers |-> b, shown |-> Isolated(on, ids)]
           l == Declared(u, halo, on, ids)
           t == tripStopFeatures(p, from)
           o == p # << >>
           r == d.ring
           n == d.ringed
           v == d.vehicles
           h == LayerOn(d, k, x)
<1>1. [l EXCEPT ![k] = x] = m BY DEF Declared
<1>2. Declared([u EXCEPT ![k] = x], halo, on, ids) = m
  <2>1. [u EXCEPT ![k] = x].stops = a /\ [u EXCEPT ![k] = x].numbers = b BY DEF Ui
  <2> QED BY <2>1 DEF Declared
<1>3. h = [d EXCEPT !.layers[k] = x] BY DEF LayerOn
<1>4. d = Canvas(l, r, n, o, v, t) /\ r = (IF n THEN ids ELSE {}) BY DEF Fits
<1> HIDE DEF m, l, t, o, r, n, v, h
<1>5. [d EXCEPT !.layers[k] = x] = Canvas([l EXCEPT ![k] = x], r, n, o, v, t) BY <1>4 DEF Canvas
<1>6. h = Canvas(m, r, n, o, v, t) BY <1>1, <1>3, <1>5
<1>7. d.trip = t /\ d.vehicles = v BY <1>4 DEF Canvas
<1>8. Fits(h, [u EXCEPT ![k] = x], halo, on, ids, p, from) /\ h.vehicles = v /\ h.trip = t
  <2>1. h.ring = r /\ h.ringed = n /\ h.vehicles = v /\ h.trip = t BY <1>6 DEF Canvas
  <2>2. h = Canvas(m, h.ring, h.ringed, o, h.vehicles, t) BY <1>6, <2>1
  <2>3. h.ring = (IF h.ringed THEN ids ELSE {}) BY <1>2, <1>4, <2>1
  <2>4. Fits(h, [u EXCEPT ![k] = x], halo, on, ids, p, from) BY <1>2, <2>2, <2>3 DEF Fits, t, o
  <2> QED BY <2>1, <2>4
<1> QED BY <1>7, <1>8 DEF h

\* A setting that no layer has.
LEMMA UiChanged ==
  ASSUME Ui(ui), NEW k \in {"theme", "lang", "stops", "numbers", "multi", "filters"}, NEW x, NEW raw,
         Changed(k, x, raw)
  PROVE  /\ Ui(ui') /\ ui' = [ui EXCEPT ![k] = x] /\ ui'[k] = x /\ web' = web
         /\ k \notin {"stops", "numbers"} => ui'.stops = ui.stops /\ ui'.numbers = ui.numbers
         /\ k # "theme" => ui'.theme = ui.theme
<1>1. ui' = [ui EXCEPT ![k] = x] /\ web' = web BY DEF Changed
<1>2. CASE k = "theme" BY <1>1, <1>2 DEF Ui
<1>3. CASE k = "lang" BY <1>1, <1>3 DEF Ui
<1>4. CASE k = "stops" BY <1>1, <1>4 DEF Ui
<1>5. CASE k = "numbers" BY <1>1, <1>5 DEF Ui
<1>6. CASE k = "multi" BY <1>1, <1>6 DEF Ui
<1>7. CASE k = "filters" BY <1>1, <1>7 DEF Ui
<1> QED BY <1>2, <1>3, <1>4, <1>5, <1>6, <1>7

\* On the web an icon does not go by the tone of the app.
LEMMA OwnTone ==
  ASSUME web, NEW f, NEW ids, NEW s, NEW t
  PROVE  Icons(f, s) = Icons(f, t) /\ RingIcons(f, ids, s) = RingIcons(f, ids, t)
BY DEF Icons, RingIcons, Icon

\* The settings change in nothing that is drawn.
SameLayers ==
  /\ Ui(ui') /\ web' = web
  /\ ui'.theme = ui.theme /\ ui'.stops = ui.stops /\ ui'.numbers = ui.numbers

\* What is drawn once it was pushed, wherever there is something to push to.
LEMMA TripPushedFits ==
  ASSUME NEW d, NEW u, NEW halo, NEW on, NEW ids, NEW p, NEW from,
         d # Nothing => Fits(d, u, halo, on, ids, p, from),
         NEW id, NEW q, NEW f, TripPushed(d, id, q, f), drawn' # Nothing
  PROVE  /\ d # Nothing /\ Fits(drawn', u, halo, on, ids, q, upcomingFrom')
         /\ drawn'.vehicles = d.vehicles
         /\ drawn'.trip = tripStopFeatures(q, currentUpcomingFrom(id, q, f))
<1> DEFINE n == currentUpcomingFrom(id, q, f)
<1>1. d # Nothing BY DEF TripPushed
<1>2. drawn' = TripOn(d, q, n) /\ upcomingFrom' = n
  BY <1>1 DEF TripPushed, TripOn
<1> HIDE DEF n
<1>3. Fits(d, u, halo, on, ids, p, from) BY <1>1
<1>4. /\ Fits(drawn', u, halo, on, ids, q, n) /\ drawn'.vehicles = d.vehicles
      /\ drawn'.trip = tripStopFeatures(q, n)
  BY <1>2, <1>3, TripFits
<1> QED BY <1>1, <1>2, <1>4 DEF n

\* Drawing of the next state, from facts about its values.
LEMMA DrawingNext ==
  ASSUME web' = web,
         drawn' # Nothing =>
           /\ Fits(drawn', ui', stopId', isolate', ToSet(selected'), plan', upcomingFrom')
           /\ ~dirty' => Current(drawn', ToSet(selected'), active', plan', fleet',
                                 ui'.theme \in DarkThemes, images')
  PROVE  Drawing'
<1> DEFINE tone == ui'.theme \in DarkThemes
<1>1. ASSUME drawn' # Nothing, ~dirty'
      PROVE  Current(drawn, ToSet(selected), active, plan, fleet, dark, images)'
  <2>1. /\ drawn'.vehicles = fleet'
        /\ drawn'.trip = tripStopFeatures(plan', currentUpcomingFrom(active', plan', fleet'))
    BY <1>1 DEF Current
  <2>2. Icons(fleet', tone) \subseteq images' /\ RingIcons(fleet', ToSet(selected'), tone) \subseteq images'
    BY <1>1 DEF Current
  <2>3. (Icons(fleet, dark) \subseteq images)'
    BY <2>2 DEF Icons, Icon, dark
  <2>4. (RingIcons(fleet, ToSet(selected), dark) \subseteq images)'
    BY <2>2 DEF RingIcons, Icon, dark
  <2> QED BY <2>1, <2>3, <2>4 DEF Current
<1>2. ASSUME drawn' # Nothing
      PROVE  Fits(drawn, ui, stopId, isolate, ToSet(selected), plan, upcomingFrom)'
  BY <1>2
<1> QED BY <1>1, <1>2 DEF Drawing

\* Where a choice of the user that makes id the active vehicle sends the camera.
Aimed(id, go) ==
  \/ centerOn(fleet[id].at)
  \/ \E p : at' = [at EXCEPT !.at = p] /\ moved' = TRUE /\ (flown' \/ ~go)
  \/ Still /\ (go /\ id # Nothing /\ fleet[id] # Nothing => following /\ id = active)

\* A choice of the user leaves a followed vehicle in the middle or under way to it.
LEMMA ShownCentred ==
  ASSUME Typed, Centred, NEW id, NEW on,
         finger' = finger, dirty' = dirty, fleet' = fleet, web' = web,
         following' = on, active' = id,
         Aimed(id, on)
  PROVE  Centred' /\ At(at')
<1>1. \A p : LET c == [at EXCEPT !.at = p] IN At(c) /\ c.at = p BY DEF Typed, At
<1>2. CASE centerOn(fleet[id].at) BY <1>1, <1>2 DEF centerOn, Centred
<1>3. CASE \E p : at' = [at EXCEPT !.at = p] /\ moved' = TRUE /\ (flown' \/ ~on)
  BY <1>1, <1>3 DEF Centred
<1>4. CASE Still /\ (on /\ id # Nothing /\ fleet[id] # Nothing => following /\ id = active)
  BY <1>4 DEF Still, Centred, Typed
<1> QED BY <1>2, <1>3, <1>4 DEF Aimed

\* The selection shown: on the layers, with its icons, and with the plan of the
\* active vehicle; no setting of the layers is changed with it.
LEMMA ShowDraws ==
  ASSUME Inv, NEW ids \in Seq(Vehicles), NEW id \in Vehicles \cup {Nothing}, NEW on, NEW go, NEW stop,
         Choose(ids, id, on, go, stop), SameLayers
  PROVE  /\ Drawing' /\ Ui(ui') /\ Fleet(fleet') /\ selected' \in Seq(Vehicles)
         /\ active' \in Vehicles \cup {Nothing} /\ active' = id /\ following' = go
         /\ finger' = finger /\ dirty' = dirty /\ fleet' = fleet /\ web' = web
<1> DEFINE p == IF id = active THEN plan ELSE << >>
           s == ToSet(ids)
           d == Highlighted(drawn, on, s)
           h == IF d = Nothing THEN Nothing ELSE [d EXCEPT !.layers.halo = stop]
<1>1. /\ selected' = ids /\ active' = id /\ isolate' = on /\ following' = go /\ stopId' = stop
      /\ plan' = p /\ images' = Ringed(s, fleet)
      /\ IF id = active THEN drawn' = h /\ UNCHANGED upcomingFrom ELSE TripPushed(h, id, p, fleet)
      /\ finger' = finger /\ dirty' = dirty /\ fleet' = fleet /\ web' = web
      /\ \A o, i : Declared(ui', stop, o, i) = Declared(ui, stop, o, i)
      /\ (ui'.theme \in DarkThemes) = dark
  BY DEF Choose, SameLayers, Declared, dark
<1>2. ASSUME drawn' # Nothing
      PROVE  /\ Fits(drawn', ui, stop, on, s, p, upcomingFrom')
             /\ ~dirty => Current(drawn', s, id, p, fleet, dark, images')
  <2>1. drawn # Nothing /\ d # Nothing
    BY <1>1, <1>2 DEF Highlighted, TripPushed
  <2>2. Fits(drawn, ui, stopId, isolate, ToSet(selected), plan, upcomingFrom)
    BY <2>1 DEF Inv, Drawing
  <2>3. Fits(h, ui, stop, on, s, plan, upcomingFrom) /\ h.vehicles = drawn.vehicles /\ h.trip = drawn.trip
    <3>1. h = Haloed(d, stop) BY <2>1 DEF Haloed
    <3> HIDE DEF h, s
    <3>2. Fits(d, ui, stopId, on, s, plan, upcomingFrom) /\ d.vehicles = drawn.vehicles /\ d.trip = drawn.trip
      BY <2>1, <2>2, HighlightedFits
    <3> HIDE DEF d
    <3> QED BY <3>1, <3>2, HaloedFits
  <2> HIDE DEF h
  <2>4. Fits(drawn', ui, stop, on, s, p, upcomingFrom') /\ drawn'.vehicles = drawn.vehicles
    <3>1. CASE id = active BY <1>1, <2>3, <3>1
    <3>2. CASE id # active BY <1>1, <1>2, <2>3, <3>2, TripPushedFits
    <3> QED BY <3>1, <3>2
  <2>5. ASSUME ~dirty PROVE Current(drawn', s, id, p, fleet, dark, images')
    <3>1. Current(drawn, ToSet(selected), active, plan, fleet, dark, images)
      BY <2>1, <2>5 DEF Inv, Drawing
    <3>2. drawn.vehicles = fleet BY <3>1 DEF Current
    <3>3. images' = images \cup RingIcons(fleet, s, dark) BY <1>1, <2>1, <3>2 DEF Ringed
    <3>4. Icons(fleet, dark) \subseteq images' /\ RingIcons(fleet, s, dark) \subseteq images'
      BY <3>1, <3>3 DEF Current
    <3>5. drawn'.trip = tripStopFeatures(p, currentUpcomingFrom(id, p, fleet))
      <4>1. CASE id = active BY <1>1, <2>3, <3>1, <4>1 DEF Current
      <4>2. CASE id # active BY <1>1, <1>2, <2>3, <4>2, TripPushedFits
      <4> QED BY <4>1, <4>2
    <3> QED BY <2>4, <3>2, <3>4, <3>5 DEF Current
  <2> QED BY <2>4, <2>5
<1> HIDE DEF p, s, d, h
<1>3. Drawing'
  <2>1. ASSUME drawn' # Nothing
        PROVE  /\ Fits(drawn', ui', stopId', isolate', ToSet(selected'), plan', upcomingFrom')
               /\ ~dirty' => Current(drawn', ToSet(selected'), active', plan', fleet',
                                     ui'.theme \in DarkThemes, images')
    BY <1>1, <1>2, <2>1 DEF s, Fits
  <2> QED BY <1>1, <2>1, DrawingNext
<1> QED BY <1>1, <1>3 DEF Inv, Typed, SameLayers

\* A selection with one vehicle less.
LEMMA Removed ==
  ASSUME NEW s \in Seq(Vehicles), NEW i \in DOMAIN s
  PROVE  RemoveAt(s, i) \in Seq(Vehicles)
<1>1. DOMAIN s = 1 .. Len(s) /\ Len(s) \in Nat /\ i \in 1 .. Len(s) BY LenProperties
<1>2. \A k \in 1 .. Len(s) : s[k] \in Vehicles BY ElementOfSeq
<1>3. \A k \in 1 .. i - 1 : s[k] \in Vehicles BY <1>1, <1>2
<1>4. SubSeq(s, 1, i - 1) \in Seq(Vehicles) BY <1>1, <1>3, SubSeqProperties
<1>5. \A k \in i + 1 .. Len(s) : s[k] \in Vehicles BY <1>1, <1>2
<1>6. SubSeq(s, i + 1, Len(s)) \in Seq(Vehicles) BY <1>1, <1>5, SubSeqProperties
<1> QED BY <1>4, <1>6, ConcatProperties DEF RemoveAt

\* The tab that becomes the active one.
LEMMA NextTab ==
  ASSUME NEW s \in Seq(Vehicles), NEW i \in DOMAIN s,
         RemoveAt(s, i) # << >>
  PROVE  RemoveAt(s, i)[IF i <= Len(RemoveAt(s, i)) THEN i ELSE Len(RemoveAt(s, i))] \in Vehicles
<1> DEFINE r == RemoveAt(s, i)
           k == IF i <= Len(r) THEN i ELSE Len(r)
<1>1. r \in Seq(Vehicles) /\ r # << >> BY Removed
<1>2. i \in Nat /\ i >= 1 BY LenProperties
<1> HIDE DEF r
<1>3. Len(r) \in Nat /\ Len(r) >= 1 BY <1>1, EmptySeq, LenProperties
<1>4. k \in 1 .. Len(r) BY <1>2, <1>3
<1>5. r[k] \in Vehicles BY <1>1, <1>4, ElementOfSeq
<1> QED BY <1>5 DEF r

\* A choice of the user that shows a selection and says where the camera goes.
LEMMA Chosen ==
  ASSUME Inv, NEW ids \in Seq(Vehicles), NEW id \in Vehicles \cup {Nothing}, NEW on, NEW go, NEW stop,
         Choose(ids, id, on, go, stop), SameLayers,
         Aimed(id, go)
  PROVE  Inv'
<1>1. /\ Drawing' /\ Ui(ui') /\ Fleet(fleet') /\ selected' \in Seq(Vehicles)
      /\ active' \in Vehicles \cup {Nothing} /\ active' = id /\ following' = go
      /\ finger' = finger /\ dirty' = dirty /\ fleet' = fleet /\ web' = web
  BY ShowDraws
<1>2. Typed /\ Centred BY DEF Inv
<1>3. Centred' /\ At(at') BY <1>1, <1>2, ShownCentred
<1> QED BY <1>1, <1>3 DEF Inv, Typed

\* The same of a choice that changes no setting.
LEMMA Shown ==
  ASSUME Inv, NEW ids \in Seq(Vehicles), NEW id \in Vehicles \cup {Nothing}, NEW on, NEW go, NEW stop,
         Show(ids, id, on, go, stop),
         Aimed(id, go)
  PROVE  Inv'
<1>1. Choose(ids, id, on, go, stop) /\ SameLayers BY DEF Show, SameLayers, prefs, Inv, Typed
<1> QED BY <1>1, Chosen

\* Following again recentres, or was on.
LEMMA Reattaching ==
  ASSUME NEW id, NEW on, Reattached(id, on)
  PROVE  Aimed(id, on)
BY DEF Reattached, Aimed

\* What the user does, but for moving the camera.
LEMMA Chooses ==
  ASSUME Inv, User, ~\E p \in Cameras, near \in BOOLEAN : Drag(p, near), ~\E p \in Places : Fly(p)
  PROVE  Inv'
<1>1. selected \in Seq(Vehicles) /\ active \in Vehicles \cup {Nothing} BY DEF Inv, Typed
<1>2. ASSUME NEW v \in Vehicles, selectVehicle(v),
             Aimed(v, TRUE)
      PROVE  Inv'
  <2> DEFINE ids == IF ~ui.multi THEN <<v>>
                    ELSE IF Contains(selected, v) THEN selected ELSE Append(selected, v)
  <2>1. Show(ids, v, isolate, TRUE, Nothing) BY <1>2 DEF selectVehicle
  <2>2. <<v>> \in Seq(Vehicles) /\ Append(selected, v) \in Seq(Vehicles) BY <1>1, AppendProperties
  <2>3. ids \in Seq(Vehicles) BY <1>1, <2>2
  <2> HIDE DEF ids
  <2> QED BY <1>2, <2>1, <2>3, Shown
<1>3. ASSUME NEW v \in Vehicles, Pick(v) PROVE Inv'
  BY <1>2, <1>3 DEF Pick, Aimed
<1>4. ASSUME NEW v \in Vehicles, NEW p \in Places, Open(v, p) PROVE Inv'
  BY <1>2, <1>4 DEF Open, Aimed
<1>5. ASSUME NEW v \in Vehicles, closeTab(v) PROVE Inv'
  <2> DEFINE rest(i) == RemoveAt(selected, i)
             id(i) == CASE v # active -> active
                        [] v = active /\ rest(i) = << >> -> Nothing
                        [] OTHER -> rest(i)[IF i <= Len(rest(i)) THEN i ELSE Len(rest(i))]
  <2>1. PICK i \in DOMAIN selected :
          Show(rest(i), id(i), isolate, following, stopId) /\ Reattached(id(i), following)
    BY <1>5 DEF closeTab
  <2>2. rest(i) \in Seq(Vehicles) BY <1>1, Removed
  <2>3. id(i) \in Vehicles \cup {Nothing}
    <3>1. CASE v # active BY <1>1, <3>1
    <3>2. CASE v = active /\ rest(i) = << >> BY <3>2
    <3>3. CASE v = active /\ rest(i) # << >>
      BY <1>1, <3>3, NextTab
    <3> QED BY <3>1, <3>2, <3>3
  <2> HIDE DEF rest, id
  <2>4. Aimed(id(i), following)
    BY <2>1, Reattaching
  <2> QED BY <2>1, <2>2, <2>3, <2>4, Shown
<1>6. CASE closeAll
  <2>1. << >> \in Seq(Vehicles) OBVIOUS
  <2> QED BY <1>6, <2>1, Shown DEF closeAll, Aimed
<1>7. CASE toggleIsolate BY <1>1, <1>7, Shown DEF toggleIsolate, Aimed
<1>8. CASE follow
  <2>1. Show(selected, active, isolate, ~following, stopId) /\ Reattached(active, ~following)
    BY <1>8 DEF follow
  <2>2. Aimed(active, ~following)
    BY <2>1, Reattaching
  <2> QED BY <1>1, <2>1, <2>2, Shown
<1>9. ASSUME NEW p \in Stops, openStop(p) PROVE Inv'
  BY <1>1, <1>9, Shown DEF openStop, centerOn, Aimed
<1>10. CASE closeStop BY <1>1, <1>10, Shown DEF closeStop, Aimed
<1> QED BY <1>3, <1>4, <1>5, <1>6, <1>7, <1>8, <1>9, <1>10 DEF User

\* What is drawn and its icons stay as they are, or the screen renders.
Redrawn ==
  \/ UNCHANGED <<drawn, images>>
  \/ drawn' = Rendered /\ images' = Ringed(ToSet(selected), fleet)

\* Nothing that it is drawn from changes.
LEMMA Undrawn ==
  ASSUME Drawing, Redrawn, SameLayers,
         UNCHANGED <<selected, active, isolate, stopId, plan, fleet, dirty, upcomingFrom>>
  PROVE  Drawing'
<1> DEFINE ids == ToSet(selected)
<1>1. /\ web' = web /\ (ui'.theme \in DarkThemes) = dark /\ images \subseteq images'
      /\ \A halo, on, i : Declared(ui', halo, on, i) = Declared(ui, halo, on, i)
  BY DEF SameLayers, Declared, dark, Redrawn, Ringed
<1>2. ASSUME drawn' # Nothing
      PROVE  /\ Fits(drawn', ui, stopId, isolate, ids, plan, upcomingFrom)
             /\ ~dirty => Current(drawn', ids, active, plan, fleet, dark, images')
  <2>1. drawn # Nothing BY <1>2 DEF Redrawn, Rendered, Highlighted
  <2>2. /\ Fits(drawn, ui, stopId, isolate, ids, plan, upcomingFrom)
        /\ ~dirty => Current(drawn, ids, active, plan, fleet, dark, images)
    BY <2>1 DEF Drawing
  <2> HIDE DEF ids
  <2>3. CASE drawn' = drawn BY <1>1, <2>2, <2>3 DEF Current
  <2>4. CASE drawn' = Rendered
    <3>1. /\ Fits(drawn', ui, stopId, isolate, ids, plan, upcomingFrom)
          /\ drawn'.vehicles = drawn.vehicles /\ drawn'.trip = drawn.trip
      BY <2>1, <2>2, <2>4, HighlightedFits DEF Rendered, ids
    <3> QED BY <1>1, <2>2, <3>1 DEF Current
  <2> QED BY <2>3, <2>4 DEF Redrawn
<1>3. drawn' # Nothing =>
        /\ Fits(drawn', ui', stopId', isolate', ToSet(selected'), plan', upcomingFrom')
        /\ ~dirty' => Current(drawn', ToSet(selected'), active', plan', fleet',
                              ui'.theme \in DarkThemes, images')
  BY <1>1, <1>2 DEF Fits
<1> QED BY <1>1, <1>3, DrawingNext

\* Nothing of these moves.
LEMMA Unaimed ==
  ASSUME Typed, Centred,
         UNCHANGED <<web, ui, selected, active, following, fleet, dirty, at, finger, moved, flown>>
  PROVE  Typed' /\ Centred'
BY DEF Typed, Centred

\* The camera moves without a choice that is shown.
LEMMA CameraMoves ==
  ASSUME Inv,
         \/ \E p \in Cameras, near \in BOOLEAN : Drag(p, near)
         \/ \E p \in Places : Fly(p)
         \/ Settle
  PROVE  Inv'
<1>1. UNCHANGED <<web, ui, selected, active, isolate, stopId, plan, fleet, dirty, upcomingFrom>> /\ Redrawn
  BY DEF Drag, Fly, Settle, resync, prefs, props, canvas, Ask, Redrawn, Rerender
<1>2. Drawing'
  <2>1. SameLayers BY <1>1 DEF SameLayers, Inv, Typed
  <2> QED BY <1>1, <2>1, Undrawn DEF Inv
<1>3. At(at') /\ Centred'
  <2>1. ASSUME NEW p \in Cameras, NEW near \in BOOLEAN, Drag(p, near) PROVE At(at') /\ Centred'
    BY <1>1, <2>1 DEF Drag, At, Inv, Centred
  <2>2. ASSUME NEW p \in Places, Fly(p) PROVE At(at') /\ Centred'
    BY <1>1, <2>2 DEF Fly, At, Inv, Centred
  <2>3. CASE Settle
    <3>1. following' = following BY <2>3 DEF Settle, props
    <3>2. finger' = FALSE BY <2>3 DEF Settle
    <3>3. CASE ~web /\ finger /\ following /\ active # Nothing /\ fleet[active] # Nothing
      <4>1. at' = [at EXCEPT !.at = fleet[active].at] BY <2>3, <3>3 DEF Settle, centerOn
      <4>2. At(at') /\ at'.at = fleet[active].at BY <4>1 DEF Inv, Typed, At
      <4> QED BY <1>1, <3>2, <4>2 DEF Centred
    <3>4. CASE ~(~web /\ finger /\ following /\ active # Nothing /\ fleet[active] # Nothing)
      <4>1. at' = at /\ flown' = flown BY <2>3, <3>4 DEF Settle
      <4> QED BY <1>1, <3>1, <3>2, <3>4, <4>1 DEF Inv, Typed, Centred
    <3> QED BY <3>3, <3>4
  <2> QED BY <2>1, <2>2, <2>3
<1> QED BY <1>1, <1>2, <1>3 DEF Inv, Typed

\* Sockets and stops have no part in it.
LEMMA Untouched ==
  ASSUME Inv, SocketOpen \/ SocketLost \/ StopsAnswer \/ StopsFail
  PROVE  Inv'
<1>1. /\ UNCHANGED <<web, ui, selected, active, isolate, following, stopId, plan, fleet, dirty,
                     upcomingFrom, at, finger, moved, flown>>
      /\ Redrawn
  BY DEF SocketOpen, SocketLost, StopsAnswer, StopsFail, prefs, props, canvas, camera, stream, Redrawn, Rerender
<1>2. SameLayers BY <1>1 DEF SameLayers, Inv, Typed
<1> QED BY <1>1, <1>2, Undrawn, Unaimed DEF Inv

\* A frame: a flush is due, and the screen renders if it hears of it.
LEMMA Framed ==
  ASSUME Inv, Frame
  PROVE  Inv'
<1>1. ASSUME NEW f, Fleet(f), NEW entered, NEW gone, onUpdate(f, entered, gone) PROVE Inv'
  <2>1. /\ UNCHANGED <<web, ui, selected, active, isolate, stopId, plan, upcomingFrom>>
        /\ UNCHANGED <<at, finger, moved, flown>>
        /\ fleet' = f /\ dirty' /\ drawn' \in {drawn, Highlighted(drawn, isolate, ToSet(selected))}
    BY <1>1 DEF onUpdate, Rendered, prefs, camera
  <2>2. ASSUME drawn' # Nothing
        PROVE  Fits(drawn', ui, stopId, isolate, ToSet(selected), plan, upcomingFrom)
    <3>1. drawn # Nothing BY <2>1, <2>2 DEF Highlighted
    <3>2. Fits(drawn, ui, stopId, isolate, ToSet(selected), plan, upcomingFrom)
      BY <3>1 DEF Inv, Drawing
    <3>3. Fits(Highlighted(drawn, isolate, ToSet(selected)), ui, stopId, isolate, ToSet(selected), plan,
               upcomingFrom)
      BY <3>1, <3>2, HighlightedFits
    <3> QED BY <2>1, <3>2, <3>3
  <2>3. Drawing' BY <2>1, <2>2, DrawingNext
  <2>4. Typed' BY <1>1, <2>1 DEF Inv, Typed
  <2>5. Centred' BY <2>1 DEF Inv, Centred
  <2> QED BY <2>3, <2>4, <2>5 DEF Inv
<1>2. Fleet(fleet) BY DEF Inv, Typed
<1>3. \A l, p : Feature(vehicleFeature(l, p, dark)) BY DEF Feature, vehicleFeature
<1>4. ASSUME NEW v \in Vehicles, NEW l, NEW p
      PROVE  Fleet([fleet EXCEPT ![v] = vehicleFeature(l, p, dark)])
  BY <1>2, <1>3 DEF Fleet
<1>5. ASSUME NEW v \in Vehicles PROVE Fleet([fleet EXCEPT ![v] = Nothing])
  BY <1>2 DEF Fleet
<1>6. ASSUME NEW v \in Vehicles, fleet[v] # Nothing, NEW p PROVE Fleet([fleet EXCEPT ![v].at = p])
  <2>1. Feature([fleet[v] EXCEPT !.at = p]) BY <1>2, <1>6 DEF Fleet, Feature
  <2> QED BY <1>2, <2>1 DEF Fleet
<1>7. ASSUME NEW vs, NEW l, NEW p
      PROVE  Fleet([v \in Vehicles |-> IF v \in vs THEN vehicleFeature(l, p, dark) ELSE Nothing])
  BY <1>3 DEF Fleet
<1> QED BY <1>1, <1>4, <1>5, <1>6, <1>7 DEF Frame, Entering, Moving, Leaving, Snapshot

\* A flush pushes the fleet, and keeps the camera on the vehicle it follows.
LEMMA Flushed ==
  ASSUME Inv, Flush
  PROVE  Inv'
<1> DEFINE ids == ToSet(selected)
           shows == active # Nothing /\ fleet[active] # Nothing
           d == IF shows THEN Highlighted(Pushed(drawn), isolate, ids) ELSE Pushed(drawn)
           from == currentUpcomingFrom(active, plan, fleet)
<1>1. /\ UNCHANGED <<web, ui, selected, active, isolate, following, stopId, plan, fleet, finger>>
      /\ dirty' = FALSE
      /\ images' = IF drawn = Nothing THEN images
                   ELSE images \cup Icons(fleet, dark) \cup RingIcons(fleet, ids, dark)
      /\ IF from # upcomingFrom THEN TripPushed(d, active, plan, fleet)
         ELSE drawn' = d /\ UNCHANGED upcomingFrom
      /\ IF shows /\ following /\ (web \/ ~finger) THEN centerOn(fleet[active].at) ELSE Still
  BY DEF Flush, Advanced, prefs, props
<1>2. At(at') /\ Centred'
  <2>1. CASE shows /\ following /\ (web \/ ~finger)
    <3>1. at' = [at EXCEPT !.at = fleet[active].at] /\ moved' = TRUE BY <1>1, <2>1 DEF centerOn
    <3>2. At(at') /\ at'.at = fleet[active].at BY <3>1 DEF Inv, Typed, At
    <3> QED BY <1>1, <3>1, <3>2 DEF Centred
  <2>2. CASE ~(shows /\ following /\ (web \/ ~finger))
    <3>1. at' = at /\ moved' = moved BY <1>1, <2>2 DEF Still
    <3> QED BY <1>1, <2>2, <3>1 DEF Inv, Typed, Centred
  <2> QED BY <2>1, <2>2
<1>3. ASSUME drawn' # Nothing
      PROVE  /\ Fits(drawn', ui, stopId, isolate, ids, plan, upcomingFrom')
             /\ Current(drawn', ids, active, plan, fleet, dark, images')
  <2>1. drawn # Nothing /\ d # Nothing /\ Pushed(drawn) # Nothing
    BY <1>1, <1>3 DEF Pushed, Highlighted, TripPushed
  <2>2. Fits(drawn, ui, stopId, isolate, ids, plan, upcomingFrom)
    BY <2>1 DEF Inv, Drawing
  <2>3. Pushed(drawn) = VehiclesOn(drawn, fleet) BY <2>1 DEF Pushed, VehiclesOn
  <2>4. Fits(Pushed(drawn), ui, stopId, isolate, ids, plan, upcomingFrom) /\ Pushed(drawn).vehicles = fleet
    BY <2>2, <2>3, VehiclesFit
  <2>5. Fits(d, ui, stopId, isolate, ids, plan, upcomingFrom) /\ d.vehicles = fleet
    <3> HIDE DEF ids
    <3> QED BY <2>1, <2>4, HighlightedFits
  <2> HIDE DEF d
  <2>6. images' = images \cup Icons(fleet, dark) \cup RingIcons(fleet, ids, dark) BY <1>1, <2>1
  <2>7. /\ Fits(drawn', ui, stopId, isolate, ids, plan, upcomingFrom') /\ drawn'.vehicles = fleet
        /\ drawn'.trip = tripStopFeatures(plan, from)
    <3>1. CASE from # upcomingFrom
      <4> HIDE DEF ids
      <4> QED BY <1>1, <1>3, <2>5, <3>1, TripPushedFits
    <3>2. CASE from = upcomingFrom
      <4>1. d.trip = tripStopFeatures(plan, upcomingFrom) BY <2>5 DEF Fits, Canvas
      <4> QED BY <1>1, <2>5, <3>2, <4>1
    <3> QED BY <3>1, <3>2
  <2> QED BY <2>6, <2>7 DEF Current
<1>4. Drawing' BY <1>1, <1>3, DrawingNext DEF dark
<1>5. Typed' BY <1>1, <1>2 DEF Inv, Typed
<1> QED BY <1>2, <1>4, <1>5 DEF Inv

\* The plan comes, and is pushed.
LEMMA Planned ==
  ASSUME Inv, PlanArrives
  PROVE  Inv'
<1> DEFINE d == Highlighted(drawn, isolate, ToSet(selected))
<1>1. /\ UNCHANGED <<web, ui, selected, active, isolate, following, stopId, fleet, dirty>>
      /\ UNCHANGED <<at, finger, moved, flown>>
      /\ plan' = Calls /\ TripPushed(d, active, Calls, fleet) /\ images \subseteq images'
  BY DEF PlanArrives, Rendered, Ringed, prefs, camera
<1>2. ASSUME drawn' # Nothing
      PROVE  /\ Fits(drawn', ui, stopId, isolate, ToSet(selected), Calls, upcomingFrom')
             /\ ~dirty => Current(drawn', ToSet(selected), active, Calls, fleet, dark, images')
  <2>1. drawn # Nothing /\ d # Nothing BY <1>1, <1>2 DEF Highlighted, TripPushed
  <2>2. Fits(drawn, ui, stopId, isolate, ToSet(selected), plan, upcomingFrom)
    BY <2>1 DEF Inv, Drawing
  <2>3. /\ Fits(d, ui, stopId, isolate, ToSet(selected), plan, upcomingFrom)
        /\ d.vehicles = drawn.vehicles
    BY <2>1, <2>2, HighlightedFits
  <2> HIDE DEF d
  <2>4. /\ Fits(drawn', ui, stopId, isolate, ToSet(selected), Calls, upcomingFrom')
        /\ drawn'.vehicles = d.vehicles
        /\ drawn'.trip = tripStopFeatures(Calls, currentUpcomingFrom(active, Calls, fleet))
    BY <1>1, <1>2, <2>3, TripPushedFits
  <2>5. ~dirty => Current(drawn, ToSet(selected), active, plan, fleet, dark, images)
    BY <2>1 DEF Inv, Drawing
  <2> QED BY <1>1, <2>3, <2>4, <2>5 DEF Current
<1>3. Drawing' BY <1>1, <1>2, DrawingNext DEF dark
<1>4. Typed' /\ Centred' BY <1>1, Unaimed DEF Inv
<1> QED BY <1>3, <1>4 DEF Inv

\* A new style: everything is drawn from what there is by then.
LEMMA Loaded ==
  ASSUME Inv, StyleLoad
  PROVE  Inv'
<1> DEFINE from == currentUpcomingFrom(active, plan, fleet)
<1>1. /\ UNCHANGED <<web, ui, selected, active, isolate, following, stopId, plan, fleet, dirty>>
      /\ UNCHANGED <<at, finger, moved, flown>>
  BY DEF StyleLoad, props
<1>2. /\ drawn' = [layers |-> Declared(ui, stopId, isolate, ToSet(selected)), ring |-> {}, ringed |-> FALSE,
                   route |-> plan # << >>, vehicles |-> fleet, trip |-> tripStopFeatures(plan, from)]
      /\ upcomingFrom' = from
      /\ images' = Icons(fleet, dark) \cup RingIcons(fleet, ToSet(selected), dark)
  BY DEF StyleLoad, ensureLayers
<1> HIDE DEF from
<1>3. Fits(drawn', ui, stopId, isolate, ToSet(selected), plan, upcomingFrom')
  BY <1>2 DEF Fits, Canvas
<1>4. Current(drawn', ToSet(selected), active, plan, fleet, dark, images')
  BY <1>2 DEF Current, from
<1>5. Drawing' BY <1>1, <1>3, <1>4, DrawingNext DEF dark
<1>6. Typed' /\ Centred' BY <1>1, Unaimed DEF Inv
<1> QED BY <1>5, <1>6 DEF Inv

\* A theme: the mobile map has the icons of both tones from then on, the web map
\* draws nothing before the new style is there, or keeps the old one.
LEMMA Themed ==
  ASSUME Inv, NEW t, NEW busy, Theme(t, busy)
  PROVE  Inv'
<1> DEFINE tone == t \in DarkThemes
           ids == ToSet(selected)
<1>1. /\ Ui(ui') /\ ui'.theme = t /\ web' = web /\ ui'.stops = ui.stops /\ ui'.numbers = ui.numbers
  <2>1. Changed("theme", t, t) BY DEF Theme, setTheme
  <2> QED BY <2>1, UiChanged DEF Inv, Typed
<1>2. /\ UNCHANGED <<selected, active, isolate, following, stopId, plan, dirty, upcomingFrom>>
      /\ UNCHANGED <<at, finger, moved, flown>>
  BY DEF Theme, props, camera
<1>3. \A halo, on, s : Declared(ui', halo, on, s) = Declared(ui, halo, on, s)
  BY <1>1 DEF Declared
<1>4. ASSUME NEW d, Fits(d, ui, stopId, isolate, ids, plan, upcomingFrom)
      PROVE  Fits(d, ui', stopId', isolate', ToSet(selected'), plan', upcomingFrom')
  BY <1>2, <1>3, <1>4 DEF Fits
<1>5. CASE ~web
  <2>1. /\ drawn' = drawn /\ fleet' = fleet
        /\ images' = images \cup Icons(drawn.vehicles, tone) \cup RingIcons(drawn.vehicles, ids, tone)
    BY <1>5 DEF Theme
  <2>2. ASSUME drawn' # Nothing, ~dirty'
        PROVE  Current(drawn', ToSet(selected'), active', plan', fleet', ui'.theme \in DarkThemes, images')
    <3>1. Current(drawn, ids, active, plan, fleet, dark, images)
      BY <1>2, <2>1, <2>2 DEF Inv, Drawing
    <3>2. drawn.vehicles = fleet BY <3>1 DEF Current
    <3>3. Icons(fleet, tone) \subseteq images' /\ RingIcons(fleet, ids, tone) \subseteq images'
      BY <2>1, <3>2
    <3> QED BY <1>1, <1>2, <2>1, <3>1, <3>3 DEF Current
  <2>3. Drawing' BY <1>1, <1>4, <2>1, <2>2, DrawingNext DEF Inv, Drawing
  <2>4. Typed' /\ Centred' BY <1>1, <1>2, <2>1 DEF Inv, Typed, Centred
  <2> QED BY <2>3, <2>4 DEF Inv
<1>6. CASE web /\ (~base.loaded \/ busy)
  <2>1. drawn' = Highlighted(drawn, isolate, ids) /\ fleet' = fleet /\ images \subseteq images'
    BY <1>6 DEF Theme, Rerender, Rendered, Ringed
  <2>2. ASSUME drawn' # Nothing
        PROVE  /\ Fits(drawn', ui', stopId', isolate', ToSet(selected'), plan', upcomingFrom')
               /\ drawn # Nothing /\ drawn'.vehicles = drawn.vehicles /\ drawn'.trip = drawn.trip
    <3>1. drawn # Nothing BY <2>1, <2>2 DEF Highlighted
    <3>2. Fits(drawn, ui, stopId, isolate, ids, plan, upcomingFrom) BY <3>1 DEF Inv, Drawing
    <3> HIDE DEF ids
    <3>3. /\ Fits(Highlighted(drawn, isolate, ids), ui, stopId, isolate, ids, plan, upcomingFrom)
          /\ Highlighted(drawn, isolate, ids).vehicles = drawn.vehicles
          /\ Highlighted(drawn, isolate, ids).trip = drawn.trip
      BY <3>1, <3>2, HighlightedFits
    <3> QED BY <1>4, <2>1, <3>1, <3>3
  <2>3. ASSUME drawn' # Nothing, ~dirty'
        PROVE  Current(drawn', ToSet(selected'), active', plan', fleet', ui'.theme \in DarkThemes, images')
    <3>1. Current(drawn, ids, active, plan, fleet, dark, images)
      BY <1>2, <2>2, <2>3 DEF Inv, Drawing
    <3>2. Icons(fleet, tone) = Icons(fleet, dark) /\ RingIcons(fleet, ids, tone) = RingIcons(fleet, ids, dark)
      BY <1>6, OwnTone
    <3> QED BY <1>1, <1>2, <2>1, <2>2, <2>3, <3>1, <3>2 DEF Current
  <2>4. Drawing' BY <1>1, <2>2, <2>3, DrawingNext
  <2>5. Typed' /\ Centred' BY <1>1, <1>2, <2>1 DEF Inv, Typed, Centred
  <2> QED BY <2>4, <2>5 DEF Inv
<1>7. CASE web /\ base.loaded /\ ~busy
  <2>1. /\ drawn' = Nothing
        /\ fleet' = [v \in Vehicles |-> IF fleet[v] = Nothing THEN Nothing
                                         ELSE [fleet[v] EXCEPT !.dark = tone]]
    BY <1>7 DEF Theme
  <2>2. ASSUME NEW v \in Vehicles, fleet[v] # Nothing
        PROVE  Feature([fleet[v] EXCEPT !.dark = tone]) /\ [fleet[v] EXCEPT !.dark = tone].at = fleet[v].at
    BY <2>2 DEF Inv, Typed, Fleet, Feature
  <2> HIDE DEF tone
  <2>3. Fleet(fleet') BY <2>1, <2>2 DEF Fleet
  <2>4. Typed' BY <1>1, <1>2, <2>3 DEF Inv, Typed
  <2>5. \A v \in Vehicles : fleet'[v] # Nothing => fleet[v] # Nothing /\ fleet'[v].at = fleet[v].at
    BY <2>1, <2>2
  <2>6. Centred' BY <1>1, <1>2, <2>5 DEF Inv, Typed, Centred
  <2>7. Drawing' BY <2>1 DEF Drawing
  <2> QED BY <2>4, <2>6, <2>7 DEF Inv
<1> QED BY <1>5, <1>6, <1>7

\* A setting the stop layer has.
LEMMA Layered ==
  ASSUME Inv, ShowStops \/ StopNumbers
  PROVE  Inv'
<1>1. PICK k \in {"stops", "numbers"} : setFlag(k) /\ LayerSet(k, ~ui[k])
  BY DEF ShowStops, StopNumbers
<1>2. /\ UNCHANGED <<selected, active, isolate, following, stopId, plan, fleet, dirty, upcomingFrom>>
      /\ UNCHANGED <<at, finger, moved, flown>>
      /\ images \subseteq images'
  BY DEF ShowStops, StopNumbers, LayerSet, Ringed, props, camera
<1>3. Ui(ui') /\ ui' = [ui EXCEPT ![k] = ~ui[k]] /\ web' = web /\ ui'.theme = ui.theme
  BY <1>1, UiChanged DEF setFlag, Inv, Typed
<1>4. ASSUME drawn' # Nothing
      PROVE  /\ Fits(drawn', ui', stopId, isolate, ToSet(selected), plan, upcomingFrom)
             /\ drawn # Nothing /\ drawn'.vehicles = drawn.vehicles /\ drawn'.trip = drawn.trip
  <2>1. drawn # Nothing /\ drawn' = LayerOn(Rendered, k, ~ui[k]) BY <1>1, <1>4 DEF LayerSet, LayerOn
  <2>2. Fits(drawn, ui, stopId, isolate, ToSet(selected), plan, upcomingFrom)
    BY <2>1 DEF Inv, Drawing
  <2>3. Ui(ui) BY DEF Inv, Typed
  <2>4. /\ Fits(Rendered, ui, stopId, isolate, ToSet(selected), plan, upcomingFrom)
        /\ Rendered.vehicles = drawn.vehicles /\ Rendered.trip = drawn.trip
    BY <2>1, <2>2, HighlightedFits DEF Rendered
  <2> DEFINE e == Rendered
  <2> HIDE DEF e
  <2>5. /\ Fits(LayerOn(e, k, ~ui[k]), [ui EXCEPT ![k] = ~ui[k]], stopId, isolate, ToSet(selected),
                plan, upcomingFrom)
        /\ LayerOn(e, k, ~ui[k]).vehicles = e.vehicles
        /\ LayerOn(e, k, ~ui[k]).trip = e.trip
    <3>1. Fits(e, ui, stopId, isolate, ToSet(selected), plan, upcomingFrom) BY <2>4 DEF e
    <3> QED BY <1>1, <2>3, <3>1, LayerFits
  <2> QED BY <1>3, <2>1, <2>4, <2>5 DEF e
<1>5. ASSUME drawn' # Nothing, ~dirty
      PROVE  Current(drawn', ToSet(selected), active, plan, fleet, dark, images')
  <2>1. Current(drawn, ToSet(selected), active, plan, fleet, dark, images)
    BY <1>4, <1>5 DEF Inv, Drawing
  <2> QED BY <1>2, <1>4, <1>5, <2>1 DEF Current
<1>6. Drawing' BY <1>2, <1>3, <1>4, <1>5, DrawingNext DEF dark
<1>7. Typed' /\ Centred' BY <1>2, <1>3 DEF Inv, Typed, Centred
<1> QED BY <1>6, <1>7 DEF Inv

\* A setting no layer has; leaving multi-select, the selection goes with it.
LEMMA Unlayered ==
  ASSUME Inv, Filter \/ Multi \/ Elsewhere
  PROVE  Inv'
<1>1. SameLayers
  <2>1. ASSUME NEW k \in {"lang", "multi", "filters"}, NEW x, NEW raw, Changed(k, x, raw)
        PROVE  SameLayers
    BY <2>1, UiChanged DEF Inv, Typed, SameLayers
  <2>2. CASE Filter
    <3>1. (\E t \in KnownTypes : toggleType(t)) \/ (\E o \in chips : toggleOwner(o))
      BY <2>2 DEF Filter
    <3> QED BY <2>1, <3>1 DEF toggleType, toggleOwner, setFilters
  <2>3. CASE Multi BY <2>1, <2>3 DEF Multi, setFlag
  <2>4. CASE Elsewhere
    <3>1. (\E l \in Langs : setLang(l)) \/ OperatorsArrive BY <2>4 DEF Elsewhere
    <3>2. CASE \E l \in Langs : setLang(l) BY <2>1, <3>2 DEF setLang
    <3>3. CASE OperatorsArrive BY <3>3 DEF OperatorsArrive, Inv, Typed, SameLayers
    <3> QED BY <3>1, <3>2, <3>3
  <2> QED BY <2>2, <2>3, <2>4
<1>2. CASE Filter \/ Elsewhere
  <2>1. /\ UNCHANGED <<selected, active, isolate, following, stopId, plan, fleet, dirty, upcomingFrom>>
        /\ UNCHANGED <<at, finger, moved, flown>>
        /\ Redrawn
    BY <1>2 DEF Filter, Elsewhere, props, camera, Redrawn, Rerender
  <2>2. Drawing' BY <1>1, <2>1, Undrawn DEF Inv
  <2>3. Typed' /\ Centred' BY <1>1, <2>1 DEF Inv, Typed, Centred, SameLayers
  <2> QED BY <2>2, <2>3 DEF Inv
<1>3. CASE Multi
  <2> DEFINE ids == IF ui.multi /\ active # Nothing THEN <<active>> ELSE selected
  <2>1. Choose(ids, active, isolate, following, stopId) /\ Still BY <1>3 DEF Multi
  <2>2. active \in Vehicles \cup {Nothing} /\ selected \in Seq(Vehicles) BY DEF Inv, Typed
  <2>3. ids \in Seq(Vehicles)
    <3>1. active # Nothing => <<active>> \in Seq(Vehicles) BY <2>2
    <3> QED BY <2>2, <3>1
  <2> HIDE DEF ids
  <2>4. Aimed(active, following) BY <2>1 DEF Aimed
  <2> QED BY <1>1, <2>1, <2>2, <2>3, <2>4, Chosen
<1> QED BY <1>2, <1>3

-----------------------------------------------------------------------------
(* The invariant.                                                          *)

\* It holds at the start and over every step.
LEMMA Starts == Init => Inv
<1> SUFFICES ASSUME Init PROVE Inv OBVIOUS
<1>1. PICK d \in Disks : Read(d) BY DEF Init, PrefsInit
<1>2. disk.view = d.view
  <2>1. "view" \in DOMAIN d BY ConstantsAssumption DEF ConstantsAssumption
  <2> QED BY <1>1, <2>1 DEF Read
<1>3. At(at)
  <2>1. d.view = Nothing \/ d.view \in [at : Int, near : BOOLEAN]
    BY ConstantsAssumption DEF ConstantsAssumption, View
  <2>2. at = [at |-> Home, near |-> FALSE] \/ (d.view # Nothing /\ at = d.view)
    BY <1>2 DEF Init, getSavedView, ValidView
  <2> QED BY <2>1, <2>2 DEF At
<1>4. Ui(ui) BY <1>1 DEF Read, Restored, Ui
<1>5. fleet = Fresh /\ (\A v \in Vehicles : fleet[v] = Nothing) BY DEF Init, Fresh
<1>6. Fleet(fleet) BY <1>5 DEF Fleet, Fresh
<1>7. selected = << >> /\ active = Nothing /\ ~following /\ ~finger /\ plan = << >> /\ stopId = Nothing
      /\ isolate = FALSE /\ upcomingFrom = -1
  BY DEF Init
<1>8. Typed BY <1>3, <1>4, <1>6, <1>7 DEF Typed
<1>9. Centred BY <1>7 DEF Centred
<1>10. Drawing
  <2>1. SUFFICES ASSUME drawn # Nothing
                 PROVE  /\ Fits(drawn, ui, stopId, isolate, ToSet(selected), plan, upcomingFrom)
                        /\ Current(drawn, ToSet(selected), active, plan, fleet, dark, images)
    BY DEF Drawing
  <2>2. drawn = [layers |-> Declared(ui, Nothing, FALSE, {}), ring |-> {}, ringed |-> TRUE, route |-> FALSE,
                 vehicles |-> Fresh, trip |-> << >>]
    BY <2>1 DEF Init
  <2>3. ToSet(selected) = {} BY <1>7 DEF ToSet
  <2>4. \A n : tripStopFeatures(plan, n) = << >> BY <1>7 DEF tripStopFeatures
  <2>5. Known(fleet) = {} BY <1>5 DEF Known
  <2>6. Icons(fleet, dark) = {} /\ RingIcons(fleet, ToSet(selected), dark) = {}
    BY <2>5 DEF Icons, RingIcons
  <2>7. Fits(drawn, ui, stopId, isolate, ToSet(selected), plan, upcomingFrom)
    BY <1>7, <2>2, <2>3, <2>4 DEF Fits, Canvas
  <2> QED BY <1>5, <2>2, <2>4, <2>6, <2>7 DEF Current
<1> QED BY <1>8, <1>9, <1>10 DEF Inv

LEMMA Steps == Inv /\ [Next]_vars => Inv'
<1> SUFFICES ASSUME Inv, [Next]_vars PROVE Inv' OBVIOUS
<1>1. CASE User BY <1>1, Chooses, CameraMoves
<1>2. CASE Settings
  <2>1. CASE \E t \in Themes, b \in BOOLEAN : Theme(t, b) BY <2>1, Themed
  <2>2. CASE ShowStops \/ StopNumbers BY <2>2, Layered
  <2>3. CASE Filter \/ Multi \/ Elsewhere BY <2>3, Unlayered
  <2> QED BY <1>2, <2>1, <2>2, <2>3 DEF Settings
<1>3. CASE PlanArrives BY <1>3, Planned
<1>4. CASE Frame BY <1>4, Framed
<1>5. CASE SocketOpen \/ SocketLost \/ StopsAnswer \/ StopsFail BY <1>5, Untouched
<1>6. CASE Settle BY <1>6, CameraMoves
<1>7. CASE StyleLoad BY <1>7, Loaded
<1>8. CASE Flush BY <1>8, Flushed
<1>9. CASE UNCHANGED vars
  <2>1. /\ UNCHANGED <<web, ui, selected, active, isolate, following, stopId, plan, fleet, dirty,
                       upcomingFrom, at, finger, moved, flown>>
        /\ Redrawn
    BY <1>9 DEF vars, prefs, camera, props, canvas, Redrawn
  <2>2. SameLayers BY <2>1 DEF SameLayers, Inv, Typed
  <2> QED BY <2>1, <2>2, Undrawn, Unaimed DEF Inv
<1> QED BY <1>1, <1>2, <1>3, <1>4, <1>5, <1>6, <1>7, <1>8, <1>9 DEF Next

LEMMA Kept == Spec => []Inv
BY Starts, Steps, PTL DEF Spec

\* What is on the map is as the settings, the selection and the plan say, and,
\* once a flush is done, as the stream left the fleet, with an icon for every
\* marker: whatever is replaced, pushed or renders in between.  The layers of the
\* selected markers show the selection if there was a render since they were made,
\* and nothing if there was none.
THEOREM Drawn == Spec => []DrawnIsCurrent
<1>1. Inv => DrawnIsCurrent
  <2>1. SUFFICES ASSUME Inv, drawn # Nothing
                 PROVE  /\ drawn.layers = Declared(ui, stopId, isolate, ToSet(selected))
                        /\ drawn.ring = IF drawn.ringed THEN ToSet(selected) ELSE {}
                        /\ drawn.route = (plan # << >>)
                        /\ ~dirty =>
                             /\ drawn.vehicles = fleet
                             /\ drawn.trip = tripStopFeatures(plan, currentUpcomingFrom(active, plan, fleet))
                             /\ Icons(fleet, dark) \cup RingIcons(fleet, drawn.ring, dark) \subseteq images
    BY DEF DrawnIsCurrent
  <2>2. Fits(drawn, ui, stopId, isolate, ToSet(selected), plan, upcomingFrom)
    BY <2>1 DEF Inv, Drawing
  <2>3. /\ drawn.layers = Declared(ui, stopId, isolate, ToSet(selected)) /\ drawn.route = (plan # << >>)
        /\ drawn.ring = IF drawn.ringed THEN ToSet(selected) ELSE {}
    BY <2>2 DEF Fits, Canvas
  <2>4. ASSUME ~dirty
        PROVE  /\ drawn.vehicles = fleet
               /\ drawn.trip = tripStopFeatures(plan, currentUpcomingFrom(active, plan, fleet))
               /\ Icons(fleet, dark) \cup RingIcons(fleet, drawn.ring, dark) \subseteq images
    <3>1. Current(drawn, ToSet(selected), active, plan, fleet, dark, images)
      BY <2>1, <2>4 DEF Inv, Drawing
    <3>2. RingIcons(fleet, drawn.ring, dark) \subseteq RingIcons(fleet, ToSet(selected), dark)
      BY <2>2 DEF Fits, RingIcons
    <3> QED BY <3>1, <3>2 DEF Current
  <2> QED BY <2>3, <2>4
<1> QED BY <1>1, Kept, PTL

\* A vehicle that is followed is in the middle once a flush is done and the
\* camera rests, unless it was sent elsewhere since.
THEOREM Followed == Spec => []FollowedIsCentred
<1>1. Inv => FollowedIsCentred
  BY DEF Inv, Centred, FollowedIsCentred, Settled
<1> QED BY <1>1, Kept, PTL

-----------------------------------------------------------------------------
(* The camera and the fleet on the line of places.                         *)

Placed ==
  /\ at \in View /\ view \in View \cup {Nothing}
  /\ \A v \in Vehicles : fleet[v] # Nothing => fleet[v].at \in Int
  /\ Settled => view = at

\* Where a choice of the user, the library or the stream leaves the camera.
LEMMA CameraGoes ==
  ASSUME Inv, Placed, [Next]_vars
  PROVE  \/ UNCHANGED <<at, moved, view>>
         \/ at' \in View /\ moved' /\ view' = view
         \/ Settle /\ view' = at /\ at' \in View /\ (moved' \/ at' = at)
         \/ StyleLoad /\ view' = at /\ UNCHANGED <<at, moved>>
<1> USE ConstantsAssumption DEF ConstantsAssumption
<1>1. ASSUME NEW v \in Vehicles, fleet[v] # Nothing, centerOn(fleet[v].at)
      PROVE  at' \in View /\ moved'
  <2>1. at' = [at EXCEPT !.at = fleet[v].at] /\ moved' = TRUE BY <1>1 DEF centerOn
  <2>2. fleet[v].at \in Int BY <1>1 DEF Placed
  <2> QED BY <2>1, <2>2 DEF Placed, View
<1>2. active # Nothing => active \in Vehicles BY DEF Inv, Typed
<1>3. ASSUME NEW ids, NEW id, NEW on, NEW f, NEW s, Show(ids, id, on, f, s) PROVE view' = view
  BY <1>3 DEF Show, Choose
<1>4. ASSUME NEW v, selectVehicle(v) PROVE view' = view
  BY <1>4, <1>3 DEF selectVehicle
<1>5. ASSUME NEW v \in Vehicles, NEW p \in Places, Open(v, p)
      PROVE  at' \in View /\ moved' /\ view' = view
  <2>1. view' = view BY <1>5, <1>4 DEF Open
  <2>2. p \in Int OBVIOUS
  <2> QED BY <1>5, <1>1, <2>1, <2>2 DEF Open, Placed, View
<1>6. ASSUME NEW v \in Vehicles, Pick(v)
      PROVE  view' = view /\ (UNCHANGED <<at, moved>> \/ (at' \in View /\ moved'))
  BY <1>6, <1>1, <1>4 DEF Pick, Still
<1>7. ASSUME NEW id \in Vehicles \cup {Nothing}, NEW on, Reattached(id, on)
      PROVE  UNCHANGED <<at, moved>> \/ (at' \in View /\ moved')
  BY <1>7, <1>1 DEF Reattached, Still
<1>8. ASSUME NEW v \in Vehicles, closeTab(v)
      PROVE  view' = view /\ (UNCHANGED <<at, moved>> \/ (at' \in View /\ moved'))
  <2>1. view' = view BY <1>8, <1>3 DEF closeTab
  <2>2. PICK i \in DOMAIN selected :
          LET rest == RemoveAt(selected, i)
              id == CASE v # active -> active
                      [] v = active /\ rest = << >> -> Nothing
                      [] OTHER -> rest[IF i <= Len(rest) THEN i ELSE Len(rest)]
          IN Reattached(id, following)
    BY <1>8 DEF closeTab
  <2> DEFINE rest == RemoveAt(selected, i)
             id == CASE v # active -> active
                      [] v = active /\ rest = << >> -> Nothing
                      [] OTHER -> rest[IF i <= Len(rest) THEN i ELSE Len(rest)]
  <2>3. id \in Vehicles \cup {Nothing}
    <3>1. rest # << >> => rest[IF i <= Len(rest) THEN i ELSE Len(rest)] \in Vehicles
      BY NextTab DEF Inv, Typed
    <3> HIDE DEF rest
    <3> QED BY <1>2, <3>1
  <2>4. Reattached(id, following) BY <2>2
  <2> HIDE DEF id
  <2> QED BY <2>1, <2>3, <2>4, <1>7
<1>9. CASE User
  <2>1. ASSUME NEW p \in Cameras, NEW near \in BOOLEAN, Drag(p, near)
        PROVE  at' \in View /\ moved' /\ view' = view
    BY <2>1 DEF Drag, View
  <2>2. ASSUME NEW p \in Places, Fly(p) PROVE at' \in View /\ moved' /\ view' = view
    BY <2>2 DEF Fly, View
  <2>3. ASSUME NEW p \in Stops, openStop(p) PROVE at' \in View /\ moved' /\ view' = view
    BY <2>3, <1>3 DEF openStop, centerOn, Placed, View
  <2>4. CASE closeAll \/ toggleIsolate \/ closeStop
    BY <2>4, <1>3 DEF closeAll, toggleIsolate, closeStop, Still
  <2>5. CASE follow
    <3>1. view' = view BY <2>5, <1>3 DEF follow
    <3>2. active \in Vehicles \cup {Nothing} /\ Reattached(active, ~following)
      BY <2>5, <1>2 DEF follow
    <3> QED BY <3>1, <3>2, <1>7
  <2> QED BY <1>9, <2>1, <2>2, <2>3, <2>4, <2>5, <1>5, <1>6, <1>8 DEF User
<1>10. CASE Settings \/ PlanArrives \/ Frame \/ SocketOpen \/ SocketLost \/ StopsAnswer \/ StopsFail
            \/ UNCHANGED vars
  <2>1. UNCHANGED <<at, moved, view>>
    BY <1>10 DEF Settings, Theme, ShowStops, StopNumbers, Filter, Multi, Choose, Still, Elsewhere, PlanArrives,
      Frame, Entering, Moving, Leaving, Snapshot, onUpdate, SocketOpen, SocketLost, StopsAnswer, StopsFail,
      vars, camera
  <2> QED BY <2>1
<1>11. CASE Settle
  <2>1. view' = at BY <1>11 DEF Settle, resync
  <2> QED BY <1>11, <1>1, <1>2, <2>1 DEF Settle, Placed
<1>12. CASE StyleLoad BY <1>12 DEF StyleLoad, resync
<1>13. CASE Flush
  <2>1. UNCHANGED <<at, moved>> \/ (at' \in View /\ moved')
    BY <1>13, <1>1, <1>2 DEF Flush, Still
  <2> QED BY <1>13, <2>1 DEF Flush
<1> QED BY <1>9, <1>10, <1>11, <1>12, <1>13 DEF Next

\* The vehicles are on the line, wherever the stream puts them.
LEMMA FleetPlaced ==
  ASSUME Inv, Placed, [Next]_vars
  PROVE  \A v \in Vehicles : fleet'[v] # Nothing => fleet'[v].at \in Int
<1> USE ConstantsAssumption DEF ConstantsAssumption
<1>1. Fleet(fleet) BY DEF Inv, Typed
<1>2. CASE fleet' = fleet BY <1>2 DEF Placed
<1>3. ASSUME NEW v \in Vehicles, NEW p \in Places, Moving(v, p)
      PROVE  \A u \in Vehicles : fleet'[u] # Nothing => fleet'[u].at \in Int
  <2>1. fleet' = [fleet EXCEPT ![v].at = p] /\ Feature(fleet[v]) /\ p \in Int
    BY <1>1, <1>3 DEF Moving, onUpdate, Fleet
  <2>2. \A u \in Vehicles : u # v => fleet'[u] = fleet[u] BY <1>1, <2>1 DEF Fleet
  <2>3. fleet'[v].at = p BY <1>1, <2>1 DEF Fleet, Feature
  <2> QED BY <2>1, <2>2, <2>3 DEF Placed
<1>4. ASSUME NEW v \in Vehicles, NEW p \in Places, NEW l \in Labels, Entering(v, l, p)
      PROVE  \A u \in Vehicles : fleet'[u] # Nothing => fleet'[u].at \in Int
  BY <1>1, <1>4 DEF Entering, onUpdate, Fleet, vehicleFeature, Placed
<1>5. ASSUME NEW v \in Vehicles, Leaving(v)
      PROVE  \A u \in Vehicles : fleet'[u] # Nothing => fleet'[u].at \in Int
  BY <1>1, <1>5 DEF Leaving, onUpdate, Fleet, Placed
<1>6. ASSUME NEW vs \in SUBSET Vehicles, NEW p \in Places, NEW l \in Labels, Snapshot(vs, l, p)
      PROVE  \A u \in Vehicles : fleet'[u] # Nothing => fleet'[u].at \in Int
  BY <1>6 DEF Snapshot, onUpdate, vehicleFeature
<1>7. CASE Frame BY <1>7, <1>3, <1>4, <1>5, <1>6 DEF Frame
<1>8. ASSUME NEW t \in Themes, NEW b \in BOOLEAN, Theme(t, b)
      PROVE  \A u \in Vehicles : fleet'[u] # Nothing => fleet'[u].at \in Int
  <2>1. \/ fleet' = fleet
        \/ fleet' = [v \in Vehicles |-> IF fleet[v] = Nothing THEN Nothing
                                       ELSE [fleet[v] EXCEPT !.dark = t \in DarkThemes]]
    BY <1>8 DEF Theme
  <2>2. \A u \in Vehicles : fleet[u] # Nothing =>
          Feature(fleet[u]) /\ fleet[u].at \in Int
    BY <1>1 DEF Fleet, Placed
  <2>3. \A u \in Vehicles : fleet[u] # Nothing =>
          [fleet[u] EXCEPT !.dark = t \in DarkThemes].at = fleet[u].at
    BY <2>2 DEF Feature
  <2> QED BY <1>2, <2>1, <2>2, <2>3
<1>9. CASE User
  <2>1. ASSUME NEW ids, NEW id, NEW on, NEW f, NEW s, Show(ids, id, on, f, s) PROVE fleet' = fleet
    BY <2>1 DEF Show, Choose
  <2>2. fleet' = fleet
    BY <1>9, <2>1 DEF User, Drag, Fly, Open, selectVehicle, openStop, Pick, closeTab, closeAll,
      toggleIsolate, follow, closeStop
  <2> QED BY <1>2, <2>2
<1>10. CASE Settings
  <2>1. CASE ShowStops \/ StopNumbers \/ Filter \/ Multi \/ Elsewhere
    BY <1>2, <2>1 DEF ShowStops, StopNumbers, Filter, Multi, Choose, Elsewhere
  <2> QED BY <1>8, <1>10, <2>1 DEF Settings
<1>11. CASE PlanArrives \/ SocketOpen \/ SocketLost \/ Settle \/ StyleLoad \/ Flush \/ StopsAnswer
            \/ StopsFail \/ UNCHANGED vars
  BY <1>2, <1>11 DEF PlanArrives, SocketOpen, SocketLost, Settle, StyleLoad, Flush, StopsAnswer,
    StopsFail, vars
<1> QED BY <1>7, <1>9, <1>10, <1>11 DEF Next

\* The camera and the fleet stay on the line, and the view is the camera's at rest.
LEMMA PlacedSteps == Inv /\ Placed /\ [Next]_vars => Placed'
<1> SUFFICES ASSUME Inv, Placed, [Next]_vars PROVE Placed' OBVIOUS
<1>1. at' \in View BY CameraGoes DEF Placed
<1>2. view' \in View \cup {Nothing} BY CameraGoes DEF Placed
<1>3. Settled' => view' = at'
  <2>1. CASE UNCHANGED <<at, moved, view>> BY <2>1 DEF Placed, Settled
  <2>2. CASE moved' BY <2>2 DEF Settled
  <2>3. CASE view' = at /\ at' = at BY <2>3
  <2> QED BY CameraGoes, <2>1, <2>2, <2>3
<1> QED BY <1>1, <1>2, <1>3, FleetPlaced DEF Placed

-----------------------------------------------------------------------------
(* The stops.                                                              *)

Box == Int \X Int

\* What is asked for, or has been answered, shows the view with the bounds b.
Asked(b, bx, rq, ps) ==
  covers(bx, b) \/ rq = padBBox(b) \/ (rq = Nothing /\ Nearest(padBBox(b), ps))

Covered ==
  /\ box \in Box \cup {Nothing} /\ req \in Box \cup {Nothing}
  /\ box # Nothing => StopsIn(box) \subseteq stops
  /\ drawn # Nothing /\ ui.stops /\ Settled /\ view.near /\ gap = Nothing =>
       Asked(boundsToBBox(view), box, req, stops)

\* A view has bounds, and a margin around them.
LEMMA Boxed ==
  ASSUME NEW v \in View
  PROVE  boundsToBBox(v) \in Box /\ padBBox(boundsToBBox(v)) \in Box
BY DEF View, Box, boundsToBBox, padBBox

\* What a view needs is asked for, whatever was under way.
LEMMA Loads ==
  ASSUME Covered, NEW STATE on, NEW STATE v, v \in View, loadStops(on, v)
  PROVE  /\ box' \in Box \cup {Nothing} /\ req' \in Box \cup {Nothing}
         /\ box' # Nothing => StopsIn(box') \subseteq stops'
         /\ on /\ v.near => Asked(boundsToBBox(v), box', req', stops')
<1>1. CASE ~on \/ ~v.near \/ covers(box, boundsToBBox(v))
  <2>1. UNCHANGED <<stops, box, req>> BY <1>1 DEF loadStops, stopLayer
  <2>2. covers(box, boundsToBBox(v)) => Asked(boundsToBBox(v), box', req', stops')
    BY <2>1 DEF Asked
  <2> QED BY <1>1, <2>1, <2>2 DEF Covered
<1>2. CASE ~(~on \/ ~v.near \/ covers(box, boundsToBBox(v)))
  <2>1. req' = padBBox(boundsToBBox(v)) /\ UNCHANGED <<stops, box>> BY <1>2 DEF loadStops
  <2>2. Asked(boundsToBBox(v), box', req', stops') BY <2>1 DEF Asked
  <2> QED BY <2>1, <2>2, Boxed DEF Covered
<1> QED BY <1>1, <1>2

\* An answer shorter than the limit has all the stops of its box.
LEMMA Answered ==
  ASSUME NEW b, NEW ps, Nearest(b, ps), Cardinality(ps) < Limit
  PROVE  ps = StopsIn(b)
<1>1. IsFiniteSet(StopsIn(b))
  BY ConstantsAssumption, FS_Subset DEF ConstantsAssumption, StopsIn
<1>2. ps \in SUBSET StopsIn(b) /\ Cardinality(ps) = Min({Cardinality(StopsIn(b)), Limit})
  BY DEF Nearest
<1>3. Cardinality(ps) \in {Cardinality(StopsIn(b)), Limit}
  <2> DEFINE n == Cardinality(StopsIn(b))
  <2>1. n \in Nat /\ Limit \in Nat
    BY <1>1, FS_CardinalityType, ConstantsAssumption DEF ConstantsAssumption
  <2> HIDE DEF n
  <2>2. \E m \in {n, Limit} : \A k \in {n, Limit} : m <= k
    <3>1. CASE n <= Limit BY <2>1, <3>1
    <3>2. CASE ~(n <= Limit) BY <2>1, <3>2
    <3> QED BY <3>1, <3>2
  <2>3. Min({n, Limit}) \in {n, Limit} BY <2>2 DEF Min
  <2> QED BY <1>2, <2>3 DEF n
<1>4. Cardinality(ps) = Cardinality(StopsIn(b))
  <2>1. Limit \in Nat BY ConstantsAssumption DEF ConstantsAssumption
  <2> QED BY <1>3, <2>1
<1> QED BY <1>1, <1>2, <1>4, FS_Subset

\* Layers appear when a style is loaded.
LEMMA StaysUndrawn ==
  ASSUME [Next]_vars, ~StyleLoad, drawn = Nothing
  PROVE  drawn' = Nothing
<1> USE DEF Highlighted, Rendered, Rerender, TripPushed, LayerSet, Choose
<1>1. CASE User
  <2>1. ASSUME NEW ids, NEW id, NEW on, NEW f, NEW s, Show(ids, id, on, f, s) PROVE drawn' = Nothing
    BY <2>1 DEF Show
  <2>2. CASE (\E p \in Cameras, near \in BOOLEAN : Drag(p, near)) \/ (\E p \in Places : Fly(p))
    BY <2>2 DEF Drag, Fly, canvas
  <2> QED BY <1>1, <2>1, <2>2 DEF User, Open, selectVehicle, openStop, Pick, closeTab, closeAll,
      toggleIsolate, follow, closeStop
<1>2. CASE Settings
  <2>1. CASE \E t \in Themes, b \in BOOLEAN : Theme(t, b) BY <2>1 DEF Theme
  <2>2. CASE ShowStops \/ StopNumbers \/ Filter \/ Multi \/ Elsewhere
    BY <2>2 DEF ShowStops, StopNumbers, Filter, Multi, Elsewhere
  <2> QED BY <1>2, <2>1, <2>2 DEF Settings
<1>3. CASE PlanArrives \/ Flush BY <1>3 DEF PlanArrives, Flush, Advanced, Pushed
<1>4. CASE Frame BY <1>4 DEF Frame, Entering, Moving, Leaving, Snapshot, onUpdate
<1>5. CASE SocketOpen \/ SocketLost \/ Settle \/ StopsAnswer \/ StopsFail \/ UNCHANGED vars
  BY <1>5 DEF SocketOpen, SocketLost, Settle, StopsAnswer, StopsFail, vars, canvas
<1> QED BY <1>1, <1>2, <1>3, <1>4, <1>5 DEF Next

\* The stop layer is answered, asked for, or away with the basemap.
LEMMA CoveredSteps == Inv /\ Placed /\ Placed' /\ Covered /\ [Next]_vars => Covered'
<1> SUFFICES ASSUME Inv, Placed, Placed', Covered, [Next]_vars PROVE Covered' OBVIOUS
<1>1. CASE Settle \/ StyleLoad
  <2>1. view' = at /\ loadStops(ui.stops, at) /\ ui' = ui BY <1>1 DEF Settle, StyleLoad, resync
  <2>2. at \in View BY DEF Placed
  <2> QED BY <2>1, <2>2, Loads DEF Covered
\* The stop layer is left alone, and what it is for.
<1>2. ASSUME UNCHANGED stopLayer, UNCHANGED <<view, moved>> \/ moved', ui'.stops = ui.stops
      PROVE  Covered'
  <2>1. ~StyleLoad => (drawn' # Nothing => drawn # Nothing) BY StaysUndrawn
  <2> QED BY <1>1, <1>2, <2>1 DEF Covered, stopLayer, Settled
<1>3. CASE ShowStops
  <2>1. ui'.stops = ~ui.stops /\ UNCHANGED <<view, at, moved>>
    <3>1. ui' = [ui EXCEPT !["stops"] = ~ui["stops"]] BY <1>3 DEF ShowStops, setFlag, Changed
    <3>2. Ui(ui) BY DEF Inv, Typed
    <3> QED BY <1>3, <3>1, <3>2 DEF Ui, ShowStops, camera
  <2>2. CASE web
    <3>1. loadStops(~ui.stops, at) /\ at \in View BY <1>3, <2>2 DEF ShowStops, Placed
    <3>2. Settled' => view' = at BY <2>1 DEF Settled, Placed
    <3> QED BY <2>1, <3>1, <3>2, Loads DEF Covered
  <2>3. CASE ~web /\ view # Nothing
    <3>1. loadStops(~ui.stops, view) /\ view \in View BY <1>3, <2>3 DEF ShowStops, Placed
    <3> QED BY <2>1, <3>1, Loads DEF Covered
  <2>4. CASE ~web /\ view = Nothing
    <3>1. UNCHANGED stopLayer BY <1>3, <2>4 DEF ShowStops
    <3>2. ~Settled'
      BY <2>1, <2>4, ConstantsAssumption DEF Settled, Placed, ConstantsAssumption
    <3> QED BY <3>1, <3>2 DEF Covered, stopLayer
  <2> QED BY <2>2, <2>3, <2>4
<1>4. CASE StopsAnswer
  <2>1. /\ req # Nothing /\ req' = Nothing /\ Nearest(req, stops')
        /\ box' = IF Cardinality(stops') >= Limit THEN Nothing ELSE req
        /\ gap' = IF Overtaken(box') THEN "overtaken" ELSE gap
        /\ UNCHANGED <<view, moved, ui>>
    BY <1>4 DEF StopsAnswer, camera, prefs
  <2>2. box' # Nothing => StopsIn(box') \subseteq stops'
    <3>1. SUFFICES ASSUME box' # Nothing PROVE stops' = StopsIn(req) BY <2>1
    <3>2. ~(Cardinality(stops') >= Limit) BY <2>1, <3>1
    <3>3. IsFiniteSet(stops')
      <4>1. stops' \subseteq Stops BY <2>1 DEF Nearest, StopsIn
      <4> QED BY <4>1, FS_Subset, ConstantsAssumption DEF ConstantsAssumption
    <3>4. Cardinality(stops') < Limit
      BY <3>2, <3>3, FS_CardinalityType, ConstantsAssumption DEF ConstantsAssumption
    <3> QED BY <2>1, <3>4, Answered
  <2>3. ASSUME drawn' # Nothing, ui'.stops, Settled', view'.near, gap' = Nothing
        PROVE  Asked(boundsToBBox(view'), box', req', stops')
    <3>1. gap = Nothing /\ ~Overtaken(box')
      <4>1. Nothing # "overtaken"
        BY ConstantsAssumption DEF ConstantsAssumption
      <4> QED BY <2>1, <2>3, <4>1
    <3>2. Asked(boundsToBBox(view), box, req, stops) BY <1>4, <2>1, <2>3, <3>1 DEF StopsAnswer, canvas, Covered, Settled
    <3>3. CASE covers(box, boundsToBBox(view))
      <4>1. view # Nothing BY <2>1, <2>3, ConstantsAssumption DEF Settled, Placed, ConstantsAssumption
      <4>2. covers(box', boundsToBBox(view)) BY <3>1, <3>3, <4>1 DEF Overtaken
      <4> QED BY <2>1, <4>2 DEF Asked
    <3>4. CASE req = padBBox(boundsToBBox(view))
      BY <2>1, <3>4 DEF Asked
    <3> QED BY <2>1, <3>2, <3>3, <3>4 DEF Asked
  <2> QED BY <2>1, <2>2, <2>3 DEF Covered
<1>5. CASE StopsFail
  <2>1. /\ req' = Nothing /\ gap' = "failed" /\ UNCHANGED <<box, stops>> BY <1>5 DEF StopsFail
  <2>2. Nothing # "failed"
    BY ConstantsAssumption DEF ConstantsAssumption
  <2> QED BY <2>1, <2>2 DEF Covered
<1>6. CASE User
  <2>1. ASSUME NEW ids, NEW id, NEW on, NEW f, NEW s, Show(ids, id, on, f, s)
        PROVE  UNCHANGED stopLayer /\ ui' = ui
    BY <2>1 DEF Show, Choose, prefs
  <2>2. UNCHANGED stopLayer /\ ui' = ui
    BY <1>6, <2>1 DEF User, Drag, Fly, Open, selectVehicle, openStop, Pick, closeTab, closeAll,
      toggleIsolate, follow, closeStop, prefs
  <2>3. ~Settle /\ ~StyleLoad => UNCHANGED <<view, moved>> \/ moved' BY CameraGoes
  <2> QED BY <1>1, <1>2, <2>2, <2>3
<1>7. CASE Flush
  <2>1. UNCHANGED stopLayer /\ ui' = ui BY <1>7 DEF Flush, prefs
  <2>2. ~Settle /\ ~StyleLoad => UNCHANGED <<view, moved>> \/ moved' BY CameraGoes
  <2> QED BY <1>1, <1>2, <2>1, <2>2
<1>8. CASE PlanArrives \/ Frame \/ SocketOpen \/ SocketLost \/ UNCHANGED vars
  <2>1. UNCHANGED <<stopLayer, ui, view, moved>>
    BY <1>8 DEF PlanArrives, Frame, Entering, Moving, Leaving, Snapshot, onUpdate, SocketOpen, SocketLost,
      vars, prefs, camera
  <2> QED BY <1>2, <2>1
<1>9. CASE Settings /\ ~ShowStops
  <2>1. ASSUME NEW k, k # "stops", NEW x, NEW raw, Changed(k, x, raw) PROVE ui'.stops = ui.stops
    BY <2>1 DEF Inv, Typed, Ui, Changed
  <2>2. CASE \E t \in Themes, b \in BOOLEAN : Theme(t, b)
    BY <2>1, <2>2, <1>2 DEF Theme, setTheme, camera
  <2>3. CASE StopNumbers
    BY <2>1, <2>3, <1>2 DEF StopNumbers, setFlag, camera
  <2>4. CASE Filter
    BY <2>1, <2>4, <1>2 DEF Filter, toggleType, toggleOwner, setFilters, camera
  <2>5. CASE Elsewhere
    BY <2>1, <2>5, <1>2 DEF Elsewhere, setLang, OperatorsArrive, camera
  <2>6. CASE Multi
    BY <2>1, <2>6, <1>2 DEF Multi, Choose, Still, setFlag
  <2> QED BY <1>9, <2>2, <2>3, <2>4, <2>5, <2>6 DEF Settings
<1> QED BY <1>1, <1>3, <1>4, <1>5, <1>6, <1>7, <1>8, <1>9 DEF Next

\* At the start.
LEMMA PlacedStarts == Init => Placed
<1> SUFFICES ASSUME Init PROVE Placed OBVIOUS
<1>1. PICK d \in Disks : Read(d) BY DEF Init, PrefsInit
<1>2. disk.view = d.view /\ (d.view = Nothing \/ d.view \in View)
  <2>1. "view" \in DOMAIN d /\ (d.view = Nothing \/ d.view \in View)
    BY ConstantsAssumption DEF ConstantsAssumption
  <2> QED BY <1>1, <2>1 DEF Read
<1>3. at \in View
  <2>1. [at |-> Home, near |-> FALSE] \in View
    BY ConstantsAssumption DEF ConstantsAssumption, View
  <2>2. at = [at |-> Home, near |-> FALSE] \/ (d.view # Nothing /\ at = d.view)
    BY <1>2 DEF Init, getSavedView, ValidView
  <2> QED BY <1>2, <2>1, <2>2
<1>4. view = (IF web THEN at ELSE Nothing) /\ moved = ~web /\ fleet = Fresh BY DEF Init
<1> QED BY <1>3, <1>4 DEF Placed, Settled, Fresh

\* At the start.
LEMMA CoveredStarts == Init => Covered
<1> SUFFICES ASSUME Init PROVE Covered OBVIOUS
<1>1. box = Nothing /\ req = Nothing /\ moved = ~web /\ (web => drawn = Nothing) BY DEF Init
<1> QED BY <1>1 DEF Covered, Settled

\* The stops of a near view that has come to rest are drawn once nothing more is
\* asked for: all of them, or as many of the nearest as one answer may have.
THEOREM StopsDrawn == Spec => []StopsOfView
<1>1. Spec => [](Inv /\ Placed)
  <2>1. Inv /\ Placed /\ [Next]_vars => Inv' /\ Placed' BY Steps, PlacedSteps
  <2> QED BY <2>1, Starts, PlacedStarts, PTL DEF Spec
<1>2. Spec => []Covered BY <1>1, CoveredStarts, CoveredSteps, PTL DEF Spec
<1>3. Inv /\ Placed /\ Covered => StopsOfView
  <2> SUFFICES ASSUME Inv, Placed, Covered, drawn # Nothing, ui.stops, Settled, view.near,
                      req = Nothing, gap = Nothing
               PROVE  \/ StopsIn(boundsToBBox(view)) \subseteq stops
                      \/ Nearest(padBBox(boundsToBBox(view)), stops)
    BY DEF StopsOfView
  <2>1. view \in View BY DEF Placed
  <2>2. Asked(boundsToBBox(view), box, Nothing, stops) BY DEF Covered
  <2>3. CASE covers(box, boundsToBBox(view))
    <3> DEFINE b == boundsToBBox(view)
    <3>1. box \in Box /\ b \in Box /\ box[1] <= b[1] /\ box[2] >= b[2]
      BY <2>1, <2>3, Boxed DEF Covered, covers
    <3> HIDE DEF b
    <3>2. StopsIn(b) \subseteq StopsIn(box) BY <3>1 DEF Box, StopsIn
    <3>3. StopsIn(box) \subseteq stops BY <2>3 DEF Covered, covers
    <3> QED BY <3>2, <3>3 DEF b
  <2>4. padBBox(boundsToBBox(view)) # Nothing
    BY <2>1, Boxed, ConstantsAssumption DEF ConstantsAssumption, Box
  <2> QED BY <2>2, <2>3, <2>4 DEF Asked
<1> QED BY <1>1, <1>2, <1>3, PTL

-----------------------------------------------------------------------------
(* What is picked of a sequence.                                           *)

\* A set of numbers has a least one.
LEMMA Least ==
  ASSUME NEW S \in SUBSET Nat, S # {}
  PROVE  \E n \in S : \A m \in S : n <= m
<1> DEFINE R == OpToRel(<, Nat)
<1>1. IsWellFoundedOn(R, Nat) BY NatLessThanWellFounded
<1>2. \A m, n \in Nat : m < n => <<m, n>> \in R BY DEF OpToRel
<1> HIDE DEF R
<1>3. PICK n \in S : \A m \in S : ~ (<<m, n>> \in R) BY <1>1, WFMin
<1>4. ASSUME NEW m \in S PROVE n <= m
  <2>1. ~ (m < n) BY <1>2, <1>3
  <2>2. m \in Nat /\ n \in Nat OBVIOUS
  <2> QED BY <2>1, <2>2
<1> QED BY <1>4

\* Induction, on a set of numbers.
LEMMA Induction ==
  ASSUME NEW S, 0 \in S, \A n \in Nat : n \in S => n + 1 \in S
  PROVE  Nat \subseteq S
<1> SUFFICES ASSUME Nat \ S # {} PROVE FALSE OBVIOUS
<1>1. PICK n \in Nat \ S : \A m \in Nat \ S : n <= m
  <2> DEFINE B == Nat \ S
  <2>1. B \in SUBSET Nat /\ B # {} OBVIOUS
  <2> HIDE DEF B
  <2>2. \E n \in B : \A m \in B : n <= m BY <2>1, Least
  <2> QED BY <2>2 DEF B
<1>2. n # 0 /\ n - 1 \in Nat BY <1>1
<1>3. n - 1 \in S BY <1>1, <1>2
<1>4. (n - 1) + 1 = n BY <1>1
<1> QED BY <1>1, <1>2, <1>3, <1>4

Once(s) == \A i, j \in 1 .. Len(s) : s[i] = s[j] => i = j

\* What is picked of the first m of s when g[k] is of the first k.
Picking(s, S, once, g, m) ==
  IF m = 0 THEN << >>
  ELSE IF s[m] \in S /\ ~(once /\ Contains(g[m - 1], s[m])) THEN Append(g[m - 1], s[m])
  ELSE g[m - 1]
Chain(s, S, once, n, g) == g = [m \in 0 .. n |-> Picking(s, S, once, g, m)]

\* Picked is defined by what is picked of each prefix.
LEMMA PickedChain ==
  ASSUME NEW S, NEW s, NEW once, Len(s) \in Nat
  PROVE  \E g : Chain(s, S, once, Len(s), g) /\ Picked(s, S, once) = g[Len(s)]
<1> DEFINE E == { n \in Nat : \E g : Chain(s, S, once, n, g) }
<1>1. 0 \in E
  <2> DEFINE g == [m \in 0 .. 0 |-> << >>]
  <2>1. Chain(s, S, once, 0, g) BY DEF Chain, Picking
  <2> QED BY <2>1
<1>2. ASSUME NEW n \in Nat, n \in E PROVE n + 1 \in E
  <2>1. PICK g : Chain(s, S, once, n, g) BY <1>2
  <2> DEFINE h == [m \in 0 .. n + 1 |-> IF m = n + 1 THEN Picking(s, S, once, g, n + 1) ELSE g[m]]
  <2>2. \A m \in 0 .. n : h[m] = g[m] OBVIOUS
  <2>3. \A m \in 0 .. n : g[m] = Picking(s, S, once, g, m) BY <2>1 DEF Chain
  <2>4. h[n + 1] = Picking(s, S, once, g, n + 1) OBVIOUS
  <2>5. h = [m \in 0 .. n + 1 |-> h[m]] OBVIOUS
  <2> HIDE DEF h
  <2>6. \A m \in 0 .. n + 1 : m # 0 => h[m - 1] = g[m - 1] BY <2>2
  <2>7. \A m \in 0 .. n + 1 : Picking(s, S, once, h, m) = Picking(s, S, once, g, m) BY <2>6 DEF Picking
  <2>8. \A m \in 0 .. n + 1 : h[m] = Picking(s, S, once, h, m)
    BY <2>2, <2>3, <2>4, <2>7
  <2>9. Chain(s, S, once, n + 1, h) BY <2>5, <2>8 DEF Chain
  <2> QED BY <2>9
<1> HIDE DEF E
<1>3. Nat \subseteq E BY <1>1, <1>2, Induction
<1>4. \E g : Chain(s, S, once, Len(s), g) BY <1>3 DEF E
<1> DEFINE p == CHOOSE g : Chain(s, S, once, Len(s), g)
<1>5. Chain(s, S, once, Len(s), p) BY <1>4
<1>6. Picked(s, S, once) = p[Len(s)] BY DEF Picked, Chain, Picking
<1> QED BY <1>5, <1>6

\* What is picked of s is from S, has nothing twice unless s does, and is all of s
\* if that is from S.
LEMMA PickedFrom ==
  ASSUME NEW T, NEW S, NEW s \in Seq(T), NEW once
  PROVE  /\ Picked(s, S, once) \in Seq(S)
         /\ Once(s) \/ once => Once(Picked(s, S, once))
         /\ s \in Seq(S) /\ (once => Once(s)) => Picked(s, S, once) = s
<1>0. Len(s) \in Nat /\ DOMAIN s = 1 .. Len(s) BY LenProperties
<1>1. PICK g : Chain(s, S, once, Len(s), g) /\ Picked(s, S, once) = g[Len(s)] BY <1>0, PickedChain
<1> DEFINE Good(n) ==
      /\ g[n] \in Seq(S)
      /\ \A i \in 1 .. Len(g[n]) : \E j \in 1 .. n : g[n][i] = s[j]
      /\ Once(s) \/ once => Once(g[n])
      /\ s \in Seq(S) /\ (once => Once(s)) => Len(g[n]) = n /\ \A i \in 1 .. n : g[n][i] = s[i]
    E == { n \in Nat : n <= Len(s) => Good(n) }
<1>2. \A n \in 0 .. Len(s) : g[n] = Picking(s, S, once, g, n) BY <1>1 DEF Chain
<1>3. 0 \in E
  <2>1. g[0] = << >> BY <1>0, <1>2 DEF Picking
  <2>2. Good(0) BY <2>1 DEF Once
  <2> QED BY <2>2
<1>4. ASSUME NEW n \in Nat, n \in E PROVE n + 1 \in E
  <2> HIDE DEF Good
  <2>1. SUFFICES ASSUME n + 1 <= Len(s) PROVE Good(n + 1) OBVIOUS
  <2>2. Good(n) BY <1>0, <1>4, <2>1
  <2> USE DEF Good
  <2>3. g[n + 1] = IF s[n + 1] \in S /\ ~(once /\ Contains(g[n], s[n + 1]))
                   THEN Append(g[n], s[n + 1]) ELSE g[n]
    <3>1. n + 1 \in 0 .. Len(s) /\ n + 1 # 0 /\ (n + 1) - 1 = n BY <1>0, <2>1
    <3> QED BY <1>2, <3>1 DEF Picking
  <2>4. CASE s[n + 1] \in S /\ ~(once /\ Contains(g[n], s[n + 1]))
    <3>1. g[n + 1] = Append(g[n], s[n + 1]) BY <2>3, <2>4
    <3>2. /\ g[n + 1] \in Seq(S) /\ Len(g[n]) \in Nat /\ Len(g[n + 1]) = Len(g[n]) + 1
          /\ \A i \in 1 .. Len(g[n]) : g[n + 1][i] = g[n][i]
          /\ g[n + 1][Len(g[n]) + 1] = s[n + 1]
      BY <2>2, <2>4, <3>1, AppendProperties, LenProperties
    <3>3. \A i \in 1 .. Len(g[n + 1]) : \E j \in 1 .. n + 1 : g[n + 1][i] = s[j]
      <4> SUFFICES ASSUME NEW i \in 1 .. Len(g[n + 1]) PROVE \E j \in 1 .. n + 1 : g[n + 1][i] = s[j]
        OBVIOUS
      <4>1. CASE i \in 1 .. Len(g[n]) BY <2>2, <3>2, <4>1
      <4>2. CASE i = Len(g[n]) + 1 BY <3>2, <4>2
      <4> QED BY <3>2, <4>1, <4>2
    <3>4. ASSUME Once(s) \/ once PROVE Once(g[n + 1])
      <4>1. Once(g[n]) BY <2>2, <3>4
      <4>2. \A i \in 1 .. Len(g[n]) : g[n][i] # s[n + 1]
        <5>1. CASE once BY <2>4, <5>1, <3>2 DEF Contains
        <5>2. CASE Once(s)
          <6> SUFFICES ASSUME NEW i \in 1 .. Len(g[n]), g[n][i] = s[n + 1] PROVE FALSE OBVIOUS
          <6>1. PICK j \in 1 .. n : g[n][i] = s[j] BY <2>2
          <6>2. j \in 1 .. Len(s) /\ n + 1 \in 1 .. Len(s) /\ j # n + 1 BY <1>0, <2>1, <6>1
          <6> QED BY <5>2, <6>1, <6>2 DEF Once
        <5> QED BY <3>4, <5>1, <5>2
      <4>3. \A i \in 1 .. Len(g[n + 1]) : i \in 1 .. Len(g[n]) \/ i = Len(g[n]) + 1 BY <3>2
      <4> QED BY <4>1, <4>2, <4>3, <3>2 DEF Once
    <3>5. ASSUME s \in Seq(S), once => Once(s)
          PROVE  Len(g[n + 1]) = n + 1 /\ \A i \in 1 .. n + 1 : g[n + 1][i] = s[i]
      <4>1. Len(g[n]) = n /\ \A i \in 1 .. n : g[n][i] = s[i] BY <2>2, <3>5
      <4> QED BY <3>2, <4>1
    <3> QED BY <3>2, <3>3, <3>4, <3>5
  <2>5. CASE ~(s[n + 1] \in S /\ ~(once /\ Contains(g[n], s[n + 1])))
    <3>1. g[n + 1] = g[n] BY <2>3, <2>5
    <3>2. \A i \in 1 .. Len(g[n + 1]) : \E j \in 1 .. n + 1 : g[n + 1][i] = s[j] BY <2>2, <3>1
    <3>3. ~(s \in Seq(S) /\ (once => Once(s)))
      <4> SUFFICES ASSUME s \in Seq(S), once => Once(s) PROVE FALSE OBVIOUS
      <4>1. n + 1 \in 1 .. Len(s) BY <1>0, <2>1
      <4>2. s[n + 1] \in S BY <4>1, ElementOfSeq
      <4>3. once /\ Contains(g[n], s[n + 1]) BY <2>5, <4>2
      <4>4. Len(g[n]) = n /\ \A i \in 1 .. n : g[n][i] = s[i] BY <2>2
      <4>5. PICK i \in 1 .. n : g[n][i] = s[n + 1] BY <4>3, <4>4 DEF Contains
      <4>6. s[i] = s[n + 1] /\ i \in 1 .. Len(s) /\ i # n + 1 BY <1>0, <2>1, <4>4, <4>5
      <4> QED BY <4>1, <4>3, <4>6 DEF Once
    <3> QED BY <2>2, <3>1, <3>2, <3>3
  <2> QED BY <2>4, <2>5
<1> HIDE DEF E
<1>5. Nat \subseteq E BY <1>3, <1>4, Induction
<1>6. Good(Len(s)) BY <1>0, <1>5 DEF E
<1>7. ASSUME s \in Seq(S), once => Once(s) PROVE g[Len(s)] = s
  BY <1>6, <1>7, <1>0, LenProperties, SeqEqual
<1> QED BY <1>1, <1>6, <1>7

-----------------------------------------------------------------------------
(* The settings and what is stored of them.                                *)

\* Filters as the app lets them be chosen.
Clean(f) ==
  /\ f \in KeptFilters
  /\ web => Once(f.types) /\ Once(f.owners)

Stored ==
  /\ web \in BOOLEAN /\ chips \subseteq Operators
  /\ Ui(ui) /\ Clean(ui.filters)
  /\ ui.stops \in BOOLEAN /\ ui.numbers \in BOOLEAN /\ ui.multi \in BOOLEAN
  /\ DOMAIN disk = {"theme", "lang", "stops", "numbers", "multi", "filters", "view"}
  /\ ~full =>
       /\ getSavedTheme(disk.theme) = ui.theme /\ getSavedLang(disk.lang) = ui.lang
       /\ \A k \in Flags : getSavedFlag(k, disk[k]) = ui[k]
       /\ disk.filters = IF ui.filters = NoFilters THEN Nothing ELSE ui.filters

\* Sequences over a larger set.
LEMMA Wider ==
  ASSUME NEW R, NEW S, R \subseteq S, NEW s \in Seq(R)
  PROVE  s \in Seq(S)
<1>1. Len(s) \in Nat /\ DOMAIN s = 1 .. Len(s) /\ \A i \in 1 .. Len(s) : s[i] \in R
  BY LenProperties, ElementOfSeq
<1>2. s \in [1 .. Len(s) -> S]
  <2>1. s = [i \in DOMAIN s |-> s[i]] BY SeqDef
  <2> QED BY <1>1, <2>1
<1> QED BY <1>1, <1>2, SeqDef

\* Operators that were cut to 64 are not cut again.
LEMMA Prefix ==
  ASSUME NEW S, NEW s \in Seq(S)
  PROVE  /\ Shortened(s) \in Seq(S) /\ (Once(s) => Once(Shortened(s)))
         /\ Shortened(Shortened(s)) = Shortened(s) /\ Shortened(<< >>) = << >>
<1> DEFINE cut(n) == IF n < 64 THEN n ELSE 64
<1>0. Len(s) \in Nat /\ \A i \in 1 .. Len(s) : s[i] \in S BY LenProperties, ElementOfSeq
<1>1. cut(Len(s)) \in Nat /\ cut(Len(s)) <= Len(s) /\ cut(cut(Len(s))) = cut(Len(s)) BY <1>0
<1> DEFINE n == cut(Len(s))
           r == SubSeq(s, 1, n)
<1>2. \A i \in 1 .. n : s[i] \in S BY <1>0, <1>1
<1> HIDE DEF n
<1>3. n \in Nat /\ n <= Len(s) /\ cut(n) = n BY <1>1 DEF n
<1>4. r \in Seq(S) /\ Len(r) = n /\ \A i \in 1 .. n : r[i] = s[i]
  BY <1>2, <1>3, SubSeqProperties
<1>5. Shortened(s) = r BY DEF Shortened, n
<1> HIDE DEF r
<1>6. Shortened(r) = r
  <2>1. Shortened(r) = SubSeq(r, 1, n) BY <1>3, <1>4 DEF Shortened
  <2>2. \A i \in 1 .. n : r[i] \in S BY <1>2, <1>4
  <2>3. SubSeq(r, 1, n) \in Seq(S) /\ Len(SubSeq(r, 1, n)) = n
        /\ \A i \in 1 .. n : SubSeq(r, 1, n)[i] = r[i]
    BY <1>3, <2>2, SubSeqProperties
  <2> DEFINE q == SubSeq(r, 1, n)
  <2> HIDE DEF q
  <2>4. q = r BY <1>4, <2>3, SeqEqual DEF q
  <2> QED BY <2>1, <2>4 DEF q
<1>7. Once(s) => Once(r) BY <1>3, <1>4, <1>0 DEF Once
<1>8. Shortened(<< >>) = << >> BY EmptySeq DEF Shortened
<1> QED BY <1>4, <1>5, <1>6, <1>7, <1>8

\* Whatever is stored, what is read of it are filters the chips can show.
LEMMA SavedFilters ==
  ASSUME ConstantsAssumption, NEW raw,
         raw # Nothing => /\ raw.types = Nothing \/ raw.types \in Seq(Int)
                          /\ raw.owners = Nothing \/ raw.owners \in Seq(STRING)
  PROVE  Clean(getSavedFilters(raw))
<1>1. CASE raw = Nothing
  <2>1. << >> \in Seq(KnownTypes) /\ << >> \in Seq(ValidOwners) /\ Once(<< >>) BY EmptySeq DEF Once
  <2> QED BY <1>1, <2>1 DEF getSavedFilters, NoFilters, Clean, KeptFilters
<1>2. CASE raw # Nothing
  <2> DEFINE p == Picked(Array(raw.types), KnownTypes, web)
             q == Picked(Array(raw.owners), ValidOwners, web)
  <2>1. Array(raw.types) \in Seq(Int) /\ Array(raw.owners) \in Seq(STRING)
    BY <1>2, EmptySeq DEF Array
  <2>2. p \in Seq(KnownTypes) /\ (web => Once(p)) BY <2>1, PickedFrom
  <2>3. q \in Seq(ValidOwners) /\ (web => Once(q)) BY <2>1, PickedFrom
  <2>4. getSavedFilters(raw) = [types |-> p, owners |-> Shortened(q)] BY <1>2 DEF getSavedFilters
  <2> HIDE DEF p, q
  <2>5. Shortened(q) \in Seq(ValidOwners) /\ (web => Once(Shortened(q))) BY <2>3, Prefix
  <2> QED BY <2>2, <2>4, <2>5 DEF Clean, KeptFilters
<1> QED BY <1>1, <1>2

\* What is kept of f is read as f.
LEMMA ReadBack ==
  ASSUME NothingAssumption, NEW f, Clean(f), f # NoFilters, f # Nothing
  PROVE  getSavedFilters(f) = [types |-> f.types, owners |-> Shortened(f.owners)]
<1>1. f.types \in Seq(KnownTypes) /\ f.owners \in Seq(ValidOwners)
      /\ (web => Once(f.types)) /\ (web => Once(f.owners))
  BY DEF Clean, KeptFilters
<1>2. Picked(f.types, KnownTypes, web) = f.types BY <1>1, PickedFrom
<1>3. Picked(f.owners, ValidOwners, web) = f.owners BY <1>1, PickedFrom
<1>4. Array(f.types) = f.types /\ Array(f.owners) = f.owners
  <2>1. f.types # Nothing BY <1>1 DEF NothingAssumption
  <2>2. f.owners # Nothing
    <3>1. f.owners \in Seq(STRING)
      <4>1. ValidOwners \subseteq STRING BY DEF ValidOwners
      <4> QED BY <1>1, <4>1, Wider
    <3> QED BY <3>1 DEF NothingAssumption
  <2> QED BY <2>1, <2>2 DEF Array
<1> QED BY <1>2, <1>3, <1>4 DEF getSavedFilters

\* A chip is toggled.
LEMMA ToggledClean ==
  ASSUME NEW S, NEW s \in Seq(S), NEW x \in S
  PROVE  Toggled(s, x) \in Seq(S) /\ (Once(s) => Once(Toggled(s, x)))
<1>0. Len(s) \in Nat /\ \A i \in 1 .. Len(s) : s[i] \in S BY LenProperties, ElementOfSeq
<1>1. CASE Contains(s, x)
  <2> DEFINE R == ToSet(s) \ {x}
             r == Picked(s, R, FALSE)
  <2>1. R \subseteq S
    <3>1. DOMAIN s = 1 .. Len(s) BY LenProperties
    <3> QED BY <1>0, <3>1 DEF ToSet
  <2> HIDE DEF R
  <2>2. r \in Seq(R) /\ (Once(s) => Once(r)) BY PickedFrom
  <2> HIDE DEF r
  <2>3. r \in Seq(S) BY <2>1, <2>2, Wider
  <2> QED BY <1>1, <2>2, <2>3 DEF Toggled, R, r
<1>2. CASE ~Contains(s, x)
  <2>1. Toggled(s, x) = Append(s, x) BY <1>2 DEF Toggled
  <2> DEFINE r == Append(s, x)
  <2>2. r \in Seq(S) /\ Len(r) = Len(s) + 1 /\ r[Len(s) + 1] = x
        /\ \A i \in 1 .. Len(s) : r[i] = s[i]
    BY AppendProperties
  <2> HIDE DEF r
  <2>3. \A i \in 1 .. Len(s) : s[i] # x BY <1>2 DEF Contains
  <2>4. Once(s) => Once(r)
    <3>1. \A i \in 1 .. Len(r) : i \in 1 .. Len(s) \/ i = Len(s) + 1 BY <1>0, <2>2
    <3> QED BY <2>2, <2>3, <3>1 DEF Once
  <2> QED BY <2>1, <2>2, <2>4 DEF r
<1> QED BY <1>1, <1>2

Keys == {"theme", "lang", "stops", "numbers", "multi", "filters"}

\* One setting is changed, and stored as what reads as it.
LEMMA StoresOne ==
  ASSUME Stored, NEW k \in Keys, NEW x, NEW raw, Changed(k, x, raw),
         k = "theme" => getSavedTheme(raw) = x,
         k = "lang" => getSavedLang(raw) = x,
         k \in Flags => x \in BOOLEAN /\ getSavedFlag(k, raw) = x,
         k = "filters" => Clean(x) /\ raw = IF x = NoFilters THEN Nothing ELSE x
  PROVE  Stored'
<1>1. /\ ui' = [ui EXCEPT ![k] = x] /\ web' = web /\ full' = full /\ chips' = chips
      /\ ~full => disk' = [disk EXCEPT ![k] = raw]
      /\ full => disk' = disk
  BY DEF Changed, Saved
<1>2. /\ Ui(ui') /\ ui'[k] = x
      /\ \A j \in Keys : j # k => ui'[j] = ui[j]
  <2>1. DOMAIN ui = Keys BY DEF Stored, Ui, Keys
  <2>2. Ui(ui') BY UiChanged DEF Stored, Keys
  <2> QED BY <1>1, <2>1, <2>2
<1>3. /\ DOMAIN disk' = DOMAIN disk
      /\ ~full => disk'[k] = raw /\ \A j \in Keys : j # k => disk'[j] = disk[j]
  BY <1>1 DEF Stored, Keys
<1>4. ui'.stops \in BOOLEAN /\ ui'.numbers \in BOOLEAN /\ ui'.multi \in BOOLEAN
  BY <1>2 DEF Stored, Keys, Flags
<1>5. Clean(ui.filters)'
  <2>1. Clean(ui'.filters) BY <1>2 DEF Stored, Keys
  <2> QED BY <1>1, <2>1 DEF Clean
<1>6. ASSUME ~full
      PROVE  /\ getSavedTheme(disk'.theme) = ui'.theme /\ getSavedLang(disk'.lang) = ui'.lang
             /\ \A j \in Flags : getSavedFlag(j, disk'[j]) = ui'[j]
             /\ disk'.filters = IF ui'.filters = NoFilters THEN Nothing ELSE ui'.filters
  <2>1. getSavedTheme(disk'.theme) = ui'.theme
    <3>1. CASE k = "theme" BY <1>2, <1>3, <1>6, <3>1
    <3>2. CASE k # "theme" BY <1>2, <1>3, <1>6, <3>2 DEF Stored, Keys
    <3> QED BY <3>1, <3>2
  <2>2. getSavedLang(disk'.lang) = ui'.lang
    <3>1. CASE k = "lang" BY <1>2, <1>3, <1>6, <3>1
    <3>2. CASE k # "lang" BY <1>2, <1>3, <1>6, <3>2 DEF Stored, Keys
    <3> QED BY <3>1, <3>2
  <2>3. ASSUME NEW j \in Flags PROVE getSavedFlag(j, disk'[j]) = ui'[j]
    <3>1. CASE k = j BY <1>2, <1>3, <1>6, <3>1
    <3>2. CASE k # j
      <4>1. j \in Keys BY DEF Flags, Keys
      <4>2. getSavedFlag(j, disk[j]) = ui[j] BY <1>6 DEF Stored
      <4> QED BY <1>2, <1>3, <1>6, <3>2, <4>1, <4>2
    <3> QED BY <3>1, <3>2
  <2>4. disk'.filters = IF ui'.filters = NoFilters THEN Nothing ELSE ui'.filters
    <3>1. CASE k = "filters" BY <1>2, <1>3, <1>6, <3>1
    <3>2. CASE k # "filters" BY <1>2, <1>3, <1>6, <3>2 DEF Stored, Keys
    <3> QED BY <3>1, <3>2
  <2> QED BY <2>1, <2>2, <2>3, <2>4
<1>7. ASSUME ~full' PROVE (getSavedTheme(disk.theme) = ui.theme)'
  <2>1. getSavedTheme(disk'.theme) = ui'.theme BY <1>1, <1>6, <1>7
  <2> QED BY <1>1, <2>1 DEF getSavedTheme, Themes
<1> QED BY <1>1, <1>2, <1>3, <1>4, <1>5, <1>6, <1>7 DEF Stored

\* No setting is changed.
LEMMA StoredStays ==
  ASSUME Stored, UNCHANGED <<web, ui, full, chips>>,
         disk' = disk \/ (\E v : disk' = [disk EXCEPT !["view"] = v])
  PROVE  Stored'
<1>1. DOMAIN disk' = DOMAIN disk /\ \A k \in Keys : disk'[k] = disk[k]
  BY DEF Stored, Keys
<1>2. Clean(ui.filters)' BY DEF Stored, Clean
<1>3. ASSUME ~full' PROVE (getSavedTheme(disk.theme) = ui.theme)'
  <2>1. getSavedTheme(disk'.theme) = ui'.theme BY <1>1, <1>3 DEF Stored, Keys
  <2> QED BY <2>1 DEF getSavedTheme, Themes
<1>4. ASSUME ~full', NEW j \in Flags PROVE getSavedFlag(j, disk'[j]) = ui'[j]
  <2>1. j \in Keys BY DEF Flags, Keys
  <2>2. getSavedFlag(j, disk[j]) = ui[j] BY <1>4 DEF Stored
  <2> QED BY <1>1, <2>1, <2>2
<1> QED BY <1>1, <1>2, <1>3, <1>4 DEF Stored, Keys

\* At the start the store is read, and the filters written back.
LEMMA StoredStarts == Init => Stored
<1> SUFFICES ASSUME Init PROVE Stored OBVIOUS
<1>1. PICK d \in Disks : Read(d) BY DEF Init, PrefsInit
<1>2. /\ DOMAIN d = {"theme", "lang", "stops", "numbers", "multi", "filters", "view"}
      /\ d.filters # Nothing => /\ d.filters.types = Nothing \/ d.filters.types \in Seq(Int)
                                /\ d.filters.owners = Nothing \/ d.filters.owners \in Seq(STRING)
  BY ConstantsAssumption DEF ConstantsAssumption
<1> DEFINE f == getSavedFilters(d.filters)
<1>3. Clean(f) BY <1>2, ConstantsAssumption, SavedFilters
<1> HIDE DEF f
<1>4. /\ ui = Restored(d) /\ chips = {}
      /\ disk = IF full THEN d ELSE [d EXCEPT !.filters = IF f = NoFilters THEN Nothing ELSE f]
  BY <1>1 DEF Read, f
<1>5. /\ Ui(ui) /\ ui.filters = f /\ ui.theme = getSavedTheme(d.theme) /\ ui.lang = getSavedLang(d.lang)
      /\ \A k \in Flags : ui[k] = getSavedFlag(k, d[k])
  BY <1>4 DEF Restored, Ui, Flags, f
<1>6. ui.stops \in BOOLEAN /\ ui.numbers \in BOOLEAN /\ ui.multi \in BOOLEAN
  BY <1>5 DEF Flags, getSavedFlag
<1>7. /\ DOMAIN disk = DOMAIN d
      /\ ~full => /\ \A k \in DOMAIN d : k # "filters" => disk[k] = d[k]
                  /\ disk.filters = IF f = NoFilters THEN Nothing ELSE f
  BY <1>2, <1>4
<1>8. web \in BOOLEAN BY DEF Init, PrefsInit
<1>9. ~full => \A k \in Flags : disk[k] = d[k] BY <1>2, <1>7 DEF Flags
<1> QED BY <1>2, <1>3, <1>4, <1>5, <1>6, <1>7, <1>8, <1>9 DEF Stored

\* Who leaves the settings alone.
LEMMA SettingsStay ==
  ASSUME User \/ PlanArrives \/ Frame \/ SocketOpen \/ SocketLost \/ Flush \/ StopsAnswer \/ StopsFail
           \/ UNCHANGED vars
  PROVE  UNCHANGED <<web, ui, disk, full, chips>>
<1> USE DEF prefs
<1>1. ASSUME NEW ids, NEW id, NEW on, NEW f, NEW s, Show(ids, id, on, f, s)
      PROVE  UNCHANGED <<web, ui, disk, full, chips>>
  BY <1>1 DEF Show
<1>2. CASE (\E p \in Cameras, near \in BOOLEAN : Drag(p, near)) \/ (\E p \in Places : Fly(p))
  BY <1>2 DEF Drag, Fly
<1>3. CASE \E v \in Vehicles : (\E p \in Places : Open(v, p)) \/ Pick(v) \/ closeTab(v)
  BY <1>1, <1>3 DEF Open, selectVehicle, Pick, closeTab
<1>4. CASE (\E p \in Stops : openStop(p)) \/ closeAll \/ toggleIsolate \/ follow \/ closeStop
  BY <1>1, <1>4 DEF openStop, closeAll, toggleIsolate, follow, closeStop
<1>5. CASE Frame BY <1>5 DEF Frame, Entering, Moving, Leaving, Snapshot, onUpdate
<1>6. CASE PlanArrives \/ SocketOpen \/ SocketLost \/ Flush \/ StopsAnswer \/ StopsFail
  BY <1>6 DEF PlanArrives, SocketOpen, SocketLost, Flush, StopsAnswer, StopsFail
<1>7. CASE UNCHANGED vars BY <1>7 DEF vars
<1> QED BY <1>2, <1>3, <1>4, <1>5, <1>6, <1>7 DEF User

\* The store follows the settings.
LEMMA StoredSteps == Stored /\ [Next]_vars => Stored'
<1> SUFFICES ASSUME Stored, [Next]_vars PROVE Stored' OBVIOUS
<1>1. ASSUME NEW k \in Flags, setFlag(k) PROVE Stored'
  <2>1. Changed(k, ~ui[k], IF ui[k] THEN "0" ELSE "1") /\ k \in Keys
    BY <1>1 DEF setFlag, Flags, Keys
  <2>2. ui[k] \in BOOLEAN BY DEF Flags, Stored
  <2>3. getSavedFlag(k, IF ui[k] THEN "0" ELSE "1") = ~ui[k] BY <2>2 DEF getSavedFlag, Flags
  <2>4. (~ui[k]) \in BOOLEAN BY <2>2
  <2>5. k # "theme" /\ k # "lang" /\ k # "filters" BY DEF Flags
  <2> QED BY <2>1, <2>3, <2>4, <2>5, StoresOne
<1>2. ASSUME NEW f, Clean(f), setFilters(f) PROVE Stored'
  <2>1. Changed("filters", f, IF f = NoFilters THEN Nothing ELSE f) /\ "filters" \in Keys
        /\ "filters" \notin Flags
    BY <1>2 DEF setFilters, Keys, Flags
  <2> QED BY <1>2, <2>1, StoresOne
<1>3. CASE \E t \in Themes, b \in BOOLEAN : Theme(t, b)
  <2>1. PICK t \in Themes : setTheme(t) BY <1>3 DEF Theme
  <2>2. Changed("theme", t, t) /\ getSavedTheme(t) = t /\ "theme" \in Keys /\ "theme" \notin Flags
    BY <2>1 DEF setTheme, getSavedTheme, Keys, Flags
  <2> QED BY <2>2, StoresOne
<1>4. CASE ShowStops \/ StopNumbers \/ Multi BY <1>1, <1>4 DEF ShowStops, StopNumbers, Multi, Flags
<1>5. CASE Filter
  <2>1. Ui(ui) /\ Clean(ui.filters) /\ chips \subseteq ValidOwners /\ ui.filters \in KeptFilters
    BY ConstantsAssumption DEF Stored, ConstantsAssumption, Clean
  <2>2. ASSUME NEW t \in KnownTypes, toggleType(t) PROVE Stored'
    <3> DEFINE f == [ui.filters EXCEPT !.types = Toggled(ui.filters.types, t)]
    <3>1. Toggled(ui.filters.types, t) \in Seq(KnownTypes)
          /\ (web => Once(Toggled(ui.filters.types, t)))
      BY <2>1, ToggledClean DEF Clean, KeptFilters
    <3>2. Clean(f) BY <2>1, <3>1 DEF Clean, KeptFilters
    <3>3. setFilters(f) BY <2>2 DEF toggleType
    <3> HIDE DEF f
    <3> QED BY <1>2, <3>2, <3>3
  <2>3. ASSUME NEW o \in chips, toggleOwner(o) PROVE Stored'
    <3> DEFINE f == [ui.filters EXCEPT !.owners = Toggled(ui.filters.owners, o)]
    <3>1. Toggled(ui.filters.owners, o) \in Seq(ValidOwners)
          /\ (web => Once(Toggled(ui.filters.owners, o)))
      BY <2>1, ToggledClean DEF Clean, KeptFilters
    <3>2. Clean(f) BY <2>1, <3>1 DEF Clean, KeptFilters
    <3>3. setFilters(f) BY <2>3 DEF toggleOwner
    <3> HIDE DEF f
    <3> QED BY <1>2, <3>2, <3>3
  <2> QED BY <1>5, <2>2, <2>3 DEF Filter
<1>6. CASE Elsewhere
  <2>2. ASSUME NEW l \in Langs, setLang(l) PROVE Stored'
    <3>1. Changed("lang", l, l) /\ getSavedLang(l) = l /\ "lang" \in Keys /\ "lang" \notin Flags
      BY <2>2 DEF setLang, getSavedLang, Keys, Flags
    <3> QED BY <3>1, StoresOne
  <2>3. CASE OperatorsArrive
    <3>1. chips' = Operators /\ UNCHANGED <<web, ui, disk, full>> BY <2>3 DEF OperatorsArrive
    <3>2. Clean(ui.filters)' BY <3>1 DEF Stored, Clean
    <3>3. ASSUME ~full' PROVE (getSavedTheme(disk.theme) = ui.theme)'
      <4>1. getSavedTheme(disk'.theme) = ui'.theme BY <3>1, <3>3 DEF Stored
      <4> QED BY <3>1, <4>1 DEF getSavedTheme, Themes
    <3> QED BY <3>1, <3>2, <3>3 DEF Stored
  <2> QED BY <1>6, <2>2, <2>3 DEF Elsewhere
<1>7. CASE Settle \/ StyleLoad
  <2>1. UNCHANGED <<web, ui, full, chips>> /\ disk' = Saved("view", at)
    BY <1>7 DEF Settle, StyleLoad, resync
  <2> QED BY <2>1, StoredStays DEF Saved
<1>8. CASE User \/ PlanArrives \/ Frame \/ SocketOpen \/ SocketLost \/ Flush \/ StopsAnswer \/ StopsFail
           \/ UNCHANGED vars
  <2>1. UNCHANGED <<web, ui, disk, full, chips>> BY <1>8, SettingsStay
  <2> QED BY <2>1, StoredStays
<1> QED BY <1>3, <1>4, <1>5, <1>6, <1>7, <1>8 DEF Next, Settings

\* The store has the settings at any time.
LEMMA Storing == Spec => []Stored
BY StoredStarts, StoredSteps, PTL DEF Spec

\* The settings on the screen are read back by the next start of the program,
\* whatever the store held and in whatever order the menus were used, unless the
\* store refuses writes; of the operators the first 64 are.
THEOREM SettingsKept == Spec => []SettingsSurvive
<1>1. Stored => SettingsSurvive
  <2> SUFFICES ASSUME Stored, ~full
               PROVE  Restored(disk) = [ui EXCEPT !.filters.owners = Shortened(@)]
    BY DEF SettingsSurvive
  <2>1. Ui(ui) /\ Clean(ui.filters) /\ ui.filters = [types |-> ui.filters.types, owners |-> ui.filters.owners]
    BY DEF Stored, Clean, KeptFilters
  <2>2. getSavedFilters(disk.filters) = [types |-> ui.filters.types, owners |-> Shortened(ui.filters.owners)]
    <3>1. disk.filters = IF ui.filters = NoFilters THEN Nothing ELSE ui.filters BY DEF Stored
    <3>2. CASE ui.filters = NoFilters
      <4>1. Shortened(<< >>) = << >>
        <5>1. << >> \in Seq(ValidOwners) BY EmptySeq
        <5> QED BY <5>1, Prefix
      <4> QED BY <3>1, <3>2, <4>1 DEF getSavedFilters, NoFilters
    <3>3. CASE ui.filters # NoFilters
      <4>1. ui.filters # Nothing BY <2>1, ConstantsAssumption DEF ConstantsAssumption, Clean
      <4> QED BY <2>1, <3>1, <3>3, <4>1, ReadBack, NothingAssumption
    <3> QED BY <3>2, <3>3
  <2>3. [ui EXCEPT !.filters.owners = Shortened(ui.filters.owners)] =
          [theme |-> ui.theme, lang |-> ui.lang, stops |-> ui.stops, numbers |-> ui.numbers,
           multi |-> ui.multi,
           filters |-> [types |-> ui.filters.types, owners |-> Shortened(ui.filters.owners)]]
    <3> DEFINE q == Shortened(ui.filters.owners)
    <3> HIDE DEF q
    <3>1. [ui.filters EXCEPT !.owners = q] = [types |-> ui.filters.types, owners |-> q] BY <2>1
    <3>2. [ui EXCEPT !.filters.owners = q] = [ui EXCEPT !.filters = [ui.filters EXCEPT !.owners = q]]
      BY <2>1 DEF Ui
    <3>3. [ui EXCEPT !.filters = [types |-> ui.filters.types, owners |-> q]] =
            [theme |-> ui.theme, lang |-> ui.lang, stops |-> ui.stops, numbers |-> ui.numbers,
             multi |-> ui.multi, filters |-> [types |-> ui.filters.types, owners |-> q]]
      BY <2>1 DEF Ui
    <3> QED BY <3>1, <3>2, <3>3 DEF q
  <2>4. \A k \in Flags : getSavedFlag(k, disk[k]) = ui[k] BY DEF Stored
  <2>5. getSavedFlag("stops", disk.stops) = ui.stops /\ getSavedFlag("numbers", disk.numbers) = ui.numbers
        /\ getSavedFlag("multi", disk.multi) = ui.multi
    BY <2>4 DEF Flags
  <2> QED BY <2>2, <2>3, <2>5 DEF Restored, Stored
<1> QED BY <1>1, Storing, PTL

-----------------------------------------------------------------------------
(* The requests, on the wire.                                              *)

Table(number) == \A f, g \in DOMAIN number : number[f] = number[g] => f = g

\* What was encoded is decoded, if the table gives each field a number of its own.
LEMMA RoundTrip ==
  ASSUME NEW number, Table(number), NEW m, DOMAIN m \subseteq DOMAIN number
  PROVE  Named(number, Numbered(number, m)) = [f \in DOMAIN m |-> m[f]]
<1> DEFINE w == Numbered(number, m)
<1>1. DOMAIN w = { number[f] : f \in DOMAIN m } BY DEF Numbered
<1>2. ASSUME NEW f \in DOMAIN m PROVE w[number[f]] = m[f]
  <2>1. (CHOOSE g \in DOMAIN m : number[g] = number[f]) = f BY DEF Table
  <2>2. w[number[f]] = m[CHOOSE g \in DOMAIN m : number[g] = number[f]]
    BY <1>1 DEF Numbered
  <2> QED BY <2>1, <2>2
<1> HIDE DEF w
<1>3. { g \in DOMAIN number : number[g] \in DOMAIN w } = DOMAIN m
  BY <1>1 DEF Table
<1> QED BY <1>2, <1>3 DEF Named, w

\* Defaults are of the fields that are not there.
LEMMA FilledIn ==
  ASSUME NEW d, NEW m, DOMAIN m \subseteq DOMAIN d
  PROVE  Filled(d, m) = [f \in DOMAIN d |-> IF f \in DOMAIN m THEN m[f] ELSE d[f]]
<1>1. DOMAIN m \cup DOMAIN d = DOMAIN d OBVIOUS
<1> QED BY <1>1 DEF Filled, Spread

\* The elements of a sequence.
LEMMA Elements ==
  ASSUME NEW S, NEW s \in Seq(S)
  PROVE  \A i \in DOMAIN s : s[i] \in S
BY ElementOfSeq, LenProperties

\* The tables of the requests give each field a number of its own.
LEMMA Tables ==
  /\ Table(ViewportFields) /\ Table(FiltersFields) /\ Table(SubscribeFields)
  /\ Table(UpdateViewportFields) /\ Table(ClientMessageFields)
BY DEF Table, ViewportFields, FiltersFields, SubscribeFields, UpdateViewportFields, ClientMessageFields

\* A viewport passes the tests of the codec, and its box arrives.
LEMMA ViewportCarried ==
  ASSUME NEW v \in Viewport
  PROVE  /\ VerifyViewport(v) /\ ViewportFromObject(v) = v
         /\ BBoxOf(EncodeViewport(v)) = [minLat |-> v.min_lat, minLon |-> v.min_lon,
                                         maxLat |-> v.max_lat, maxLon |-> v.max_lon]
<1>1. DOMAIN v = {"min_lat", "min_lon", "max_lat", "max_lon", "zoom"}
      /\ v = [f \in DOMAIN v |-> v[f]] /\ \A f \in DOMAIN v : v[f] \in Int
  BY DEF Viewport
<1>2. VerifyViewport(v) BY <1>1 DEF VerifyViewport, Verified, IsNumber, IsInteger
<1>3. ViewportFromObject(v) = v
  BY <1>1, NothingAssumption DEF ViewportFromObject, Set, NothingAssumption
<1>4. Named(ViewportFields, EncodeViewport(v)) = v
  <2>1. DOMAIN v \subseteq DOMAIN ViewportFields BY <1>1 DEF ViewportFields
  <2> QED BY <1>1, <2>1, Tables, RoundTrip DEF EncodeViewport
<1>5. PbViewport(EncodeViewport(v)) = v
  <2> DEFINE d == [min_lat |-> 0, min_lon |-> 0, max_lat |-> 0, max_lon |-> 0, zoom |-> 0]
  <2>1. DOMAIN d = DOMAIN v BY <1>1
  <2>2. Filled(d, v) = [f \in DOMAIN d |-> IF f \in DOMAIN v THEN v[f] ELSE d[f]] BY <2>1, FilledIn
  <2>3. Filled(d, v) = v BY <1>1, <2>1, <2>2
  <2> QED BY <1>4, <2>3 DEF PbViewport
<1> QED BY <1>2, <1>3, <1>5 DEF BBoxOf

\* So do filters, which arrive as sets.
LEMMA FiltersCarried ==
  ASSUME NEW f \in Filters
  PROVE  /\ VerifyFilters(f) /\ FiltersFromObject(f) = f
         /\ FiltersOf(EncodeFilters(f)) =
              [types |-> { f.vehicle_types[i] : i \in DOMAIN f.vehicle_types },
               owners |-> { f.dataowners[i] : i \in DOMAIN f.dataowners }, search |-> ""]
<1>1. DOMAIN f = {"vehicle_types", "dataowners", "search"} /\ f = [g \in DOMAIN f |-> f[g]]
      /\ f.vehicle_types \in Seq(KnownTypes) /\ f.dataowners \in Seq(STRING) /\ f.search = ""
  BY DEF Filters
<1>2. VerifyFilters(f)
  <2>1. \A i \in DOMAIN f.vehicle_types : f.vehicle_types[i] \in VehicleTypes
    <3>1. \A i \in DOMAIN f.vehicle_types : f.vehicle_types[i] \in KnownTypes BY <1>1, Elements
    <3> QED BY <3>1 DEF KnownTypes
  <2>2. \A i \in DOMAIN f.dataowners : f.dataowners[i] \in STRING
    BY <1>1, Elements
  <2> QED BY <1>1, <2>1, <2>2, NothingAssumption
          DEF VerifyFilters, Verified, AllIn, IsString, NothingAssumption
<1>3. FiltersFromObject(f) = f
  <2>1. \A g \in DOMAIN f : f[g] # Nothing
    BY <1>1, NothingAssumption DEF NothingAssumption
  <2> QED BY <1>1, <2>1 DEF FiltersFromObject, Set
<1> DEFINE m == NonEmpty(f, {"vehicle_types", "dataowners"})
<1>4. /\ DOMAIN m \subseteq {"vehicle_types", "dataowners", "search"}
      /\ m = [g \in DOMAIN m |-> m[g]] /\ \A g \in DOMAIN m : m[g] = f[g]
      /\ "search" \in DOMAIN m
      /\ "vehicle_types" \in DOMAIN m <=> f.vehicle_types # << >>
      /\ "dataowners" \in DOMAIN m <=> f.dataowners # << >>
  BY <1>1 DEF NonEmpty
<1> HIDE DEF m
<1>5. Named(FiltersFields, EncodeFilters(f)) = m
  <2>1. DOMAIN m \subseteq DOMAIN FiltersFields BY <1>4 DEF FiltersFields
  <2> QED BY <1>4, <2>1, Tables, RoundTrip DEF EncodeFilters, m
<1>6. /\ PbFilters(EncodeFilters(f)).vehicle_types = f.vehicle_types
      /\ PbFilters(EncodeFilters(f)).dataowners = f.dataowners
      /\ PbFilters(EncodeFilters(f)).search = ""
  <2> DEFINE d == [vehicle_types |-> << >>, dataowners |-> << >>, search |-> ""]
  <2>1. DOMAIN m \subseteq DOMAIN d BY <1>4
  <2>2. Filled(d, m) = [g \in DOMAIN d |-> IF g \in DOMAIN m THEN m[g] ELSE d[g]] BY <2>1, FilledIn
  <2> QED BY <1>1, <1>4, <1>5, <2>2 DEF PbFilters
<1>7. { f.vehicle_types[i] : i \in DOMAIN f.vehicle_types } \subseteq KnownTypes
  <2>1. \A i \in DOMAIN f.vehicle_types : f.vehicle_types[i] \in KnownTypes BY <1>1, Elements
  <2> QED BY <2>1
<1> QED BY <1>2, <1>3, <1>6, <1>7 DEF FiltersOf

\* What the server has of a request m after it.
Understood(m) ==
  [bbox    |-> [minLat |-> m.viewport.min_lat, minLon |-> m.viewport.min_lon,
                maxLat |-> m.viewport.max_lat, maxLon |-> m.viewport.max_lon],
   filters |-> [types  |-> { m.filters.vehicle_types[i] : i \in DOMAIN m.filters.vehicle_types },
                owners |-> { m.filters.dataowners[i] : i \in DOMAIN m.filters.dataowners },
                search |-> ""],
   pinned  |-> m.pinned]

\* Both requests have the fields of Subscribe.
LEMMA SameFields ==
  /\ UpdateViewportFields = SubscribeFields
  /\ \A o : VerifyUpdateViewport(o) = VerifySubscribe(o)
  /\ \A o : UpdateViewportFromObject(o) = SubscribeFromObject(o)
  /\ \A m : EncodeUpdateViewport(m) = EncodeSubscribe(m)
<1>1. UpdateViewportFields = SubscribeFields BY DEF UpdateViewportFields, SubscribeFields
<1>2. \A o : VerifyUpdateViewport(o) = VerifySubscribe(o)
  BY DEF VerifyUpdateViewport, VerifySubscribe
<1>3. \A o : UpdateViewportFromObject(o) = SubscribeFromObject(o)
  BY DEF UpdateViewportFromObject, SubscribeFromObject
<1>4. \A m : EncodeUpdateViewport(m) = EncodeSubscribe(m)
  BY <1>1 DEF EncodeUpdateViewport, EncodeSubscribe
<1> QED BY <1>1, <1>2, <1>3, <1>4

\* A request passes the tests of the codec, and all of it arrives.
LEMMA SubscribeCarried ==
  ASSUME NEW m \in Subscribe
  PROVE  /\ VerifySubscribe(m) /\ SubscribeFromObject(m) = m
         /\ LET p == Named(SubscribeFields, EncodeSubscribe(m))
            IN /\ {"viewport", "filters"} \subseteq DOMAIN p
               /\ BBoxOf(p.viewport) = Understood(m).bbox /\ FiltersOf(p.filters) = Understood(m).filters
               /\ (IF "pinned" \in DOMAIN p THEN p.pinned ELSE << >>) = m.pinned
<1>1. DOMAIN m = {"viewport", "filters", "pinned"} /\ m = [f \in DOMAIN m |-> m[f]]
      /\ m.viewport \in Viewport /\ m.filters \in Filters /\ m.pinned \in Seq(STRING)
  BY DEF Subscribe
<1>2. VerifySubscribe(m)
  <2>1. \A i \in DOMAIN m.pinned : m.pinned[i] \in STRING BY <1>1, Elements
  <2> QED BY <1>1, <2>1, ViewportCarried, FiltersCarried DEF VerifySubscribe, Verified, AllIn, IsString
<1>3. SubscribeFromObject(m) = m
  <2>1. \A f \in DOMAIN m : m[f] # Nothing
    BY <1>1, NothingAssumption DEF NothingAssumption
  <2>2. Set(m) = m BY <1>1, <2>1 DEF Set
  <2> QED BY <1>1, <2>2, ViewportCarried, FiltersCarried DEF SubscribeFromObject
<1> DEFINE c == [f \in DOMAIN m |-> CASE f = "viewport" -> EncodeViewport(m[f])
                                      [] f = "filters"  -> EncodeFilters(m[f])
                                      [] OTHER          -> m[f]]
           e == NonEmpty(c, {"pinned"})
<1>4. DOMAIN c = DOMAIN m /\ c["viewport"] = EncodeViewport(m.viewport)
      /\ c["filters"] = EncodeFilters(m.filters) /\ c["pinned"] = m.pinned
  BY <1>1
<1> HIDE DEF c
<1>5. /\ DOMAIN e \subseteq DOMAIN m /\ {"viewport", "filters"} \subseteq DOMAIN e
      /\ e = [f \in DOMAIN e |-> e[f]] /\ \A f \in DOMAIN e : e[f] = c[f]
      /\ "pinned" \in DOMAIN e <=> m.pinned # << >>
  BY <1>1, <1>4 DEF NonEmpty
<1> HIDE DEF e
<1>6. Named(SubscribeFields, EncodeSubscribe(m)) = e
  <2>1. DOMAIN e \subseteq DOMAIN SubscribeFields BY <1>1, <1>5 DEF SubscribeFields
  <2> QED BY <1>5, <2>1, Tables, RoundTrip DEF EncodeSubscribe, e, c
<1>7. /\ BBoxOf(e.viewport) = Understood(m).bbox /\ FiltersOf(e.filters) = Understood(m).filters
  <2>1. e.viewport = EncodeViewport(m.viewport) /\ e.filters = EncodeFilters(m.filters)
    BY <1>1, <1>4, <1>5
  <2>2. BBoxOf(EncodeViewport(m.viewport)) = Understood(m).bbox
    BY <1>1, ViewportCarried DEF Understood
  <2>3. FiltersOf(EncodeFilters(m.filters)) = Understood(m).filters
    BY <1>1, FiltersCarried DEF Understood
  <2> QED BY <2>1, <2>2, <2>3
<1> QED BY <1>2, <1>3, <1>4, <1>5, <1>6, <1>7

\* Either request is sent, and makes the subscription the wish in it.
THEOREM RequestHeard ==
  ASSUME NEW m \in Subscribe, NEW k \in {"subscribe", "update_viewport"}, NEW had,
         k = "update_viewport" => had # Nothing
  PROVE  Heard([f \in {k} |-> m], had) = Understood(m)
<1> DEFINE o == [f \in {k} |-> m]
<1>1. DOMAIN o = {k} /\ o[k] = m /\ o = [f \in DOMAIN o |-> o[f]] /\ m # Nothing
  BY NothingAssumption DEF NothingAssumption
<1> HIDE DEF o
<1>2. Sendable(o)
  BY <1>1, SubscribeCarried, SameFields DEF Sendable, VerifyClientMessage, Verified
<1>3. ClientMessageFromObject(o) = o
  <2>1. Set(o) = o BY <1>1 DEF Set
  <2> QED BY <1>1, <2>1, SubscribeCarried, SameFields DEF ClientMessageFromObject
<1> DEFINE c == [f \in DOMAIN o |-> CASE f = "subscribe" -> EncodeSubscribe(o[f])
                                      [] f = "update_viewport" -> EncodeUpdateViewport(o[f])
                                      [] OTHER -> o[f]]
<1>4. DOMAIN c = {k} /\ c[k] = EncodeSubscribe(m) /\ c = [f \in DOMAIN c |-> c[f]]
  BY <1>1, SameFields
<1> HIDE DEF c
<1>5. Named(ClientMessageFields, encodeClient(o)) = c
  <2>1. DOMAIN c \subseteq DOMAIN ClientMessageFields BY <1>4 DEF ClientMessageFields
  <2>2. encodeClient(o) = Numbered(ClientMessageFields, c)
    BY <1>3 DEF encodeClient, EncodeClientMessage, c
  <2> QED BY <1>4, <2>1, <2>2, Tables, RoundTrip
<1>6. (CHOOSE f \in DOMAIN c : TRUE) = k BY <1>4
<1> DEFINE p == Named(SubscribeFields, EncodeSubscribe(m))
<1>7. /\ {"viewport", "filters"} \subseteq DOMAIN p
      /\ BBoxOf(p.viewport) = Understood(m).bbox /\ FiltersOf(p.filters) = Understood(m).filters
      /\ (IF "pinned" \in DOMAIN p THEN p.pinned ELSE << >>) = m.pinned
  BY SubscribeCarried
<1>8. Subscribed(encodeClient(o), had) =
        [bbox |-> BBoxOf(p.viewport), filters |-> FiltersOf(p.filters),
         pinned |-> IF "pinned" \in DOMAIN p THEN p.pinned ELSE << >>]
  <2> HIDE DEF p
  <2>1. p = Named(SubscribeFields, c[k]) BY <1>4 DEF p
  <2> QED BY <1>5, <1>6, <1>7, <2>1 DEF Subscribed
<1> HIDE DEF p
<1>9. Subscribed(encodeClient(o), had) = Understood(m) BY <1>7, <1>8 DEF Understood
<1> QED BY <1>2, <1>9 DEF Heard, o

-----------------------------------------------------------------------------
(* What the server is asked for.                                           *)

Wishes == [b : Box, near : BOOLEAN, filters : KeptFilters, pins : Seq(Vehicles)]

Wished ==
  /\ wish \in Wishes /\ wish.pins = selected
  /\ view # Nothing => wish.filters = ui.filters
  /\ web => view # Nothing
  /\ Settled => wish.b = boundsToBBox(view)
  /\ online => sub = Understood(viewportOf(wish))

\* A wish is a request the codec takes.
LEMMA Encodable ==
  ASSUME NEW w \in Wishes
  PROVE  viewportOf(w) \in Subscribe /\ Understood(viewportOf(w)) # Nothing
<1> DEFINE m == viewportOf(w)
           p == [min_lat |-> 0, min_lon |-> w.b[1], max_lat |-> 0, max_lon |-> w.b[2],
                 zoom |-> IF w.near THEN 14 ELSE 12]
           f == [vehicle_types |-> w.filters.types, dataowners |-> w.filters.owners, search |-> ""]
<1>1. m = [viewport |-> p, filters |-> f, pinned |-> w.pins]
  BY DEF viewportOf, viewportMsg, BBox
<1>2. p \in Viewport BY DEF Viewport, Wishes, Box
<1>3. f \in Filters
  <2>1. w.filters.types \in Seq(KnownTypes) /\ w.filters.owners \in Seq(ValidOwners)
        /\ ValidOwners \subseteq STRING
    BY DEF Wishes, KeptFilters, ValidOwners
  <2>2. w.filters.owners \in Seq(STRING) BY <2>1, Wider
  <2> QED BY <2>1, <2>2 DEF Filters
<1>4. w.pins \in Seq(STRING)
  <2>1. w.pins \in Seq(Vehicles) /\ Vehicles \subseteq STRING
    BY ConstantsAssumption DEF Wishes, ConstantsAssumption
  <2> QED BY <2>1, Wider
<1> HIDE DEF m, p, f
<1>5. m \in Subscribe BY <1>1, <1>2, <1>3, <1>4 DEF Subscribe
<1>6. Understood(m) \in Subscription
  <2>1. /\ m.viewport \in Viewport /\ m.filters \in Filters /\ m.pinned \in Seq(STRING)
    BY <1>1, <1>2, <1>3, <1>4
  <2>2. { m.filters.vehicle_types[i] : i \in DOMAIN m.filters.vehicle_types } \subseteq KnownTypes
    <3>1. m.filters.vehicle_types \in Seq(KnownTypes) BY <2>1 DEF Filters
    <3>2. \A i \in DOMAIN m.filters.vehicle_types : m.filters.vehicle_types[i] \in KnownTypes
      BY <3>1, Elements
    <3> QED BY <3>2
  <2>3. { m.filters.dataowners[i] : i \in DOMAIN m.filters.dataowners } \subseteq STRING
    <3>1. m.filters.dataowners \in Seq(STRING) BY <2>1 DEF Filters
    <3>2. \A i \in DOMAIN m.filters.dataowners : m.filters.dataowners[i] \in STRING
      BY <3>1, Elements
    <3> QED BY <3>2
  <2> QED BY <2>1, <2>2, <2>3 DEF Understood, Subscription, Viewport
<1> QED BY <1>5, <1>6, NothingAssumption DEF NothingAssumption, m

\* A wish is sent at once, if there is a connection.
LEMMA Asks ==
  ASSUME Wished, NEW w, w \in Wishes, Ask(w)
  PROVE  wish' = w /\ online' = online /\ (online => sub' = Understood(viewportOf(w)))
<1>1. /\ wish' = w /\ online' = online
      /\ online => sub' = Heard([update_viewport |-> viewportOf(w)], sub)
  BY DEF Ask
<1>2. ASSUME online PROVE sub # Nothing BY <1>2, Encodable DEF Wished
<1>3. [update_viewport |-> viewportOf(w)] = [f \in {"update_viewport"} |-> viewportOf(w)] OBVIOUS
<1>4. ASSUME online
      PROVE  Heard([f \in {"update_viewport"} |-> viewportOf(w)], sub) = Understood(viewportOf(w))
  BY <1>2, <1>4, Encodable, RequestHeard
<1> QED BY <1>1, <1>3, <1>4

\* A new selection is pinned, with the rest of the wish.
LEMMA ShowAsks ==
  ASSUME NEW ids, NEW id, NEW on, NEW f, NEW s, Show(ids, id, on, f, s)
  PROVE  Ask([wish EXCEPT !.pins = selected']) /\ UNCHANGED <<web, ui, view>>
BY DEF Show, Choose, prefs

\* What the user does to the map changes the wish in no other way.
LEMMA UserAsks ==
  ASSUME User
  PROVE  /\ UNCHANGED <<online, wish, sub, selected>> \/ Ask([wish EXCEPT !.pins = selected'])
         /\ UNCHANGED <<web, ui, view>>
<1>1. CASE (\E p \in Cameras, near \in BOOLEAN : Drag(p, near)) \/ (\E p \in Places : Fly(p))
  BY <1>1 DEF Drag, Fly, stream, props, prefs
<1>2. CASE \E v \in Vehicles : (\E p \in Places : Open(v, p)) \/ Pick(v) \/ closeTab(v)
  BY <1>2, ShowAsks DEF Open, selectVehicle, Pick, closeTab
<1>3. CASE (\E p \in Stops : openStop(p)) \/ closeAll \/ toggleIsolate \/ follow \/ closeStop
  BY <1>3, ShowAsks DEF openStop, closeAll, toggleIsolate, follow, closeStop
<1> QED BY <1>1, <1>2, <1>3 DEF User

\* Left alone but for the pins, or asked anew for w.
LEMMA WishedNext ==
  ASSUME Wished, ui'.filters \in KeptFilters, selected' \in Seq(Vehicles),
         web' = web, web => view' # Nothing,
         NEW w, w \in Wishes, wish' = w, w.pins = selected',
         view' # Nothing => w.filters = ui'.filters,
         Settled' => w.b = boundsToBBox(view'),
         online' => sub' = Understood(viewportOf(w))
  PROVE  Wished'
BY DEF Wished

\* The wish follows the settings, the selection and the camera at rest, and what
\* the server has of it follows the wish.
LEMMA WishedSteps == Inv /\ Inv' /\ Placed /\ Placed' /\ Stored /\ Stored' /\ Wished /\ [Next]_vars => Wished'
<1> SUFFICES ASSUME Inv, Inv', Placed, Placed', Stored, Stored', Wished, [Next]_vars PROVE Wished'
  OBVIOUS
<1>1. /\ selected' \in Seq(Vehicles) /\ ui'.filters \in KeptFilters /\ Ui(ui)
      /\ wish \in Wishes /\ wish.pins = selected /\ (online => sub = Understood(viewportOf(wish)))
  BY DEF Inv, Typed, Stored, Clean, Wished
<1>2. CASE Settle \/ StyleLoad
  <2> DEFINE w == Wish(boundsToBBox(at), at.near, wish.pins)
  <2>1. view' = at /\ Ask(w) /\ UNCHANGED <<web, ui, selected>>
    BY <1>2 DEF Settle, StyleLoad, resync, props
  <2>2. at \in View /\ at # Nothing BY ConstantsAssumption DEF Placed, ConstantsAssumption
  <2>3. w = [b |-> boundsToBBox(at), near |-> at.near, filters |-> ui.filters, pins |-> wish.pins]
    BY DEF Wish
  <2>4. w \in Wishes
    <3>1. boundsToBBox(at) \in Box /\ at.near \in BOOLEAN BY <2>2, Boxed DEF View
    <3> QED BY <1>1, <2>1, <2>3, <3>1 DEF Wishes
  <2> HIDE DEF w
  <2>5. wish' = w /\ online' = online /\ (online => sub' = Understood(viewportOf(w)))
    BY <2>1, <2>4, Asks
  <2>6. Settled' => view' = at
    BY <2>1
  <2> QED BY <1>1, <2>1, <2>2, <2>3, <2>4, <2>5, WishedNext
<1>3. ASSUME ~Settle, ~StyleLoad PROVE Wished'
  \* The camera goes where the bounds of the wish do not.
  <2>1. view' = view /\ (Settled' => Settled)
    <3>1. UNCHANGED <<at, moved, view>> \/ moved' => (Settled' => Settled) BY DEF Settled
    <3> QED BY <1>3, <3>1, CameraGoes
  <2>2. ASSUME UNCHANGED <<online, wish, sub, selected, web>>, ui'.filters = ui.filters PROVE Wished'
    BY <1>1, <2>1, <2>2 DEF Wished
  <2>3. ASSUME Ask([wish EXCEPT !.pins = selected']), web' = web, ui'.filters = ui.filters PROVE Wished'
    <3> DEFINE w == [wish EXCEPT !.pins = selected']
    <3>1. /\ w \in Wishes /\ w.pins = selected' /\ w.b = wish.b /\ w.filters = wish.filters
      BY <1>1 DEF Wishes
    <3> HIDE DEF w
    <3>2. wish' = w /\ online' = online /\ (online => sub' = Understood(viewportOf(w)))
      BY <2>3, <3>1, Asks DEF w
    <3> QED BY <1>1, <2>1, <2>3, <3>1, <3>2, WishedNext DEF Wished
  <2>4. CASE User BY <2>2, <2>3, <2>4, UserAsks
  <2>5. CASE Filter
    <3>1. UNCHANGED <<web, selected, view, at, moved>>
      BY <2>5 DEF Filter, props, camera, toggleType, toggleOwner, setFilters, Changed
    <3>2. ASSUME NEW v \in View, v = at \/ v = view,
                 Ask([Wish(boundsToBBox(v), v.near, wish.pins) EXCEPT !.filters = ui'.filters])
          PROVE  Wished'
      <4> DEFINE w == [Wish(boundsToBBox(v), v.near, wish.pins) EXCEPT !.filters = ui'.filters]
      <4>1. w = [b |-> boundsToBBox(v), near |-> v.near, filters |-> ui'.filters, pins |-> wish.pins]
        BY DEF Wish
      <4>2. w \in Wishes
        <5>1. boundsToBBox(v) \in Box /\ v.near \in BOOLEAN BY Boxed DEF View
        <5> QED BY <1>1, <4>1, <5>1 DEF Wishes
      <4> HIDE DEF w
      <4>3. wish' = w /\ online' = online /\ (online => sub' = Understood(viewportOf(w)))
        BY <3>2, <4>2, Asks DEF w
      <4>4. Settled' => v = view' BY <2>1, <3>1, <3>2 DEF Placed
      <4> QED BY <1>1, <2>1, <3>1, <4>1, <4>2, <4>3, <4>4, WishedNext DEF Wished
    <3>3. CASE web
      <4>1. Ask([Wish(boundsToBBox(at), at.near, wish.pins) EXCEPT !.filters = ui'.filters])
        BY <2>5, <3>3 DEF Filter
      <4> QED BY <3>2, <4>1 DEF Placed
    <3>4. CASE ~web /\ view # Nothing
      <4>1. Ask([Wish(boundsToBBox(view), view.near, wish.pins) EXCEPT !.filters = ui'.filters])
        BY <2>5, <3>4 DEF Filter
      <4> QED BY <3>2, <3>4, <4>1 DEF Placed
    <3>5. CASE ~web /\ view = Nothing
      <4>1. UNCHANGED <<online, wish, sub>> BY <2>5, <3>5 DEF Filter, stream
      <4> QED BY <1>1, <2>1, <3>1, <3>5, <4>1 DEF Wished
    <3> QED BY <3>3, <3>4, <3>5
  <2>6. CASE SocketOpen
    <3>1. /\ online' /\ sub' = Heard([subscribe |-> viewportOf(wish)], Nothing)
          /\ UNCHANGED <<web, ui, wish, selected>>
      BY <2>6 DEF SocketOpen, prefs, props
    <3>2. [subscribe |-> viewportOf(wish)] = [f \in {"subscribe"} |-> viewportOf(wish)] OBVIOUS
    <3>3. Heard([f \in {"subscribe"} |-> viewportOf(wish)], Nothing) = Understood(viewportOf(wish))
      BY <1>1, Encodable, RequestHeard
    <3> QED BY <1>1, <2>1, <3>1, <3>2, <3>3 DEF Wished
  <2>7. CASE SocketLost
    <3>1. ~online' /\ UNCHANGED <<web, ui, wish, selected>> BY <2>7 DEF SocketLost, prefs, props
    <3> QED BY <1>1, <2>1, <3>1 DEF Wished
  <2>8. CASE \/ (\E t \in Themes, b \in BOOLEAN : Theme(t, b)) \/ ShowStops \/ StopNumbers \/ Elsewhere
    <3>1. UNCHANGED <<online, wish, sub, selected>>
      BY <2>8 DEF Theme, ShowStops, StopNumbers, Elsewhere, stream, props
    <3>2. web' = web /\ ui'.filters = ui.filters
      BY <1>1, <2>8 DEF Theme, ShowStops, StopNumbers, Elsewhere, setTheme, setFlag, setLang,
        OperatorsArrive, Changed, Ui
    <3> QED BY <2>2, <3>1, <3>2
  <2>9. CASE PlanArrives \/ Frame \/ Flush \/ StopsAnswer \/ StopsFail \/ UNCHANGED vars
    <3>1. UNCHANGED <<online, wish, sub, selected>>
      BY <2>9 DEF PlanArrives, Frame, Entering, Moving, Leaving, Snapshot, onUpdate, Flush,
        StopsAnswer, StopsFail, vars, stream, props
    <3>2. UNCHANGED <<web, ui>> BY <2>9, SettingsStay
    <3> QED BY <2>2, <3>1, <3>2
  <2>10. CASE Multi
    <3>1. Ask([wish EXCEPT !.pins = selected']) BY <2>10 DEF Multi, Choose
    <3>2. web' = web /\ ui'.filters = ui.filters BY <1>1, <2>10 DEF Multi, setFlag, Changed, Ui
    <3> QED BY <2>3, <3>1, <3>2
  <2> QED BY <1>3, <2>4, <2>5, <2>6, <2>7, <2>8, <2>9, <2>10 DEF Next, Settings
<1> QED BY <1>2, <1>3

\* At the start there is no connection.
LEMMA WishedStarts == Init => Wished
<1> SUFFICES ASSUME Init PROVE Wished OBVIOUS
<1>1. Placed /\ Stored BY PlacedStarts, StoredStarts
<1> DEFINE b == IF web THEN boundsToBBox(at) ELSE <<at.at, at.at>>
<1>2. wish = [b |-> b, near |-> at.near, filters |-> ui.filters, pins |-> << >>]
      /\ selected = << >> /\ ~online /\ moved = ~web /\ view = IF web THEN at ELSE Nothing
  BY DEF Init, Wish
<1>3. at \in View /\ at # Nothing /\ web \in BOOLEAN /\ ui.filters \in KeptFilters
  BY <1>1, ConstantsAssumption DEF Placed, Stored, Clean, ConstantsAssumption
<1>4. b \in Box BY <1>3, Boxed DEF Box, View
<1> HIDE DEF b
<1>5. << >> \in Seq(Vehicles) BY EmptySeq
<1>6. wish \in Wishes BY <1>2, <1>3, <1>4, <1>5 DEF Wishes, View
<1>7. Settled => wish.b = boundsToBBox(view) BY <1>2, <1>3 DEF Settled, b
<1> QED BY <1>2, <1>3, <1>6, <1>7 DEF Wished

\* While the socket is open and the camera at rest, the server has the filters
\* of the chips, the box of the view and the pins of the selection, through any
\* number of changes and reconnections: the request is built, tested, encoded,
\* decoded and understood without loss.
THEOREM Heeded == Spec => []HeardIsWished
<1> DEFINE All == Inv /\ Placed /\ Stored /\ Wished
<1>1. Init => All BY Starts, PlacedStarts, StoredStarts, WishedStarts
<1>2. All /\ [Next]_vars => All'
  <2>1. All /\ [Next]_vars => Inv' /\ Placed' /\ Stored' BY Steps, PlacedSteps, StoredSteps
  <2> QED BY <2>1, WishedSteps
<1>3. All => HeardIsWished
  <2> SUFFICES ASSUME All, online, Settled
               PROVE  /\ sub # Nothing /\ FiltersHeard(sub)
                      /\ sub.bbox = BBox(boundsToBBox(view)) /\ sub.pinned = selected
    BY DEF HeardIsWished
  <2>1. view = at /\ view # Nothing
    BY ConstantsAssumption DEF Placed, ConstantsAssumption
  <2>2. /\ wish \in Wishes /\ wish.filters = ui.filters /\ wish.b = boundsToBBox(view)
        /\ wish.pins = selected /\ sub = Understood(viewportOf(wish))
    BY <2>1 DEF Wished
  <2>3. sub # Nothing BY <2>2, Encodable
  <2>4. sub = [bbox    |-> BBox(wish.b),
               filters |-> [types  |-> { wish.filters.types[i] : i \in DOMAIN wish.filters.types },
                            owners |-> { wish.filters.owners[i] : i \in DOMAIN wish.filters.owners },
                            search |-> ""],
               pinned  |-> wish.pins]
    BY <2>2 DEF Understood, viewportOf, viewportMsg, BBox
  <2>5. FiltersHeard(sub)
    <3>1. sub.filters = [types |-> ToSet(wish.filters.types), owners |-> ToSet(wish.filters.owners),
                         search |-> ""]
      BY <2>4 DEF ToSet
    <3> QED BY <2>2, <3>1 DEF FiltersHeard
  <2>6. sub.bbox = BBox(wish.b) /\ sub.pinned = wish.pins BY <2>4
  <2> QED BY <2>2, <2>3, <2>5, <2>6
<1> HIDE DEF All
<1> QED BY <1>1, <1>2, <1>3, PTL DEF Spec
=============================================================================
