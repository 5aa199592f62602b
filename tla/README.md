# A TLA+ verification of OVLive

OVLive shows public transport vehicles live on a map. A Rust server ingests the
Dutch KV6 feed (buses, trams, metros, ferries) and the NS InfoPlus feed (trains),
joins them with the national GTFS timetable, and streams what lies in each
client's viewport over WebSockets to a React web app and a React Native app.

This directory holds TLA+ models of that system, the TLC runs that check them,
and TLAPS proofs about them. `PROJECT.json` lists the runs, the source lines each
definition stands for, the hazards, and the mutated definitions by which every
property was shown to be able to fail.

    tlc -workers 2 -config live.cfg MCLiveState         # one run
    tlapm GtfsFeedProofs.tla                            # one proof module

## Inventory

| Part | State | Operations | Works with |
|---|---|---|---|
| Live state (`crates/core/src/state.rs`) | one `LiveTrip` per vehicle, in a sharded map | `apply` (INIT, END, every other kind), `prune_stale`, `build_index`, `all_trips`, `load` | fed by one applier task; asks GTFS and the delay curves; read by the tick loop |
| Train delays (`core/src/trains.rs`) | a delay curve per train number | `apply`, `prune`, `snapshot`, `restore` | fed by the RitInfo task; read by `apply` |
| Vehicle index (`core/src/state.rs`) | immutable, replaced as a whole | `build_index`, `query`, `get`, `get_any` | published on a watch channel; read by streams and REST |
| Tick loop, upkeep (`server/src/main.rs`) | tick count, snapshot files | sweep, publish, snapshot; prune and snapshot curves | owns the schedule of the stores above |
| Stream (`api/src/ws.rs`) | per connection: subscription and what was last sent | Subscribe, UpdateViewport, Ping, tick | reads the index; its peer is LiveClient |
| LiveClient (`packages/api-types/src/ws.ts`) | current socket, wish, retry and heartbeat timers | connect, update, setPinned, suspend, resume, close; socket and timer callbacks | used by both apps |
| Client stores (`apps/mobile/lib/vehicleStore.ts`, `apps/web/app/components/MapView.tsx`) | vehicles by id, a pending flush | apply an update, flush | fed by LiveClient |
| Selection and panels (`useMapApp.ts`, `home.tsx`) | selected ids, tabs, detail, plan, board | polls, tab changes, ended and returned vehicles | pins ids on LiveClient; REST |
| Map layers (`MapView.tsx`, `LiveMap.tsx`) | camera, layers, images, stop layer, who is followed | style loads, gestures, pushes, stop requests | drawn from store, selection, plan and preferences; tells LiveClient the viewport |
| Preferences (`lib/config.ts` of both apps, settings screens) | theme, language, flags, filters, last view; what is stored of them | read at the start, each control writes one key | filters go with the viewport |
| Vehicle page (`routes/vehicle.tsx`, `vehicle/[id].tsx`, `lib/live.ts`) | live frame, ended, detail, plan | stream of one pinned vehicle, polls, plan request | LiveClient, REST, shared view model |
| GTFS service (`crates/gtfs/src/lib.rs`, `download.rs`) | loaded feed, stop indexes | refresh, swap, rebuild | files on disk, publisher over HTTP |
| GTFS queries (`gtfs/src/model.rs`, `stops.rs`, `parse.rs`) | none (pure) | joins, schedule position, boards, parsing | asked by `apply` and REST |
| Ingestion (`crates/realtime`) | a connection, a backoff | connect, read, decode, send | ZMQ feeds; bounded channels |
| Snapshots (`persist/src/snapshot.rs`) | files | atomic save, load | all of the above |
| Accounts and limits (`api/src/auth.rs`, `state.rs`, `persist/src/db.rs`) | token buckets; users and keys | check, sweep; register, revoke, authenticate | in front of REST and streams |
| REST, legacy API (`api/src/rest.rs`, `legacy.rs`) | none | reads | index, GTFS |
| Shared TypeScript (`packages/shared`) | none (pure) | view model, trip progress, clock times, countdowns | both apps |
| Wire format (`ovlive.proto`, `gen/ovlive.js`, `proto.ts`, `convert.rs`) | none (pure) | encode, decode, defaults, unknown fields | between streams and LiveClient |

What makes it hard: messages are lost, late, repeated and stamped by foreign
clocks; a train's position, its delay curve and its timetable match come from
three sources in any order; the index is built while the map changes; a restart
brings back a state some seconds old; the differ must agree with a client that is
several frames behind; sockets die silently and close late; the refresh of the
timetable writes several files and may die between any two; a page merges a stream, a
poll and a plan of three different times; a map is rebuilt under the pushes that draw it;
the settings in the store were written by another release.

What makes each part correct:

- *Live state*: positions, delays and matches shown for a vehicle are justified by
  messages about its current journey; what is known is not lost to a later
  message; a silent vehicle goes.
- *Loops*: the bound on how long a silent vehicle or an old curve is served holds
  over lag, crash and restart.
- *Stream*: the frames in flight always lead the client to what the server thinks
  it has, every frame fits the store it meets, and the client settles on what it
  asked for.
- *LiveClient*: one connection, none while suspended, a way back in every state.
- *GTFS*: the saved validators never describe more than the saved feed; indexes
  belong to the loaded feed and today; a release is served in the end.
- *Selection and panels*: tabs and stream agree on who runs; a panel shows only what
  is open; the plan follows the trip without asking again and again.
- *Page*: what is shown is what was last heard of the vehicle; a trip that ended stays
  frozen; countdowns are right across midnight; the stop the vehicle stands at is listed.
- *Map*: layers agree with settings, selection, plan and fleet after any rebuild; the
  server filters by what the chips show; the stops of the view are drawn; a followed
  vehicle is in the middle.
- *Preferences*: what is written is read back as it was, and nothing unchecked that the
  store holds reaches the server.
- *Ingestion* (planned): a silent connection is replaced; no accepted message is
  dropped between socket and applier.

## Modules

| Module | Models | Checked by |
|---|---|---|
| `LiveState` | `state.rs`, `trains.rs` | `live` |
| `ServerLoop` (extends `LiveState`) | `spawn_tick_loop`, `build_index`, upkeep, snapshots, restart | `loop` |
| `ViewStream` | abstract: a stream of whole views | refined by `WsStream` |
| `WsStream` | `ws.rs`, `convert.rs`, the client's store | `ws_stream`, `flag_stale` |
| `LiveClient` | class `LiveClient` | `client`, `late_close` |
| `GtfsFeed` | bootstrap, refresh, files, stop indexes | `gtfs_feed` |
| `Selection` | tabs, store events and pins of both apps | `selection` |
| `Panel` | detail, plan, board and search fetches of both apps | `panel` |
| `Wire` | the messages, their codec and its conversions | `page`, `map` |
| `Present` (extends `Wire`) | `format.ts`, `trip.ts`, `vehicle-view.ts`, `clock.ts`, what components render of them | `page`, `map` |
| `Page` (extends `Present`) | the vehicle page of both apps | `page` |
| `Prefs` (extends `Wire`) | stored settings and the menus | `map` |
| `MapView` (extends `Present`, `Prefs`) | the live map of both apps | `map`, `theme_dropped` |
| `...Proofs` | theorems about the module of that name and those it extends | tlapm |
| `MC...` | constants of the instances | |

Operators named as a fault (`FieldsKeepAnchor`, `SentKeepsLeft`, `AdvancedNever`, ...) stand before
the definition they alter and are used by nothing: each is a plausible bug, and the
run of the property it is paired with in `PROJECT.json` fails when it is put in.

### LiveState

`trips[v]` is the entry of `LiveState.trips`, with the fields that decide anything:
the journey key, the GTFS match and public line, the position and whether it is
the schedule's (`position_source`), the delay and whether it is known, at-stop,
whether it came from an INIT, `last_update`. Because `apply` holds the map entry for
its duration, each handler is one action: `ApplyInit`, `ApplyEnd`, `ApplyUpdate`.
The order of its parts is the code's: at-stop, fields, delay curve, GTFS match if
there is no public line yet, anchor. `ApplyCurve`, `PruneCurves` and `PruneStale`
are the other writers.

GTFS is hot-swapped, may be absent and may not know a trip, so its answers are
nondeterministic within what the lookup could return: `Joins` are the trips that
join on the key, and each answer may also be nothing. Which point of a delay curve
a fix time selects, and which candidate `resolve_train_trip` takes, are left open.
A message may be up to `Lag` old and stamped up to `Skew` ahead; it may be repeated
or lost (it simply may never be applied). `fixed` and `heard` are history variables.

`UpdatesRefine` is about two states: a step under which a vehicle keeps its journey
keeps its GTFS match, its public line and a measured delay too (`Keeps`), unless the step
is an INIT of that vehicle, which starts the trip anew. `MatchIntegrity` is about steps
too, for a match can part from the trip's line in one way only: `apply` starts a trip
anew for another journey number but not for another line, so a message that names
another line under the same number moves the line and leaves the match. The property
allows that step and no other: a match is of the trip's journey number and, when it
is made, of its line; and a matched train has the line and a public line of its match.

The run `live` has a bus with two journeys on two lines (and a trip with the first
journey's number on the other line), all kinds of message that `apply` tells apart, and
a train with curves and two days. `MaxTime` 2 lets every message meet a trip that is
fresh, one sweep old or pruned. The bus and the train share nothing but the clock, so
the constraint `OneAtATime` leaves out the states where both are known; the theorems
hold for any number of vehicles, without it.

### ServerLoop

`Tick`, `Visit`, `PublishIndex`, `Save` are the tick loop step by step: the index and
the snapshot are copied vehicle by vehicle while `Ingest` goes on, as the sharded
map allows. The loop may fall `Behind` ticks behind (a slow save blocks it) and
catches up in a burst. `Crash` keeps renamed files, but their unsynced content may
be lost (`Bad`); `Restart` restores, prunes, publishes a first index and starts the
loops. `SilentGoes` bounds how long a vehicle nobody heard of stays: the map has it
before, the index up to, `heard + Skew + StaleAfter + SweepEvery + Behind`, in ticks. Both
bounds are tight: TLC refutes either with one unit less. `OldCurveGoes` is the bound of
the curves. The instance has sweeps every second tick and a snapshot each tick, so that
sweeps and snapshots alternate, a sender's clock one ahead, one tick of lag, one crash, and
just enough time to pass each bound.

### ViewStream and WsStream

`ViewStream` says what a connection promises: the server renders the answer to the
latest wish it has heard and the client shows the rendered views in order.
`WsStream` is what the code does: `sent` and `sub` are `Subscription`, `Tick` is
`build_update` with its four parts (hits, pinned, left, snapshot), and channels in
both directions are FIFO and bounded by `ToServer` and `ToClient` (a full socket
blocks `tx.send`). The client is `VehicleStore.apply`. `place` stands for what
`changed` compares apart from the delay; `journey` for what only an ENTER carries;
`known` is `delay_known`, which travels with every frame and is not compared.
`views[i]` records the view the server had in mind when it sent the i-th frame in
flight; `ImplementsViewStream` maps the diffs to whole views with it.

The instance has a vehicle that moves, is delayed and has its delay become known, one
that comes and goes, wishes with another viewport and with a filter and a pin, a
request and two frames in flight. Fairness: the tick interval, the delivery of
messages on an open connection, and reopening (`LiveClient` retries). `Settles` says
that when index and wish rest and the connection lasts the client has the vehicles it
asked for, at their places, with their delays, and marks as measured any delay that is
not 0. Whether a delay of 0 is measured it may not know: that is `FlagTold`, which the
run `flag_stale` refutes.

### LiveClient

One action per method and callback. A socket that was closed may report it at any
later time, also after its successor opened; timers fire at any time while armed, so
every race of a timer with an event is explored. `heartbeat` and `watched` are the two
stages of `heartbeatTimer`. The faults of network and server are bounded by
`MaxFaults`; the retry delay is counted in doublings up to `Longest`. Three sockets:
the current one, one closing late, and one more. Fairness: armed timers fire, a
connection attempt succeeds unless it fails (failures are bounded), a closing handshake
ends; nothing is assumed of the user. `Recovers` holds under the premise that no late
close disarms the watchdog, which `late_close` shows to be needed.

### GtfsFeed

A feed is its version. `pc` is where bootstrap or the refresh task is; the midnight
task and the refresh task build stop indexes from the feed and date read at their
start (`job`). A save replaces a file as a whole; `dirty` files may lose their content
in a crash. Three releases, of which the second does not parse, two crashes and two
midnights are enough for a refresh to die at each step and for the next two to meet
what it left. Midnight may fall anywhere, within a bootstrap, a refresh or a build, as
the hour of the refresh is configured and a process is started at any time; the
refresh may be made any number of times a day. Assumed is only that the midnight task
needs less than a day. Two builds may then overlap, and the one that began first may
end last (`gtfs/src/lib.rs:84`). `StopsCurrent` says how far that goes: with the tasks at
rest the indexes are of the feed served and of today, unless one of three things,
recorded in the history variable `behind`, happened since the last build that made up for
it: an older build was published over a newer one (`outrun`), a refresh swapped its feed
in and ended at a failed save (`unsaved`), or the build of a bootstrap began before a
midnight it did not see (`overnight`).
`EventuallyFresh` states in its premise that no save failed and no file lost its content:
both may happen in the run.
Fairness: tasks are polled, a killed process is restarted, and a request that keeps
being made succeeds in the end (strong fairness of `Fetch`).

### Selection

`tabs` is `selected`, `store` the vehicles on the map with the journey they entered
with, `pins` and `sent` the server's side. `Apply` is one frame: the store first,
then `onSelectedBack` and `onSelectedGone` for the tabs. Every handler that changes
the selected ids ends with the effect that sends the pins (`Show`). React runs the
effects of a handler before the next event, so handler and effects are one action; a
handler that runs on a render older than the last frame (`closeTab` closes over
`selected`) is not modelled. `WsStream` shows that frames lead the store to the
server's view; here frames carry only journeys, and what matters is what was in flight
when the user acted. `Flush` may come at any time, as it follows every frame.

Three vehicles: one in view, one out of view with two journeys, and one that is gone
before it is selected (a search hit, a departure board or a deep link may be stale).
Two tabs at most, so that the cap pushes one out. One message each way: a second one
in the same direction only delays the first. Fairness: the socket reopens, messages
arrive, the server ticks; nothing of the user or the vehicles. `SelectedStreams` needs
the pins to survive every reconnect.

### Panel

An effect is a subject (`key`), what is shown for it (`view`), the requests whose
outcome still counts (`flight`), a timer and a spinner. The clean-up of an effect
(`alive = false`, an aborted signal) makes the outcome of its requests count for
nothing: they leave `flight`. The effects have no state in common, apart from the plan
that follows the detail, so a behaviour is about one `kind` of them, and one run covers
all three on both platforms (`web`: polls by interval that may overlap; else the next
poll waits for the last). That a selection also closes the board or the search is, for
that effect, one more change of its subject. `Serve` and `Arrive` are apart: a vehicle
may change trips while the answer travels.

Two subjects and two trips suffice for a late answer to meet another subject, for the
poll to lag behind the plan and for a trip to return. Fairness: timers fire; a first
request ends, as `RestClient.get` has a deadline; a poll that keeps being made is
answered in the end. `PlanFollows` excepts a failed plan request, which is not
repeated, and trips that are run twice, for which the rule would not ask again.

### Wire and Present

Both are pure. `Wire` has every message of `ovlive.proto` by two tables, its field numbers
and its defaults, and what the generated code does with any message: `verify`,
`fromObject`, `encode` and `decode` with unknown tags skipped, missing fields defaulted and
`null` left out; then what the server writes (`convert.rs`) and what the clients make of
it (`toVehicle`, `toMove`). `Present` has the derivations of `packages/shared` that decide
what a user reads: operator names, delays, clock times and countdowns over midnight, which
call a vehicle is heading for, which source wins per field, and the rows of stop list and
departure board. They are checked where they are used, in `page` and `map`, not against
each other: a frame passes `encode`, an older or newer `peer`, `decode`, the page's state
and the view model before a property looks at it.

### Page

`veh` is the vehicle as the server has it, `sent`/`snap` the subscription, `net` a frame under
way, `live`/`ended` the hook `useVehicleLive`; `polls` are requests that were answered and
have not arrived, so that polls may overtake each other and be of a trip that ended since.
`entered` and `heard` record which trip the last ENTER and the last frame were about,
`gone` that the vehicle was said to be gone, and `over` the trip it was on when it was.
`EndedIsFrozen` is about that trip: place and speed stay as they were last
heard, and neither an age nor a delay is shown. Its label stays if its ENTER told it; a MOVE carries no label, so after a journey
change (or a late match) within the stream the page knows the new label from its polls
only, drops them at the end and shows the label of the last ENTER: the property says
so and the list below names it. The page is looked at at each of
`Nows`, as it renders every second. The journeys are a trip over midnight and one of the
next morning, which comes by its first stop a second time; the train may stand where no stop
is, report speed 0 or none, and be matched late or never. Two changes of vehicle or
connection let a trip end and another start (or a position follow a reconnect) around the
first poll, one later poll and the plan; all interleavings of those are explored.

### Prefs and MapView

`disk` is what is stored per key, which at the start may be empty or what an older release
left (a type and an owner without a chip, a retired theme, a flag of another meaning). A
store may refuse every write (`full`), which both apps ignore.

`MapView` is the screen with the map on it: each user action changes selection, pins,
isolation and layers in one step, as React runs handler and effects before the next
event; the camera's movement ends at a later `Settle` (`moveend`), the flush of any
number of frames is one `Flush`, and a basemap that was replaced is loaded at some later
`StyleLoad`, before which pushes have nowhere to go. `drawn` is what the map library holds,
`images` the icons that were baked: web and mobile differ in which state names an icon,
and the model follows both by `web`. `drawn.ring` are the vehicles the selected layers
show: the handler that rebuilds the layers makes them with the selection of the first
render, which was none, and the next render (`Rerender`, part of every action that
renders the screen; renders for the count, a poll or a search are left out) sets the
selection. `drawn.ringed` says that one came. `DrawnIsCurrent` has the ring be the
selection from then on, and nothing before. The moment of the instance lies past the
first call's time, so that the calls still to come depend on where the active vehicle is
and whether it is there, and `Flush` must push them again when it has passed one.
Turning multi-select off (`Multi`) collapses the selection to the active vehicle. `sub` is the server's subscription after the codec. The
map is a line; a camera sees the places next to its own. Stops are more than, exactly, and
fewer than `Limit` in the boxes that occur. `gap` names why stops of the view may be missing,
for the two cases `StopsOfView` leaves out: a failed request, and an answer to an older
request that `covers` did not abort.

Bounds of `map`: two vehicles, three acts of user, stream and network (the steps that
answer them are not counted): enough to select, swap the basemap and receive a frame, in
every order with the answers. One operator's marker, and two of the type chips, stand for all
(`Chosen`). Simulation with nine acts found nothing more. Deadlock is not
checked there: user and stream may have done all they do.

## Where code and comments differ

The `violation` runs show what a comment says and the code does not do:

- `late_close`: the close of an old socket disarms the watchdog of the new one
  (`ws.ts:134`).
- `theme_dropped`: a theme chosen while the style is not loaded (it counts as loading
  whenever a tile does) never reaches the basemap (`MapView.tsx:765`); a comment further
  down knows of the danger.
- `flag_stale`: "unknown" turning into a measured "on time" is not sent, as `changed` ignores
  `delay_known` (`ws.rs:52`), the flag without which the two are "indistinguishable"
  (`ovlive.proto:84-87`).

Met on the way and not run:

- Server. The stop indexes are said to be "rebuilt on every feed swap and at local midnight"
  (`gtfs/src/lib.rs:42-44`), but are left behind when the feed was swapped in and failed to
  save (`main.rs:280`), when an older build ends after a newer one (`gtfs/src/lib.rs:84`,
  `main.rs:227-268`), and when the build of a bootstrap begins before midnight and ends after
  it (`main.rs:52-56`). A line change
  without a journey change does not start a new trip, though a comment says journey/line
  (`state.rs:153`). `anchor_to_schedule` "never touches a vehicle that has ever produced a
  real fix" (`state.rs:272`), but an INIT or a journey change forgets the fixes, so
  `PositionProvenance` speaks of the current trip. Bootstrap with unreadable snapshot and
  archive logs "will download" (`main.rs:212`), but sends the saved validators: an
  unchanged publisher answers 304 and the server has no feed until the next release;
  `NeverBackwards` and `EventuallyFresh` exclude lost file contents. `seconds_until_next`
  (`gtfs/src/lib.rs:175`) adds 24 hours where a local day is meant: on the day summer time ends
  the next midnight lies in the past from 23:01 on, and the stop indexes are rebuilt every
  minute until the day is over, not "each local midnight" (`main.rs:248`); and it cuts the wait to
  seconds, so that a refresh which is answered within the second before its hour is made
  again at once. The limiters per key
  are not swept with the others (`state.rs:70`); `authenticate_key` reads a key before it
  updates it, so a revocation in between is not seen by that request (`db.rs:183`).
- Selection and panels. The offer of a returned vehicle outlives its next end, and can
  still be resumed (`useMapApp.ts:282`, `VehiclePanel.tsx:24`). A snapshot or LEAVE that was
  computed before a selection's pin arrived marks the tab ended though the vehicle runs; it
  is then offered back, or resumes if its journey was known. A plan request that fails is
  not repeated (`useMapApp.ts:136`). Closing the last tab leaves isolation on.
- Page. The plan request fails when the vehicle is not running at the time the page opens,
  and the rule that asks again needs a plan to compare with: the stop list then says
  "loading" when the vehicle starts (`vehicle.tsx:91-104`, `[id].tsx:63-77`). An ended trip is
  to "freeze on the last-known info for this trip" (`vehicle-view.ts:74-75`), but after a
  journey change or a match within the stream the page goes back at the end to the label of
  the last ENTER, which may be the journey before. The view model
  falls back with `??`, so a line that is known to be empty shows as blank, not as "?".
- Map. A stop request left under way when the view returns to the covered box replaces the
  stop layer by that of the view that was left (`MapView.tsx:479-502`, `LiveMap.tsx:228-249`).
  An answer exactly as long as the limit counts as truncated (`rest.rs:358`) and is asked for
  again with every move. A selected marker is to stay visible (`MapView.tsx:282-284`), but
  the layers made after a style load have the first render's empty `selectedIds`
  (`MapView.tsx:214`, `294`): no selected vehicle is outlined until the screen renders again.
  The selection effect then runs, as on every render, because `selectedIds` is another array
  each time.
- Preferences. `config.ts:3` of the mobile app says that keys and validation match the web's,
  but only mobile checks the range of a view, and only web drops duplicate owners. A saved
  operator filter whose operator is not running has no chip to take it off
  (`rest.rs:470`), which the web's `config.ts:103-105` sets out to avoid for types.

## Proofs

All theorems are about every value of the constants that satisfies the module's
`ConstantsAssumption`; none is about a bounded instance. The assumptions say what the
values are (integers, sequences, a timetable per journey), that the bounds are numbers, and
that `None` or `Nothing` is none of the values it stands beside; TLC evaluates them in
every run. Each proof module starts with the inductive invariant and why it is needed. Every
safety and action property of a passing run is proved.

- `ServerLoopProofs`, first part, `LiveState`: `IInv` is `TypeOK` and, per vehicle, that the
  trip is *sound*: its position, match and delay are each justified. An invariant over
  handlers made of nested choices needs its parts stated per trip: one lemma per helper says
  that it preserves soundness and the time stamp (`FieldsSound`, `TrainDelayedSound`,
  `EnrichedSound`, `AnchoredSound`), two compose them for INIT and updates, and
  `InstallSound` puts a sound trip on the map. `Refining` (`UpdatesRefine`) goes through the
  same stages with `Keeps`, and `MatchesHold` with where line and match of a handler's result
  come from: the trip before, the message, or a candidate that joined on both.
- `ServerLoopProofs`, second part, rests on the first (its invariant without the clause on
  late trips, which a restart may break). The copies in index, snapshot and file are sound
  (`Copies`), nothing runs while the process is down (`Down`), and `Timely` is the ledger of
  the bound: the age of a live trip is paid for by the ticks owed and those since the last
  sweep. The tick count wraps, so the module proves what it needs of remainders.
- `WsStreamProofs`: `DiffsLeadToSent` and `FramesFit` are inductive together with the types
  and with what the differ's frames look like; `Refinement` concludes that `WsStream`
  implements `ViewStream`, step by step. `RestAnswered` adds `WishTold`: the last message
  under way, or else the subscription, carries what the client wants. It is exact in place and
  delay, and in the measured flag for delays other than 0, which is all `changed` allows.
- `LiveClientProofs`: the safety properties need each other and `Idle`: a scheduled
  reconnect, or no socket, means that no watchdog is armed.
- `GtfsFeedProofs`: `Ordered` (archive, snapshot, validators are from newest to oldest),
  `Holding` (what a refresh has at hand at each step), and for `StopsFollow` `Served`:
  the build that began last, under way or published, is of the feed and the day as they are,
  but for the reasons in `behind` and for a build that is still to come. Nothing is assumed
  of when midnight falls. `NotModified` needs `Upheld`: the feed served
  is no older than the validators on disk, in every step past the first of a bootstrap.
- `PanelProofs`: `InFlight` (what counts was asked for the subject that is open) and `Asked`
  (once the rule has asked, the detail is of the trip it asked for). For `PlanBelongs` also
  `Settled` (the rule has had its say about what is shown) and `Sought` (what was asked of the
  current trip is or will be of it), which hold because trips that are new were not `Heard` of.
- `SelectionProofs`: types, `TabsCoherent` and `LiveIsOffered` are inductive together; the
  lemmas say what each handler makes of a sequence of tabs. `Noticed` and `StaysEnded` are
  action properties from the same invariant. `RestShown` needs `PinsTold`, as above, and
  `LastWord`: per vehicle, the last frame in flight that says anything of it, or the map if
  none does, is what the server believes to be on the client.
- `MapViewProofs`: `Centred` and `Drawing` are inductive with the shape of the records; `Drawing` has `ringed`, so that it is
  proved of the outlined markers too that they are the selection from the first render after a
  style load; both say when they hold in terms of a flush that is due, not of a camera that has settled. The
  other theorems add one part each. `StopsDrawn` needs `Placed` (a settled camera is where
  the view was taken) and `Covered` (what a near view needs is drawn, asked for, or a reason
  is noted why not). `SettingsKept` needs `Stored`: what the store has, read back through
  the validation, are the settings; so it must be shown that a clean filter is kept by
  cleaning, however it was toggled before. The store keeps 64 operators; a user may pick
  more, so the property and the theorem speak of the first 64. `Heeded` needs `Wished` (the
  wish is of the settings, the selection and the view) and, for the way to the server,
  `RequestHeard`: what verify, encode and decode make of any request the client builds.
- `PageProofs`: `FrameRead` is the way back: whatever the versions of the two ends, a frame is
  read as it was written, with the defaults of what an older server cannot write. `Inv` is
  about frames, not about what is shown: the page has what it heard (`Heard`), the frame
  under way is what the subscription last sent (`UnderWay`), and a subscription whose frames
  have all come has told the page what it sent (`Caught`), which is what makes
  `QuietIsTrue` follow: a frame lost with its connection would break it, were the
  subscription not lost with it. The rest is about the view alone: which calls lie ahead
  (`Begins`, `AheadOf`), that `nearestStopIndex` returns the first of the nearest
  (`NearestFound`), and that `etaSeconds` is exact within half a day (`EtaExact`), by the
  uniqueness of remainders. Two properties say what the code does and no more.
  `StandingListed` is of the first call at the place, as a trip may come by it twice and
  the code cannot tell; `CountdownsExact` is of moments up to half a day away, as the
  code folds any other into that range.

Induction over data has no theorem that can be instantiated here. Where a theorem needs
what a recursive function computes (`Picked`, which cleans filters), the induction is done
by hand: as `<` is well-founded on the numbers there is a least one at which the claim
fails (`Least`, `Induction`), and the function is first shown to exist (`PickedChain`).

Model-checked only: liveness (`Settles`, `Recovers`, `EventuallyFresh`, `SelectedStreams`,
`DetailFollows`, `PlanFollows`, `SpinnersEnd`), which is out of the prover's reach.

What can go wrong there without anything being late is safety, and is proved: what a system
at rest shows is right (`RestIsAnswered`, `RestIsShown`, `PlanFits`), it does not rest where it
should not (`NeverStranded`, `SomethingToCome`), and a check answered "nothing new" is right
(`UnchangedIsServed`). TLC found each to hold on the instance of its component's run, and all
but `NeverStranded` to fail when `NowSent`, `Connect`, `Mismatch`, `Fail` or `Fetch` is replaced
by its mutated form.

## Not modelled

- Rendering, styling, translations, map tiles, logging, configuration parsing, SQL: no
  concurrency of their own and no state the rest depends on.
- `VehicleMap` of both apps: the small map of the page, drawn from the same plan and
  position, with no state of its own that outlives a render but the marker.
- The legacy API and the admin handlers: single reads, or single statements on the database.
- The feed connections, their watchdog and backoff, decoding, and the channel to the applier.
  `LiveState` lets every message be lost, late or repeated, which is what they can do to it.
- The GTFS indexes and CSV parsing: `LiveState`, `Page` and `MapView` take their answers.
- The token buckets and accounts.
- The bytes of the wire: `Wire` has fields by number, not their encoding as varints. Nor the
  generated code's delimited, JSON and type-url functions, which nothing calls.

## Plan

In order:

1. `Ingest`: feed connections, idle watchdog, backoff, decoding errors, the shared
   channel. Abstract specification: what is read is applied in order or the connection
   is replaced.
2. `Algorithms`: pure operators against reference definitions over bounded inputs, one
   run: the KV6 record builder, the NS part choice, `TrainDelay::at`, `resolve_train_trip`,
   `scheduled_position_of`, the departures window, `get_any`, `seconds_until_next`.
3. `Limits`: the limiter tiers, their sweep, key revocation against `authenticate_key`.
4. Per-day train runs in `LiveState`, for the curves that are keyed by number alone.
5. Proofs: the types of `MapView`, which need `Nothing` told apart from what is drawn; that the
   streams of `Selection` and `Page` implement `ViewStream` too.
