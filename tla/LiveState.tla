----------------------------- MODULE LiveState -----------------------------
(***************************************************************************)
(* The authoritative in-memory set of live trips (crates/core/src/state.rs) *)
(* together with the store of train delay curves it consults               *)
(* (crates/core/src/trains.rs).                                            *)
(*                                                                         *)
(* One vehicle has at most one trip.  Every realtime message is applied by *)
(* ApplyInit, ApplyEnd or ApplyUpdate, whole handler at a time (the map    *)
(* entry is locked for the duration); RitInfo messages replace delay       *)
(* curves; two sweeps drop what has not been heard of.                     *)
(*                                                                         *)
(* GTFS is abstracted to the questions the handlers ask of it: which trips *)
(* join on a (line, journey), which public line a trip has, at which place *)
(* the schedule puts it.  The feed is hot-swapped, may be absent, and may  *)
(* not know a trip, so every answer may also be None.                      *)
(***************************************************************************)
EXTENDS Naturals

CONSTANTS
  Vehicles,     \* vehicle ids, "<dataowner>:<vehicle_number>"
  Trains,       \* the vehicles of the NS feed (dataowner IFF)
  Lines,        \* line planning numbers / train type codes
  Journeys,     \* journey numbers; for trains the train number
  Days,         \* operating days
  Places,       \* positions
  Delays,       \* punctualities in seconds
  Trips,        \* GTFS trip ids
  TripJourney,  \* TripJourney[x]: the journey number trip x joins on
  TripLine,     \* TripLine[x]: the line (for rail, the type code) of trip x
  None,         \* Option::None, and the position NaN
  StaleAfter,   \* STALE_TRIP_SECS
  KeepCurve,    \* TRAIN_DELAY_PRUNE_SECS
  Lag,          \* how late a message may be: its timestamp is >= now - Lag
  Skew,         \* how far a sender's clock may be ahead: <= now + Skew
  MaxTime,      \* bound on the clock
  Messages,     \* the position messages the feeds may send
  Revisions     \* the RitInfo revisions the feed may send

Opt(S) == S \cup {None}
Kinds == {"INIT", "ARRIVAL", "ONSTOP", "DEPARTURE", "ONROUTE", "DELAY", "OFFROUTE", "END"}
Time == 0 .. (MaxTime + Skew)

\* A normalized message (PosEvent), its timestamp apart.
Message == [v: Vehicles, kind: Kinds, line: Opt(Lines), journey: Opt(Journeys),
            day: Opt(Days), fix: Opt(Places), punct: Opt(Delays)]

\* A decoded RitInfo: the delays of its curve's points, day, type code.
Revision == [delays: SUBSET Delays, day: Opt(Days), line: Opt(Lines)]

\* KV6 gives a bus every kind; the NS feed gives a train positions only: kind
\* ONROUTE, its number and a fix, but no line, day or punctuality.
FromFeed(m) ==
  m.v \in Trains =>
    /\ m.kind = "ONROUTE" /\ m.fix # None /\ m.journey # None
    /\ m.line = None /\ m.day = None /\ m.punct = None

ASSUME ConstantsAssumption ==
  /\ Trains \subseteq Vehicles
  /\ TripJourney \in [Trips -> Journeys]
  /\ TripLine \in [Trips -> Lines]
  /\ None \notin Lines /\ None \notin Journeys /\ None \notin Days
  /\ None \notin Places /\ None \notin Delays /\ None \notin Trips
  /\ 0 \in Delays
  /\ StaleAfter \in Nat /\ KeepCurve \in Nat /\ Lag \in Nat /\ Skew \in Nat
  /\ MaxTime \in Nat
  /\ Messages \subseteq Message /\ \A m \in Messages : FromFeed(m)
  /\ Revisions \subseteq Revision

VARIABLES
  trips,      \* trips[v]: the live trip of v, or None
  curves,     \* curves[j]: the delay curve of train number j, or None
  now,        \* the wall clock
  fixed,      \* history: fixed[v], the current trip of v has had a real fix
  heard       \* history: heard[v], when the last message of v was applied

vars == <<trips, curves, now, fixed, heard>>

Trip == [line: Opt(Lines), journey: Opt(Journeys), day: Opt(Days),
         matched: Opt(Trips), public: Opt(Lines),
         pos: Opt(Places), anchored: BOOLEAN,
         delay: Delays, known: BOOLEAN,
         atStop: BOOLEAN, init: BOOLEAN, upd: Time]

Curve == [delays: SUBSET Delays, day: Opt(Days), line: Opt(Lines), at: Time]

-----------------------------------------------------------------------------
(* What a handler does to one trip.                                        *)

NewTrip(ts) ==
  [line |-> None, journey |-> None, day |-> None, matched |-> None,
   public |-> None, pos |-> None, anchored |-> FALSE, delay |-> 0,
   known |-> FALSE, atStop |-> FALSE, init |-> FALSE, upd |-> ts]

OrElse(x, y) == IF x # None THEN x ELSE y

\* (Mutants are named <what they get wrong> and stand before the definition
\* they are an alternative to; nothing else uses them.)
FieldsSwapped(t, m, ts) ==
  [t EXCEPT !.pos = OrElse(m.fix, @), !.anchored = @ /\ m.fix = None,
            !.delay = OrElse(m.punct, @), !.known = @ \/ m.punct # None,
            !.line = OrElse(m.journey, @), !.journey = OrElse(m.journey, @),
            !.day = OrElse(m.day, @), !.upd = ts]
FieldsKeepAnchor(t, m, ts) ==
  [t EXCEPT !.pos = OrElse(m.fix, @),
            !.delay = OrElse(m.punct, @), !.known = @ \/ m.punct # None,
            !.line = OrElse(m.line, @), !.journey = OrElse(m.journey, @),
            !.day = OrElse(m.day, @), !.upd = ts]
FieldsClockOnFixOnly(t, m, ts) ==
  [t EXCEPT !.pos = OrElse(m.fix, @), !.anchored = @ /\ m.fix = None,
            !.delay = OrElse(m.punct, @), !.known = @ \/ m.punct # None,
            !.line = OrElse(m.line, @), !.journey = OrElse(m.journey, @),
            !.day = OrElse(m.day, @), !.upd = IF m.fix = None THEN @ ELSE ts]

\* A field the message carries replaces the trip's; one it omits leaves it.
ApplyFields(t, m, ts) ==
  [t EXCEPT !.pos      = OrElse(m.fix, @),
            !.anchored = @ /\ m.fix = None,
            !.delay    = OrElse(m.punct, @),
            !.known    = @ \/ m.punct # None,
            !.line     = OrElse(m.line, @),
            !.journey  = OrElse(m.journey, @),
            !.day      = OrElse(m.day, @),
            !.upd      = ts]

CurveDelayUnmarked(v, t) ==
  IF v \notin Trains \/ t.journey = None THEN {t}
  ELSE LET c == curves[t.journey]
       IN  IF c = None THEN {t}
           ELSE { [t EXCEPT !.delay = d, !.day = OrElse(c.day, @),
                            !.line = OrElse(@, c.line)]
                  : d \in IF c.delays = {} THEN {t.delay} ELSE c.delays }

\* The curve is evaluated at the fix time; which of its points that selects
\* is left open.
TrainDelayed(v, t) ==
  IF v \notin Trains \/ t.journey = None THEN {t}
  ELSE LET c == curves[t.journey]
       IN  IF c = None THEN {t}
           ELSE { [t EXCEPT !.delay = d,
                            !.known = @ \/ c.delays # {},
                            !.day   = OrElse(c.day, @),
                            !.line  = OrElse(@, c.line)]
                  : d \in IF c.delays = {} THEN {t.delay} ELSE c.delays }

JoinsByNumber(v, t) == { x \in Trips : t.journey # None /\ TripJourney[x] = t.journey }

\* The trips GTFS may answer with: by (line, journey) for KV6, by number for
\* trains, whose service day is resolved from the candidates.
Joins(v, t) ==
  { x \in Trips : /\ t.journey # None /\ TripJourney[x] = t.journey
                  /\ v \in Trains \/ TripLine[x] = t.line }

\* match_train_trip: the candidate names the line and, failing RitInfo, the day.
Matched(v, t, x) ==
  IF v \in Trains
  THEN { [t EXCEPT !.matched = x, !.line = TripLine[x],
                   !.public = OrElse(@, TripLine[x]), !.day = OrElse(@, d)]
         : d \in Days }
  ELSE { [t EXCEPT !.matched = x] }

\* The route's public line; None when the route has no short name or the
\* swapped-in feed no longer has the trip.
Labelled(t) ==
  { [t EXCEPT !.public = OrElse(@, p)]
    : p \in IF t.matched = None THEN {None} ELSE Opt({TripLine[t.matched]}) }

Enriched(v, t) ==
  IF t.matched # None THEN Labelled(t)
  ELSE {t} \cup UNION { Labelled(u) : u \in UNION { Matched(v, t, x) : x \in Joins(v, t) } }

StationEvent(kind) == kind \in {"INIT", "ARRIVAL", "ONSTOP", "DEPARTURE"}

\* The station the schedule names, for a trip that has one and lacks a fix.
Anchored(t, kind) ==
  IF ~StationEvent(kind) \/ (t.pos # None /\ ~t.anchored) THEN {t}
  ELSE {t} \cup { [t EXCEPT !.pos = p, !.anchored = TRUE]
                  : p \in IF t.matched = None \/ t.day = None THEN {} ELSE Places }

AnyJourneyIsNew(t, m) == m.journey # None /\ t.journey # None

\* Another journey without an END is a fresh trip (the line is not looked at).
NewJourney(t, m) ==
  /\ m.journey # None
  /\ t.journey # None
  /\ m.journey # t.journey

Stopped(t, kind) ==
  CASE kind \in {"ARRIVAL", "ONSTOP"}    -> [t EXCEPT !.atStop = TRUE]
    [] kind \in {"DEPARTURE", "ONROUTE"} -> [t EXCEPT !.atStop = FALSE]
    [] OTHER                             -> t

\* Whether an update continues the trip on record, rather than starting one
\* because its INIT was missed or the journey is another.
Continues(m) == trips[m.v] # None /\ ~NewJourney(trips[m.v], m)

Base(m, ts) == IF Continues(m) THEN trips[m.v] ELSE NewTrip(ts)

\* What INIT and the other kinds may leave, GTFS and the curves deciding.
InitResults(m, ts) ==
  UNION { UNION { Anchored(u, m.kind) : u \in Enriched(m.v, t) }
          : t \in TrainDelayed(m.v, ApplyFields([NewTrip(ts) EXCEPT !.init = TRUE], m, ts)) }

UpdateResults(m, ts) ==
  UNION { UNION { Anchored(u, m.kind)
                  : u \in IF t.public = None THEN Enriched(m.v, t) ELSE {t} }
          : t \in TrainDelayed(m.v, ApplyFields(Stopped(Base(m, ts), m.kind), m, ts)) }

-----------------------------------------------------------------------------
Init ==
  /\ trips = [v \in Vehicles |-> None]
  /\ curves = [j \in Journeys |-> None]
  /\ now = 0
  /\ fixed = [v \in Vehicles |-> FALSE]
  /\ heard = [v \in Vehicles |-> 0]

\* The applier takes m, stamped ts by its sender.
Received(m, ts) ==
  /\ ts + Lag >= now /\ ts <= now + Skew
  /\ heard' = [heard EXCEPT ![m.v] = now]
  /\ UNCHANGED <<curves, now>>

\* INIT starts a fresh trip, replacing any prior one wholesale.
ApplyInit(m, ts) ==
  /\ m.kind = "INIT"
  /\ Received(m, ts)
  /\ \E t \in InitResults(m, ts) : trips' = [trips EXCEPT ![m.v] = t]
  /\ fixed' = [fixed EXCEPT ![m.v] = m.fix # None]

\* END removes the vehicle's trip, whichever journey it names.
ApplyEnd(m, ts) ==
  /\ m.kind = "END"
  /\ Received(m, ts)
  /\ trips' = [trips EXCEPT ![m.v] = None]
  /\ fixed' = [fixed EXCEPT ![m.v] = FALSE]

\* Every other kind updates the trip, creating one if its INIT was missed.
ApplyUpdate(m, ts) ==
  /\ m.kind \notin {"INIT", "END"}
  /\ Received(m, ts)
  /\ \E t \in UpdateResults(m, ts) : trips' = [trips EXCEPT ![m.v] = t]
  /\ fixed' = [fixed EXCEPT ![m.v] = m.fix # None \/ (@ /\ Continues(m))]

\* A RitInfo revision replaces the train's curve wholesale.
ApplyCurve(j, r) ==
  /\ curves' = [curves EXCEPT ![j] =
                  [delays |-> r.delays, day |-> r.day, line |-> r.line, at |-> now]]
  /\ UNCHANGED <<trips, now, fixed, heard>>

Stale(t) == t # None /\ t.upd + StaleAfter < now

\* The sweep: every trip not updated within the staleness window goes.
PruneStale ==
  /\ trips' = [v \in Vehicles |-> IF Stale(trips[v]) THEN None ELSE trips[v]]
  /\ fixed' = [v \in Vehicles |-> fixed[v] /\ ~Stale(trips[v])]
  /\ UNCHANGED <<curves, now, heard>>

\* The upkeep task's sweep of curves nobody has revised.
PruneCurves ==
  /\ curves' = [j \in Journeys |->
                  IF curves[j] = None THEN None
                  ELSE IF curves[j].at + KeepCurve >= now THEN curves[j] ELSE None]
  /\ UNCHANGED <<trips, now, fixed, heard>>

Advance ==
  /\ now < MaxTime
  /\ now' = now + 1
  /\ UNCHANGED <<trips, curves, fixed, heard>>

Next ==
  \/ \E m \in Messages, ts \in Time :
       ApplyInit(m, ts) \/ ApplyEnd(m, ts) \/ ApplyUpdate(m, ts)
  \/ \E j \in Journeys, r \in Revisions : ApplyCurve(j, r)
  \/ PruneStale
  \/ PruneCurves
  \/ Advance

Spec == Init /\ [][Next]_vars
-----------------------------------------------------------------------------
(* Properties.                                                             *)

TypeOK ==
  /\ trips \in [Vehicles -> Opt(Trip)]
  /\ curves \in [Journeys -> Opt(Curve)]
  /\ now \in 0 .. MaxTime
  /\ fixed \in [Vehicles -> BOOLEAN]
  /\ heard \in [Vehicles -> 0 .. MaxTime]

\* Where a position comes from (anchor_to_schedule, apply_fields).  A trip
\* that has had a real fix is never shown at a scheduled station, whatever
\* fix-less station messages follow; one that has had none is either nowhere
\* or flagged as standing on the schedule.
PositionProvenance ==
  \A v \in Vehicles : trips[v] # None =>
    IF fixed[v]
    THEN trips[v].pos # None /\ ~trips[v].anchored
    ELSE trips[v].anchored <=> trips[v].pos # None

\* The line of u is what t had, or what a message just named.
Relined(v, t, u) ==
  \/ u.line = t.line
  \/ \E m \in Messages, ts \in Time : m.v = v /\ m.line = u.line /\ ApplyUpdate(m, ts)

\* A trip never carries the GTFS trip of another journey number, whatever
\* came late, twice or not at all (apply's new-journey rule).  A match is on
\* the trip's own line (EnricherImpl.enrich); the two part only when a message
\* names another line under the number on the map, for apply compares numbers
\* alone.  A train is named by its match, whatever line code a curve supplied
\* first (match_train_trip): its realtime_trip_id is the one the departure
\* boards look up.
MatchIntegrity ==
  [][\A v \in Vehicles :
       LET t == trips[v]
           u == trips'[v]
       IN  u # None /\ u.matched # None =>
             /\ u.journey = TripJourney[u.matched]
             /\ v \in Trains => u.line = TripLine[u.matched] /\ u.public # None
             /\ \/ u.line = TripLine[u.matched]
                \/ t # None /\ t.matched = u.matched /\ Relined(v, t, u)]_vars

\* "Unknown" and "on time" are both 0 on the wire: a delay other than the
\* default is always a measurement, on every path that sets or resets it.
DelayHonest ==
  \A v \in Vehicles : trips[v] # None => trips[v].known \/ trips[v].delay = 0

\* last_update follows the moment the vehicle was last heard of, within the
\* clock errors the feeds allow; nothing but a message moves it.
UpdateTracksHeard ==
  \A v \in Vehicles : trips[v] # None =>
    /\ trips[v].upd <= heard[v] + Skew
    /\ heard[v] <= trips[v].upd + Lag

\* What t knows beyond its messages' last fields, u knows as well.
Keeps(t, u) ==
  /\ t.matched # None => u.matched = t.matched
  /\ t.public # None => u.public = t.public
  /\ t.known => u.known

\* An update about the journey already on the map refines that trip: a match,
\* a public line or a measured delay it has is not lost to a later message, a
\* sweep or a revised curve.  Only an INIT of that vehicle discards them.
UpdatesRefine ==
  [][\A v \in Vehicles :
       trips[v] # None /\ trips'[v] # None /\ trips'[v].journey = trips[v].journey
       => \/ Keeps(trips[v], trips'[v])
          \/ \E m \in Messages, ts \in Time : m.v = v /\ ApplyInit(m, ts)]_vars
=============================================================================
