-------------------------- MODULE ServerLoopProofs --------------------------
(***************************************************************************)
(* Proofs about the live state of the server and the loop around it        *)
(* (LiveState, ServerLoop), for any vehicles, feeds, intervals and lags.   *)
(*                                                                         *)
(* First the handlers.  They build a trip in stages: base, fields of the   *)
(* message, train delay, enrichment, anchor.  Sound(v, t, fx) is what      *)
(* every stage keeps of the trip t of vehicle v that has had a real fix    *)
(* iff fx; there is one lemma per stage, and the inductive invariant says  *)
(* that every live trip is sound.                                          *)
(*                                                                         *)
(* Then the loop: a vehicle that falls silent leaves the map and the       *)
(* index, and a curve nobody revises its store, after any number of        *)
(* crashes.  The time a live trip has gone unheard of is paid for by the   *)
(* ticks owed and those since the last sweep (Timely): a tick takes from   *)
(* the first what it adds to the second, except when it sweeps.  The count *)
(* of ticks wraps, so that this needs some arithmetic of remainders.       *)
(***************************************************************************)
EXTENDS ServerLoop, Integers, TLAPS

MatchSound(v, t) ==
  t.matched # None =>
    /\ t.journey = TripJourney[t.matched]
    /\ v \in Trains => t.line = TripLine[t.matched] /\ t.public # None

FixSound(t, fx) ==
  IF fx THEN t.pos # None /\ ~t.anchored ELSE t.anchored <=> t.pos # None

DelaySound(t) == t.known \/ t.delay = 0

Sound(v, t, fx) ==
  t \in Trip /\ MatchSound(v, t) /\ FixSound(t, fx) /\ DelaySound(t)

\* The inductive invariant: well-typed, every live trip sound and its
\* timestamp tied to the moment of its last message; that it is not long
\* before it (late) holds only of a server that does not restart.
IInv(late) ==
  /\ TypeOK
  /\ \A v \in Vehicles : trips[v] # None =>
       /\ Sound(v, trips[v], fixed[v])
       /\ trips[v].upd <= heard[v] + Skew
       /\ late => heard[v] <= trips[v].upd + Lag

-----------------------------------------------------------------------------
(* One lemma per stage of a handler.                                       *)

\* A fresh trip is sound, with or without INIT's mark.
LEMMA NewTripSound ==
  ASSUME NEW v \in Vehicles, NEW ts \in Time, NEW b \in BOOLEAN
  PROVE  /\ Sound(v, NewTrip(ts), FALSE)
         /\ Sound(v, [NewTrip(ts) EXCEPT !.init = b], FALSE)
BY ConstantsAssumption DEF NewTrip, Sound, MatchSound, FixSound, DelaySound, Trip, Opt

\* The stop flag has no part in soundness.
LEMMA StoppedSound ==
  ASSUME NEW v \in Vehicles, NEW t, NEW fx \in BOOLEAN, NEW kind \in Kinds,
         Sound(v, t, fx)
  PROVE  /\ Sound(v, Stopped(t, kind), fx)
         /\ Stopped(t, kind).journey = t.journey
BY DEF Stopped, Sound, MatchSound, FixSound, DelaySound, Trip

\* A message leaves a trip a trip, and stamps it.
LEMMA FieldsTyped ==
  ASSUME NEW m \in Message, NEW ts \in Time, NEW t \in Trip
  PROVE  ApplyFields(t, m, ts) \in Trip /\ ApplyFields(t, m, ts).upd = ts
<1>1. /\ OrElse(m.fix, t.pos) \in Opt(Places)
      /\ OrElse(m.punct, t.delay) \in Delays
      /\ OrElse(m.line, t.line) \in Opt(Lines)
      /\ OrElse(m.journey, t.journey) \in Opt(Journeys)
      /\ OrElse(m.day, t.day) \in Opt(Days)
  BY DEF OrElse, Trip, Message, Opt
<1>2. /\ (t.anchored /\ m.fix = None) \in BOOLEAN
      /\ (t.known \/ m.punct # None) \in BOOLEAN
  OBVIOUS
<1> QED
  BY <1>1, <1>2 DEF ApplyFields, Trip

\* A message about the trip's own journey keeps it sound.
LEMMA FieldsSound ==
  ASSUME NEW m \in Messages, NEW ts \in Time, NEW t, NEW fx \in BOOLEAN,
         Sound(m.v, t, fx), ~NewJourney(t, m)
  PROVE  /\ Sound(m.v, ApplyFields(t, m, ts), m.fix # None \/ fx)
         /\ ApplyFields(t, m, ts).upd = ts
<1> DEFINE u == ApplyFields(t, m, ts)
<1>1. m \in Message /\ FromFeed(m)
  BY ConstantsAssumption
<1>2. t \in Trip
  BY DEF Sound
<1>3. u \in Trip /\ u.upd = ts
  BY <1>1, <1>2, FieldsTyped
<1>4. MatchSound(m.v, u)
  BY <1>1, <1>2, ConstantsAssumption
  DEF ApplyFields, OrElse, Trip, Message, Opt, NewJourney, Sound, MatchSound, FromFeed
<1>5. FixSound(u, m.fix # None \/ fx)
  BY <1>1, <1>2 DEF ApplyFields, OrElse, Trip, Sound, FixSound
<1>6. DelaySound(u)
  BY <1>1, <1>2 DEF ApplyFields, OrElse, Trip, Sound, DelaySound
<1> QED
  BY <1>3, <1>4, <1>5, <1>6 DEF Sound

\* A delay curve measures: it never makes up a delay, and never renames a
\* train its match has already named.
LEMMA TrainDelayedSound ==
  ASSUME TypeOK, NEW v \in Vehicles, NEW t, NEW fx \in BOOLEAN,
         Sound(v, t, fx), NEW u \in TrainDelayed(v, t)
  PROVE  Sound(v, u, fx) /\ u.upd = t.upd
<1>1. t \in Trip
  BY DEF Sound
<1>2. CASE u = t
  BY <1>2
<1>3. CASE u # t
  <2>1. v \in Trains /\ t.journey # None /\ curves[t.journey] # None
    BY <1>3 DEF TrainDelayed
  <2> DEFINE c == curves[t.journey]
  <2>2. c \in Curve
    BY <1>1, <2>1 DEF TypeOK, Trip, Opt
  <2>3. PICK d \in IF c.delays = {} THEN {t.delay} ELSE c.delays :
          u = [t EXCEPT !.delay = d, !.known = @ \/ c.delays # {},
                        !.day = OrElse(c.day, @), !.line = OrElse(@, c.line)]
    BY <2>1 DEF TrainDelayed
  <2>4. d \in Delays
    BY <1>1, <2>2, <2>3 DEF Curve, Trip
  <2>5. u \in Trip /\ u.upd = t.upd
    <3>1. /\ OrElse(c.day, t.day) \in Opt(Days)
          /\ OrElse(t.line, c.line) \in Opt(Lines)
          /\ (t.known \/ c.delays # {}) \in BOOLEAN
      BY <1>1, <2>2 DEF Curve, Trip, OrElse, Opt
    <3> QED
      BY <1>1, <2>3, <2>4, <3>1 DEF Trip
  <2>6. MatchSound(v, u)
    BY <1>1, <2>3, ConstantsAssumption DEF Sound, MatchSound, Trip, OrElse, Opt
  <2>7. FixSound(u, fx) /\ DelaySound(u)
    BY <1>1, <2>3 DEF Sound, FixSound, DelaySound, Trip
  <2> QED
    BY <2>5, <2>6, <2>7 DEF Sound
<1> QED
  BY <1>2, <1>3

\* A label only fills in a missing public line.
LEMMA LabelledSound ==
  ASSUME NEW v \in Vehicles, NEW t, NEW fx \in BOOLEAN,
         Sound(v, t, fx), NEW u \in Labelled(t)
  PROVE  Sound(v, u, fx) /\ u.upd = t.upd
<1>1. t \in Trip
  BY DEF Sound
<1>2. PICK p \in Opt(Lines) : u = [t EXCEPT !.public = OrElse(@, p)]
  BY <1>1, ConstantsAssumption DEF Labelled, Trip, Opt
<1>3. u \in Trip /\ u.upd = t.upd
  BY <1>1, <1>2 DEF Trip, OrElse, Opt
<1>4. MatchSound(v, u) /\ FixSound(u, fx) /\ DelaySound(u)
  BY <1>1, <1>2 DEF Trip, OrElse, Sound, MatchSound, FixSound, DelaySound
<1> QED
  BY <1>3, <1>4 DEF Sound

\* Enrichment keeps a match or makes one that joins on the trip's journey,
\* and names a train it matches.
LEMMA EnrichedSound ==
  ASSUME NEW v \in Vehicles, NEW t, NEW fx \in BOOLEAN,
         Sound(v, t, fx), NEW u \in Enriched(v, t)
  PROVE  Sound(v, u, fx) /\ u.upd = t.upd
<1>1. t \in Trip
  BY DEF Sound
<1>2. CASE t.matched # None
  BY <1>2, LabelledSound DEF Enriched
<1>3. CASE t.matched = None /\ u = t
  BY <1>3
<1>4. CASE t.matched = None /\ u # t
  <2>0. PICK x \in Joins(v, t) : \E w \in Matched(v, t, x) : u \in Labelled(w)
    BY <1>4 DEF Enriched
  <2>1. PICK w \in Matched(v, t, x) : u \in Labelled(w)
    BY <2>0
  <2>2. x \in Trips /\ x # None /\ t.journey = TripJourney[x] /\ TripLine[x] \in Lines
    BY <2>0, ConstantsAssumption DEF Joins
  <2>3. w \in Trip /\ w.upd = t.upd /\ w.matched = x /\ w.journey = t.journey
    <3>1. CASE v \in Trains
      <4>1. PICK d \in Days :
              w = [t EXCEPT !.matched = x, !.line = TripLine[x],
                            !.public = OrElse(@, TripLine[x]), !.day = OrElse(@, d)]
        BY <2>1, <3>1 DEF Matched
      <4>2. /\ OrElse(t.public, TripLine[x]) \in Opt(Lines)
            /\ OrElse(t.day, d) \in Opt(Days)
            /\ TripLine[x] \in Opt(Lines) /\ x \in Opt(Trips)
        BY <1>1, <2>2 DEF Trip, OrElse, Opt
      <4> QED
        BY <1>1, <4>1, <4>2 DEF Trip
    <3>2. CASE v \notin Trains
      BY <1>1, <2>1, <2>2, <3>2 DEF Matched, Trip, Opt
    <3> QED
      BY <3>1, <3>2
  <2>4. v \in Trains => w.line = TripLine[x] /\ w.public # None
    <3> SUFFICES ASSUME v \in Trains PROVE w.line = TripLine[x] /\ w.public # None
      OBVIOUS
    <3>1. PICK d \in Days :
            w = [t EXCEPT !.matched = x, !.line = TripLine[x],
                          !.public = OrElse(@, TripLine[x]), !.day = OrElse(@, d)]
      BY <2>1 DEF Matched
    <3>2. OrElse(t.public, TripLine[x]) # None
      BY <2>2, ConstantsAssumption DEF OrElse
    <3> QED
      BY <1>1, <3>1, <3>2 DEF Trip
  <2>5. FixSound(w, fx) /\ DelaySound(w)
    BY <1>1, <2>1 DEF Matched, Trip, Sound, FixSound, DelaySound
  <2>6. Sound(v, w, fx)
    BY <2>2, <2>3, <2>4, <2>5 DEF Sound, MatchSound
  <2> QED
    BY <2>1, <2>3, <2>6, LabelledSound
<1> QED
  BY <1>2, <1>3, <1>4

\* The anchor moves only a trip without a fix.
LEMMA AnchoredSound ==
  ASSUME NEW m \in Messages, NEW t, NEW fx \in BOOLEAN,
         Sound(m.v, t, fx), NEW u \in Anchored(t, m.kind)
  PROVE  Sound(m.v, u, fx) /\ u.upd = t.upd
<1>1. t \in Trip
  BY DEF Sound
<1>2. CASE u = t
  BY <1>2
<1>3. CASE u # t
  <2>1. (t.pos = None \/ t.anchored)
        /\ \E p \in Places : u = [t EXCEPT !.pos = p, !.anchored = TRUE]
    BY <1>1, <1>3 DEF Anchored, Trip
  <2>2. PICK p \in Places : u = [t EXCEPT !.pos = p, !.anchored = TRUE]
    BY <2>1
  <2>3. u \in Trip /\ u.upd = t.upd
    BY <1>1, <2>2 DEF Trip, Opt
  <2>4. MatchSound(m.v, u) /\ FixSound(u, fx) /\ DelaySound(u)
    BY <1>1, <2>1, <2>2, ConstantsAssumption
    DEF Trip, Sound, MatchSound, FixSound, DelaySound
  <2> QED
    BY <2>3, <2>4 DEF Sound
<1> QED
  BY <1>2, <1>3

-----------------------------------------------------------------------------
(* The handlers, and the theorems.                                         *)

\* What INIT may leave is sound, stamped, and has a fix iff INIT had one.
LEMMA InitSound ==
  ASSUME TypeOK, NEW m \in Messages, NEW ts \in Time, NEW t \in InitResults(m, ts)
  PROVE  Sound(m.v, t, m.fix # None) /\ t.upd = ts
<1> DEFINE b == [NewTrip(ts) EXCEPT !.init = TRUE]
           f == ApplyFields(b, m, ts)
<1>1. m \in Message /\ m.v \in Vehicles /\ m.kind \in Kinds
  BY ConstantsAssumption DEF Message
<1>2. Sound(m.v, b, FALSE)
  BY <1>1, NewTripSound
<1>3. ~NewJourney(b, m)
  BY DEF NewJourney, NewTrip
<1>4. Sound(m.v, f, m.fix # None) /\ f.upd = ts
  BY <1>2, <1>3, FieldsSound
<1> HIDE DEF f
<1>5. PICK d \in TrainDelayed(m.v, f) : \E u \in Enriched(m.v, d) : t \in Anchored(u, m.kind)
  <2>1. t \in UNION { UNION { Anchored(u, m.kind) : u \in Enriched(m.v, d) }
                      : d \in TrainDelayed(m.v, f) }
    BY DEF InitResults, f
  <2> QED
    BY <2>1
<1>6. PICK u \in Enriched(m.v, d) : t \in Anchored(u, m.kind)
  BY <1>5
<1>7. Sound(m.v, d, m.fix # None) /\ d.upd = ts
  BY <1>1, <1>4, <1>5, TrainDelayedSound
<1>8. Sound(m.v, u, m.fix # None) /\ u.upd = ts
  BY <1>1, <1>6, <1>7, EnrichedSound
<1>9. Sound(m.v, t, m.fix # None) /\ t.upd = u.upd
  BY <1>6, <1>8, AnchoredSound
<1> QED
  BY <1>8, <1>9

\* So is what an update may leave; it keeps the fixes of a continued trip.
LEMMA UpdateSound ==
  ASSUME NEW late \in BOOLEAN, IInv(late), NEW m \in Messages, NEW ts \in Time, NEW t \in UpdateResults(m, ts)
  PROVE  Sound(m.v, t, m.fix # None \/ (fixed[m.v] /\ Continues(m))) /\ t.upd = ts
<1> DEFINE fx == fixed[m.v] /\ Continues(m)
           s == Stopped(Base(m, ts), m.kind)
           f == ApplyFields(s, m, ts)
           gx == m.fix # None \/ fx
<1>1. m \in Message /\ m.v \in Vehicles /\ m.kind \in Kinds
  BY ConstantsAssumption DEF Message
<1>2. fx \in BOOLEAN /\ gx \in BOOLEAN
  BY <1>1 DEF IInv, TypeOK, Continues
<1>3. Sound(m.v, Base(m, ts), fx) /\ ~NewJourney(Base(m, ts), m)
  <2>1. CASE Continues(m)
    <3>1. Base(m, ts) = trips[m.v] /\ trips[m.v] # None /\ ~NewJourney(trips[m.v], m)
      BY <2>1 DEF Base, Continues
    <3>2. Sound(m.v, trips[m.v], fixed[m.v]) /\ fx = fixed[m.v]
      BY <1>1, <1>2, <2>1, <3>1 DEF IInv, TypeOK
    <3> QED
      BY <3>1, <3>2
  <2>2. CASE ~Continues(m)
    <3>1. Base(m, ts) = NewTrip(ts) /\ fx = FALSE
      BY <1>2, <2>2 DEF Base
    <3> QED
      <4>1. Sound(m.v, NewTrip(ts), FALSE)
        BY <1>1, NewTripSound
      <4>2. ~NewJourney(NewTrip(ts), m)
        BY DEF NewJourney, NewTrip
      <4> QED
        BY <3>1, <4>1, <4>2
  <2> QED
    BY <2>1, <2>2
<1>4. Sound(m.v, s, fx) /\ ~NewJourney(s, m)
  BY <1>1, <1>2, <1>3, StoppedSound DEF NewJourney
<1>5. Sound(m.v, f, gx) /\ f.upd = ts
  BY <1>2, <1>4, FieldsSound
<1> HIDE DEF fx, s, f, gx
<1>6. PICK d \in TrainDelayed(m.v, f) :
        \E u \in IF d.public = None THEN Enriched(m.v, d) ELSE {d} : t \in Anchored(u, m.kind)
  BY DEF UpdateResults, f, s
<1>7. PICK u \in IF d.public = None THEN Enriched(m.v, d) ELSE {d} : t \in Anchored(u, m.kind)
  BY <1>6
<1>8. Sound(m.v, d, gx) /\ d.upd = ts
  <2>1. TypeOK
    BY DEF IInv
  <2> QED
    BY <2>1, <1>1, <1>2, <1>5, <1>6, TrainDelayedSound
<1>9. Sound(m.v, u, gx) /\ u.upd = ts
  BY <1>1, <1>2, <1>7, <1>8, EnrichedSound
<1>10. Sound(m.v, t, gx) /\ t.upd = u.upd
  BY <1>1, <1>2, <1>7, <1>9, AnchoredSound
<1> QED
  BY <1>9, <1>10 DEF gx, fx

\* A step that leaves vehicle v with a sound trip t stamped ts within the
\* clock errors, and the others alone, keeps the invariant.
LEMMA InstallSound ==
  ASSUME NEW late \in BOOLEAN, IInv(late), NEW m \in Messages, NEW ts \in Time, Received(m, ts),
         NEW t, NEW fx \in BOOLEAN, Sound(m.v, t, fx), t.upd = ts,
         trips' = [trips EXCEPT ![m.v] = t], fixed' = [fixed EXCEPT ![m.v] = fx]
  PROVE  IInv(late)'
<1>1. m.v \in Vehicles
  BY ConstantsAssumption DEF Message
<1>2. TypeOK'
  BY <1>1 DEF IInv, TypeOK, Received, Sound, Opt
<1>3. /\ ts \in Nat /\ now \in Nat /\ Lag \in Nat /\ Skew \in Nat
      /\ ts + Lag >= now /\ ts <= now + Skew
  BY ConstantsAssumption DEF IInv, TypeOK, Received, Time
<1>4. ASSUME NEW v \in Vehicles, trips'[v] # None
      PROVE  /\ Sound(v, trips'[v], fixed'[v])
             /\ trips'[v].upd <= heard'[v] + Skew
             /\ late => heard'[v] <= trips'[v].upd + Lag
  <2>1. CASE v = m.v
    BY <1>1, <1>3, <2>1 DEF IInv, TypeOK, Received
  <2>2. CASE v # m.v
    BY <1>1, <1>4, <2>2 DEF IInv, TypeOK, Received
  <2> QED
    BY <2>1, <2>2
<1> QED
  BY <1>2, <1>4 DEF IInv, Sound, MatchSound, FixSound, DelaySound

LEMMA InitIInv == \A late \in BOOLEAN : Init => IInv(late)
BY ConstantsAssumption DEF Init, IInv, TypeOK, Opt

LEMMA NextIInv ==
  ASSUME NEW late \in BOOLEAN, IInv(late), [Next]_vars
  PROVE  IInv(late)'
<1>1. ASSUME NEW m \in Messages, NEW ts \in Time, ApplyInit(m, ts) PROVE IInv(late)'
  <2>1. PICK t \in InitResults(m, ts) : trips' = [trips EXCEPT ![m.v] = t]
    BY <1>1 DEF ApplyInit
  <2>2. Sound(m.v, t, m.fix # None) /\ t.upd = ts
    BY <2>1, InitSound DEF IInv
  <2> QED
    BY <1>1, <2>1, <2>2, InstallSound DEF ApplyInit
<1>2. ASSUME NEW m \in Messages, NEW ts \in Time, ApplyEnd(m, ts) PROVE IInv(late)'
  <2>1. m.v \in Vehicles
    BY ConstantsAssumption DEF Message
  <2>2. TypeOK'
    BY <1>2, <2>1 DEF ApplyEnd, Received, IInv, TypeOK, Opt
  <2>3. \A v \in Vehicles : v # m.v =>
          trips'[v] = trips[v] /\ fixed'[v] = fixed[v] /\ heard'[v] = heard[v]
    BY <1>2, <2>1 DEF ApplyEnd, Received, IInv, TypeOK
  <2>4. trips'[m.v] = None
    BY <1>2, <2>1 DEF ApplyEnd, IInv, TypeOK
  <2> QED
    BY <2>2, <2>3, <2>4 DEF IInv, Sound, MatchSound, FixSound, DelaySound
<1>3. ASSUME NEW m \in Messages, NEW ts \in Time, ApplyUpdate(m, ts) PROVE IInv(late)'
  <2>1. PICK t \in UpdateResults(m, ts) : trips' = [trips EXCEPT ![m.v] = t]
    BY <1>3 DEF ApplyUpdate
  <2> DEFINE fx == m.fix # None \/ (fixed[m.v] /\ Continues(m))
  <2>2. Sound(m.v, t, fx) /\ t.upd = ts
    BY <2>1, UpdateSound
  <2>3. m.v \in Vehicles
    BY ConstantsAssumption DEF Message
  <2>4. fx \in BOOLEAN /\ fixed' = [fixed EXCEPT ![m.v] = fx]
    BY <1>3, <2>3 DEF ApplyUpdate, IInv, TypeOK, Continues
  <2> QED
    BY <1>3, <2>1, <2>2, <2>4, InstallSound DEF ApplyUpdate
<1>4. ASSUME NEW j \in Journeys, NEW r \in Revisions, ApplyCurve(j, r) PROVE IInv(late)'
  <2>1. r \in Revision /\ now \in Time
    BY ConstantsAssumption DEF IInv, TypeOK, Time
  <2>2. [delays |-> r.delays, day |-> r.day, line |-> r.line, at |-> now] \in Curve
    BY <2>1 DEF Revision, Curve
  <2> QED
    BY <1>4, <2>2 DEF ApplyCurve, IInv, TypeOK, Opt, Sound, MatchSound, FixSound, DelaySound
<1>5. CASE PruneStale
  <2>1. \A v \in Vehicles : trips'[v] # None => trips'[v] = trips[v] /\ fixed'[v] = fixed[v]
    BY <1>5 DEF PruneStale, IInv, TypeOK
  <2>2. TypeOK'
    BY <1>5 DEF PruneStale, IInv, TypeOK, Opt, Stale
  <2> QED
    BY <1>5, <2>1, <2>2 DEF PruneStale, IInv, Sound, MatchSound, FixSound, DelaySound
<1>6. CASE PruneCurves
  BY <1>6 DEF PruneCurves, IInv, TypeOK, Opt, Sound, MatchSound, FixSound, DelaySound
<1>7. CASE Advance
  BY <1>7, ConstantsAssumption
  DEF Advance, IInv, TypeOK, Sound, MatchSound, FixSound, DelaySound
<1>8. CASE UNCHANGED vars
  BY <1>8 DEF vars, IInv, TypeOK, Sound, MatchSound, FixSound, DelaySound
<1> QED
  BY <1>1, <1>2, <1>3, <1>4, <1>5, <1>6, <1>7, <1>8 DEF Next

\* The state is always well-typed and every live trip sound.
THEOREM Invariance == Spec => []IInv(TRUE)
<1>1. Init => IInv(TRUE)
  BY InitIInv
<1>2. IInv(TRUE) /\ [Next]_vars => IInv(TRUE)'
  BY NextIInv
<1> QED
  BY <1>1, <1>2, PTL DEF Spec

\* Type correctness of the live state, for any constants.
THEOREM TypeCorrect == Spec => []TypeOK
<1>1. IInv(TRUE) => TypeOK
  BY DEF IInv
<1> QED
  BY <1>1, Invariance, PTL

\* A vehicle with a fix in its current trip is never shown at a scheduled
\* station; one without is nowhere, or flagged as anchored.
THEOREM ProvenanceHolds == Spec => []PositionProvenance
<1>1. IInv(TRUE) => PositionProvenance
  BY DEF IInv, Sound, FixSound, PositionProvenance
<1> QED
  BY <1>1, Invariance, PTL

\* A delay other than the default has been measured.
THEOREM DelaysHonest == Spec => []DelayHonest
<1>1. IInv(TRUE) => DelayHonest
  BY DEF IInv, Sound, DelaySound, DelayHonest
<1> QED
  BY <1>1, Invariance, PTL

\* last_update stays within the clock errors of the last message.
THEOREM UpdatesTrack == Spec => []UpdateTracksHeard
<1>1. IInv(TRUE) => UpdateTracksHeard
  BY DEF IInv, UpdateTracksHeard
<1> QED
  BY <1>1, Invariance, PTL

-----------------------------------------------------------------------------
(* Matches: which line a trip has, and on which line it was matched, for a *)
(* vehicle of KV6.                                                         *)

\* From t to u the line stays, and so does a match; a new match is on the line.
Lined(t, u) ==
  /\ u.line = t.line
  /\ \/ u.matched = t.matched
     \/ t.matched = None /\ u.line = TripLine[u.matched]

LEMMA EnrichedLined ==
  ASSUME NEW v \in Vehicles \ Trains, NEW t \in Trip, NEW u \in Enriched(v, t)
  PROVE  Lined(t, u) /\ u \in Trip
<1>1. CASE t.matched # None
  <2>1. PICK p \in Opt(Lines) : u = [t EXCEPT !.public = OrElse(@, p)]
    BY <1>1, ConstantsAssumption DEF Enriched, Labelled, Trip, Opt
  <2>2. OrElse(t.public, p) \in Opt(Lines) BY DEF OrElse, Trip
  <2> QED BY <2>1, <2>2 DEF Trip, Lined
<1>2. CASE u = t BY <1>2 DEF Lined
<1>3. CASE t.matched = None /\ u # t
  <2>1. PICK x \in Joins(v, t) : \E w \in Matched(v, t, x) : u \in Labelled(w)
    BY <1>3 DEF Enriched
  <2>2. PICK w \in Matched(v, t, x) : u \in Labelled(w) BY <2>1
  <2>3. w = [t EXCEPT !.matched = x] /\ TripLine[x] = t.line /\ x \in Trips
    BY <2>1, <2>2 DEF Matched, Joins
  <2>4. PICK p \in Opt(Lines) : u = [w EXCEPT !.public = OrElse(@, p)]
    <3>1. w.matched = x /\ TripLine[x] \in Lines BY <2>3, ConstantsAssumption DEF Trip
    <3> QED BY <2>2, <3>1 DEF Labelled, Opt
  <2>5. OrElse(w.public, p) \in Opt(Lines) BY <2>3 DEF OrElse, Trip
  <2>6. u.line = t.line /\ u.matched = x /\ u \in Trip
    BY <2>3, <2>4, <2>5 DEF Trip, Opt
  <2> QED BY <1>3, <2>3, <2>6 DEF Lined
<1> QED BY <1>1, <1>2, <1>3

LEMMA AnchoredLined ==
  ASSUME NEW t \in Trip, NEW kind, NEW u \in Anchored(t, kind)
  PROVE  u.line = t.line /\ u.matched = t.matched
<1>1. u = t \/ \E p : u = [t EXCEPT !.pos = p, !.anchored = TRUE] BY DEF Anchored
<1> QED BY <1>1 DEF Trip

\* What INIT leaves is matched on its own line, if at all.
LEMMA InitLined ==
  ASSUME TypeOK, NEW m \in Messages, m.v \notin Trains, NEW ts \in Time,
         NEW t \in InitResults(m, ts), t.matched # None
  PROVE  t.line = TripLine[t.matched]
<1> DEFINE b == [NewTrip(ts) EXCEPT !.init = TRUE]
           f == ApplyFields(b, m, ts)
<1>1. m \in Message /\ m.v \in Vehicles \ Trains BY ConstantsAssumption DEF Message
<1>2. Sound(m.v, b, FALSE) /\ ~NewJourney(b, m)
  <2>1. ~NewJourney(b, m) BY DEF NewJourney, NewTrip
  <2> QED BY <1>1, <2>1, NewTripSound
<1>3. Sound(m.v, f, m.fix # None \/ FALSE) BY <1>2, FieldsSound
<1>4. f \in Trip /\ f.matched = None
  BY <1>3 DEF Sound, ApplyFields, NewTrip
<1>5. TrainDelayed(m.v, f) = {f} BY <1>1 DEF TrainDelayed
<1> HIDE DEF f
<1>6. PICK u \in Enriched(m.v, f) : t \in Anchored(u, m.kind)
  <2>1. InitResults(m, ts) =
          UNION { UNION { Anchored(u, m.kind) : u \in Enriched(m.v, x) } : x \in TrainDelayed(m.v, f) }
    BY DEF InitResults, f
  <2>2. PICK x \in TrainDelayed(m.v, f) : t \in UNION { Anchored(u, m.kind) : u \in Enriched(m.v, x) }
    BY <2>1
  <2> QED BY <1>5, <2>2
<1>7. Lined(f, u) /\ u \in Trip BY <1>1, <1>4, <1>6, EnrichedLined
<1>8. t.line = u.line /\ t.matched = u.matched BY <1>6, <1>7, AnchoredLined
<1> QED BY <1>4, <1>7, <1>8 DEF Lined

\* So is what an update matches; a match it found on the trip keeps the line
\* the trip had, unless the message names another.
LEMMA UpdateLined ==
  ASSUME IInv(TRUE), NEW m \in Messages, m.v \notin Trains, NEW ts \in Time,
         NEW t \in UpdateResults(m, ts), t.matched # None
  PROVE  \/ t.line = TripLine[t.matched]
         \/ /\ trips[m.v] # None /\ trips[m.v].matched = t.matched
            /\ t.line = trips[m.v].line \/ t.line = m.line
<1> DEFINE b == Base(m, ts)
           s == Stopped(b, m.kind)
           f == ApplyFields(s, m, ts)
<1>1. /\ m \in Message /\ m.v \in Vehicles \ Trains /\ m.kind \in Kinds
      /\ TypeOK /\ NewTrip(ts) \in Trip
  BY ConstantsAssumption, NewTripSound DEF Message, IInv, Sound
<1>2. b \in Trip
  BY <1>1 DEF Base, Continues, TypeOK, Opt
<1>3. s \in Trip /\ s.line = b.line /\ s.matched = b.matched
  BY <1>2 DEF Stopped, Trip
<1>4. f \in Trip /\ f.matched = b.matched /\ (f.line = b.line \/ f.line = m.line)
  <2>1. f \in Trip BY <1>1, <1>3, FieldsTyped
  <2>2. f.matched = s.matched /\ f.line = OrElse(m.line, s.line)
    BY <1>3 DEF ApplyFields, Trip
  <2> QED BY <1>3, <2>1, <2>2 DEF OrElse
<1>5. TrainDelayed(m.v, f) = {f} BY <1>1 DEF TrainDelayed
<1> HIDE DEF b, s, f
<1>6. PICK u \in IF f.public = None THEN Enriched(m.v, f) ELSE {f} : t \in Anchored(u, m.kind)
  BY <1>5 DEF UpdateResults, f, s, b
<1>7. Lined(f, u) /\ u \in Trip
  <2>1. CASE u = f BY <1>4, <2>1 DEF Lined
  <2>2. CASE u \in Enriched(m.v, f) BY <1>1, <1>4, <2>2, EnrichedLined
  <2> QED BY <1>6, <2>1, <2>2
<1>8. t.line = u.line /\ t.matched = u.matched BY <1>6, <1>7, AnchoredLined
<1>9. CASE u.matched # f.matched \/ f.matched = None
  BY <1>7, <1>8, <1>9 DEF Lined
<1>10. CASE u.matched = f.matched /\ f.matched # None
  <2>1. b.matched # None /\ t.matched = b.matched BY <1>4, <1>8, <1>10
  <2>2. trips[m.v] # None /\ b = trips[m.v]
    BY <2>1 DEF b, Base, Continues, NewTrip
  <2> QED BY <1>4, <1>7, <1>8, <2>1, <2>2 DEF Lined
<1> QED BY <1>9, <1>10

\* No trip carries the match of another journey number; a match is on the
\* trip's own line until a message names another; a matched train is named by
\* its match.
THEOREM MatchesHold == Spec => MatchIntegrity
<1>1. ASSUME IInv(TRUE), IInv(TRUE)', [Next]_vars, NEW v \in Vehicles,
             trips'[v] # None, trips'[v].matched # None
      PROVE  /\ trips'[v].journey = TripJourney[trips'[v].matched]
             /\ v \in Trains => trips'[v].line = TripLine[trips'[v].matched] /\ trips'[v].public # None
             /\ \/ trips'[v].line = TripLine[trips'[v].matched]
                \/ trips[v] # None /\ trips[v].matched = trips'[v].matched /\ Relined(v, trips[v], trips'[v])
  <2>1. /\ trips'[v].journey = TripJourney[trips'[v].matched]
        /\ v \in Trains => trips'[v].line = TripLine[trips'[v].matched] /\ trips'[v].public # None
    BY <1>1 DEF IInv, Sound, MatchSound
  <2> SUFFICES ASSUME v \notin Trains
               PROVE  \/ trips'[v].line = TripLine[trips'[v].matched]
                      \/ /\ trips[v] # None /\ trips[v].matched = trips'[v].matched
                         /\ Relined(v, trips[v], trips'[v])
    BY <2>1
  <2>2. CASE trips'[v] = trips[v] BY <1>1, <2>2 DEF Relined
  <2>3. ASSUME NEW m \in Messages, NEW ts \in Time, ApplyUpdate(m, ts), m.v = v
        PROVE  \/ trips'[v].line = TripLine[trips'[v].matched]
               \/ /\ trips[v] # None /\ trips[v].matched = trips'[v].matched
                  /\ Relined(v, trips[v], trips'[v])
    <3>1. PICK t \in UpdateResults(m, ts) : trips' = [trips EXCEPT ![m.v] = t]
      BY <2>3 DEF ApplyUpdate
    <3>2. trips'[v] = t BY <1>1, <2>3, <3>1 DEF IInv, TypeOK
    <3>3. \/ t.line = TripLine[t.matched]
          \/ /\ trips[v] # None /\ trips[v].matched = t.matched
             /\ t.line = trips[v].line \/ t.line = m.line
      BY <1>1, <2>3, <3>1, <3>2, UpdateLined
    <3> QED BY <2>3, <3>2, <3>3 DEF Relined
  <2>4. ASSUME NEW m \in Messages, NEW ts \in Time, ApplyInit(m, ts), m.v = v
        PROVE  trips'[v].line = TripLine[trips'[v].matched]
    <3>1. PICK t \in InitResults(m, ts) : trips' = [trips EXCEPT ![m.v] = t]
      BY <2>4 DEF ApplyInit
    <3>2. trips'[v] = t BY <1>1, <2>4, <3>1 DEF IInv, TypeOK
    <3>3. TypeOK BY <1>1 DEF IInv
    <3> QED BY <1>1, <2>4, <3>1, <3>2, <3>3, InitLined
  <2>5. ASSUME NEW m \in Messages, NEW ts \in Time, m.v # v \/ m.kind = "END",
               ApplyInit(m, ts) \/ ApplyEnd(m, ts) \/ ApplyUpdate(m, ts)
        PROVE  trips'[v] = trips[v]
    BY <1>1, <2>5 DEF ApplyInit, ApplyEnd, ApplyUpdate, IInv, TypeOK
  <2>6. CASE \E j \in Journeys, r \in Revisions : ApplyCurve(j, r)
    BY <2>2, <2>6 DEF ApplyCurve
  <2>7. CASE PruneStale BY <1>1, <2>2, <2>7 DEF PruneStale
  <2>8. CASE PruneCurves \/ Advance \/ UNCHANGED vars
    BY <2>2, <2>8 DEF PruneCurves, Advance, vars
  <2>9. CASE \E m \in Messages, ts \in Time : ApplyInit(m, ts) \/ ApplyEnd(m, ts) \/ ApplyUpdate(m, ts)
    <3>1. PICK m \in Messages, ts \in Time : ApplyInit(m, ts) \/ ApplyEnd(m, ts) \/ ApplyUpdate(m, ts)
      BY <2>9
    <3>2. CASE m.v # v \/ m.kind = "END" BY <2>2, <2>5, <3>1, <3>2
    <3>3. CASE m.v = v /\ m.kind # "END" BY <2>3, <2>4, <3>1, <3>3 DEF ApplyEnd
    <3> QED BY <3>2, <3>3
  <2> QED BY <1>1, <2>6, <2>7, <2>8, <2>9 DEF Next
<1>2. IInv(TRUE) /\ [Next]_vars => IInv(TRUE)' BY NextIInv
<1>3. ASSUME IInv(TRUE), [Next]_vars
      PROVE  [\A v \in Vehicles :
                LET t == trips[v]
                    u == trips'[v]
                IN  u # None /\ u.matched # None =>
                      /\ u.journey = TripJourney[u.matched]
                      /\ v \in Trains => u.line = TripLine[u.matched] /\ u.public # None
                      /\ \/ u.line = TripLine[u.matched]
                         \/ t # None /\ t.matched = u.matched /\ Relined(v, t, u)]_vars
  <2>1. IInv(TRUE)' BY <1>2, <1>3
  <2> QED BY <1>1, <1>3, <2>1
<1> QED BY <1>3, Invariance, PTL DEF Spec, MatchIntegrity

-----------------------------------------------------------------------------
(* Updates refine: what each stage of a handler keeps of the trip.         *)

LEMMA FieldsKeep ==
  ASSUME NEW t \in Trip, NEW m, NEW ts
  PROVE  /\ Keeps(t, ApplyFields(t, m, ts))
         /\ m.journey # None => ApplyFields(t, m, ts).journey = m.journey
BY DEF Trip, Keeps, ApplyFields, OrElse

LEMMA TrainDelayedKeeps ==
  ASSUME NEW v, NEW t \in Trip, NEW u \in TrainDelayed(v, t)
  PROVE  Keeps(t, u) /\ u.journey = t.journey
<1>1. CASE u = t BY <1>1 DEF Keeps
<1>2. CASE u # t
  <2> DEFINE c == curves[t.journey]
  <2>1. PICK d \in IF c.delays = {} THEN {t.delay} ELSE c.delays :
          u = [t EXCEPT !.delay = d, !.known = @ \/ c.delays # {},
                        !.day = OrElse(c.day, @), !.line = OrElse(@, c.line)]
    BY <1>2 DEF TrainDelayed
  <2> QED BY <2>1 DEF Trip, Keeps
<1> QED BY <1>1, <1>2

LEMMA LabelledKeeps ==
  ASSUME NEW t \in Trip, NEW u \in Labelled(t)
  PROVE  Keeps(t, u) /\ u.journey = t.journey
<1>1. PICK p : u = [t EXCEPT !.public = OrElse(@, p)] BY DEF Labelled
<1> QED BY <1>1 DEF Trip, Keeps, OrElse

LEMMA EnrichedKeeps ==
  ASSUME NEW v \in Vehicles, NEW t, NEW fx \in BOOLEAN, Sound(v, t, fx), NEW u \in Enriched(v, t)
  PROVE  Keeps(t, u) /\ u.journey = t.journey
<1>1. t \in Trip BY DEF Sound
<1>2. CASE t.matched # None BY <1>1, <1>2, LabelledKeeps DEF Enriched
<1>3. CASE u = t BY <1>3 DEF Keeps
<1>4. CASE t.matched = None /\ u # t
  <2>1. PICK x \in Joins(v, t) : \E w \in Matched(v, t, x) : u \in Labelled(w)
    BY <1>4 DEF Enriched
  <2>2. PICK w \in Matched(v, t, x) : u \in Labelled(w) BY <2>1
  <2>3. PICK p : u = [w EXCEPT !.public = OrElse(@, p)] BY <2>2 DEF Labelled
  <2>4. DOMAIN w = DOMAIN t /\ w.journey = t.journey /\ w.known = t.known
        /\ (t.public # None => w.public = t.public)
    <3>1. CASE v \in Trains
      <4>1. PICK d \in Days :
              w = [t EXCEPT !.matched = x, !.line = TripLine[x],
                            !.public = OrElse(@, TripLine[x]), !.day = OrElse(@, d)]
        BY <2>2, <3>1 DEF Matched
      <4> QED BY <1>1, <4>1 DEF Trip, OrElse
    <3>2. CASE v \notin Trains BY <1>1, <2>2, <3>2 DEF Matched, Trip
    <3> QED BY <3>1, <3>2
  <2>5. u.journey = w.journey /\ u.known = w.known /\ (w.public # None => u.public = w.public)
    BY <1>1, <2>3, <2>4 DEF Trip, OrElse
  <2> QED BY <1>4, <2>4, <2>5 DEF Keeps
<1> QED BY <1>2, <1>3, <1>4

LEMMA AnchoredKeeps ==
  ASSUME NEW t \in Trip, NEW kind, NEW u \in Anchored(t, kind)
  PROVE  Keeps(t, u) /\ u.journey = t.journey
<1>1. u = t \/ \E p : u = [t EXCEPT !.pos = p, !.anchored = TRUE] BY DEF Anchored
<1> QED BY <1>1 DEF Trip, Keeps

\* An update of the journey on the map keeps what its trip knows.
LEMMA UpdateKeeps ==
  ASSUME IInv(TRUE), NEW m \in Messages, NEW ts \in Time, NEW t \in UpdateResults(m, ts),
         trips[m.v] # None, t.journey = trips[m.v].journey
  PROVE  Keeps(trips[m.v], t)
<1> DEFINE o == trips[m.v]
           fx == fixed[m.v] /\ Continues(m)
           s == Stopped(Base(m, ts), m.kind)
           f == ApplyFields(s, m, ts)
           gx == m.fix # None \/ fx
<1>1. m.v \in Vehicles /\ m.kind \in Kinds /\ fx \in BOOLEAN /\ gx \in BOOLEAN /\ TypeOK
  BY ConstantsAssumption DEF Message, IInv, TypeOK, Continues
<1>2. Sound(m.v, Base(m, ts), fx) /\ ~NewJourney(Base(m, ts), m)
  <2>1. CASE Continues(m)
    <3>1. Base(m, ts) = trips[m.v] /\ ~NewJourney(trips[m.v], m) BY <2>1 DEF Base, Continues
    <3>2. Sound(m.v, trips[m.v], fixed[m.v]) /\ fx = fixed[m.v] BY <1>1, <2>1 DEF IInv, TypeOK
    <3> QED BY <3>1, <3>2
  <2>2. CASE ~Continues(m)
    <3>1. Base(m, ts) = NewTrip(ts) /\ fx = FALSE BY <1>1, <2>2 DEF Base
    <3>2. Sound(m.v, NewTrip(ts), FALSE) BY <1>1, NewTripSound
    <3>3. ~NewJourney(NewTrip(ts), m) BY DEF NewJourney, NewTrip
    <3> QED BY <3>1, <3>2, <3>3
  <2> QED BY <2>1, <2>2
<1>3. Sound(m.v, s, fx) /\ ~NewJourney(s, m)
  BY <1>1, <1>2, StoppedSound DEF NewJourney
<1>4. Sound(m.v, f, gx) BY <1>1, <1>3, FieldsSound
<1>5. Keeps(s, f) /\ (m.journey # None => f.journey = m.journey) BY <1>3, FieldsKeep DEF Sound
<1>6. Continues(m) => Keeps(o, s)
  <2> SUFFICES ASSUME Continues(m) PROVE Keeps(o, s) OBVIOUS
  <2>1. Base(m, ts) = o /\ o \in Trip BY <1>2 DEF Base, Sound
  <2> QED BY <2>1 DEF Stopped, Keeps, Trip
<1> HIDE DEF o, fx, s, f, gx
<1>7. PICK d \in TrainDelayed(m.v, f) :
        \E u \in IF d.public = None THEN Enriched(m.v, d) ELSE {d} : t \in Anchored(u, m.kind)
  BY DEF UpdateResults, f, s
<1>8. PICK u \in IF d.public = None THEN Enriched(m.v, d) ELSE {d} : t \in Anchored(u, m.kind)
  BY <1>7
<1>9. Keeps(f, d) /\ d.journey = f.journey /\ Sound(m.v, d, gx)
  BY <1>1, <1>4, <1>7, TrainDelayedKeeps, TrainDelayedSound DEF Sound
<1>10. Keeps(d, u) /\ u.journey = d.journey /\ Sound(m.v, u, gx)
  <2>1. CASE u = d BY <1>9, <2>1 DEF Keeps
  <2>2. CASE u \in Enriched(m.v, d) BY <1>1, <1>9, <2>2, EnrichedKeeps, EnrichedSound
  <2> QED BY <1>8, <2>1, <2>2
<1>11. Keeps(u, t) /\ t.journey = u.journey BY <1>8, <1>10, AnchoredKeeps DEF Sound
<1>12. Continues(m)
  <2>1. m.journey # None => t.journey = m.journey BY <1>5, <1>9, <1>10, <1>11
  <2> QED BY <2>1 DEF Continues, NewJourney
<1>13. Keeps(o, s) /\ Keeps(s, f) /\ Keeps(f, d) /\ Keeps(d, u) /\ Keeps(u, t)
  BY <1>5, <1>6, <1>9, <1>10, <1>11, <1>12
<1> QED BY <1>13 DEF Keeps, o

\* Nothing but an INIT makes a trip that stays on its journey forget a match, a
\* public line or that its delay was measured.
THEOREM Refining == Spec => UpdatesRefine
<1>1. ASSUME IInv(TRUE), [Next]_vars, NEW v \in Vehicles,
             trips[v] # None, trips'[v] # None, trips'[v].journey = trips[v].journey
      PROVE  \/ Keeps(trips[v], trips'[v])
             \/ \E m \in Messages, ts \in Time : m.v = v /\ ApplyInit(m, ts)
  <2>1. CASE trips'[v] = trips[v] BY <2>1 DEF Keeps
  <2>2. ASSUME NEW m \in Messages, NEW ts \in Time, ApplyUpdate(m, ts), m.v = v
        PROVE  Keeps(trips[v], trips'[v])
    <3>1. PICK t \in UpdateResults(m, ts) : trips' = [trips EXCEPT ![m.v] = t]
      BY <2>2 DEF ApplyUpdate
    <3>2. trips'[v] = t BY <1>1, <2>2, <3>1 DEF IInv, TypeOK
    <3> QED BY <1>1, <2>2, <3>1, <3>2, UpdateKeeps
  <2>3. ASSUME NEW m \in Messages, NEW ts \in Time, m.v # v \/ m.kind = "END",
               ApplyInit(m, ts) \/ ApplyEnd(m, ts) \/ ApplyUpdate(m, ts)
        PROVE  trips'[v] = trips[v]
    BY <1>1, <2>3 DEF ApplyInit, ApplyEnd, ApplyUpdate, IInv, TypeOK
  <2>4. CASE \E j \in Journeys, r \in Revisions : ApplyCurve(j, r)
    BY <2>1, <2>4 DEF ApplyCurve
  <2>5. CASE PruneStale BY <1>1, <2>1, <2>5 DEF PruneStale
  <2>6. CASE PruneCurves \/ Advance \/ UNCHANGED vars
    BY <2>1, <2>6 DEF PruneCurves, Advance, vars
  <2>7. CASE \E m \in Messages, ts \in Time : ApplyInit(m, ts) \/ ApplyEnd(m, ts) \/ ApplyUpdate(m, ts)
    <3>1. PICK m \in Messages, ts \in Time : ApplyInit(m, ts) \/ ApplyEnd(m, ts) \/ ApplyUpdate(m, ts)
      BY <2>7
    <3>2. CASE m.v # v \/ m.kind = "END" BY <2>1, <2>3, <3>1, <3>2
    <3>3. CASE m.v = v /\ m.kind # "END" BY <2>2, <3>1, <3>3 DEF ApplyEnd
    <3> QED BY <3>2, <3>3
  <2> QED BY <1>1, <2>4, <2>5, <2>6, <2>7 DEF Next
<1>2. ASSUME IInv(TRUE), [Next]_vars
      PROVE  [\A v \in Vehicles :
                trips[v] # None /\ trips'[v] # None /\ trips'[v].journey = trips[v].journey
                => \/ Keeps(trips[v], trips'[v])
                   \/ \E m \in Messages, ts \in Time : m.v = v /\ ApplyInit(m, ts)]_vars
  BY <1>1, <1>2
<1> QED BY <1>2, Invariance, PTL DEF Spec, UpdatesRefine

-----------------------------------------------------------------------------
(* Remainders.                                                             *)

LEMMA Divided ==
  ASSUME NEW a \in Nat \ {0}, NEW x \in Nat
  PROVE  /\ x % a \in 0 .. a - 1 /\ x \div a \in Nat
         /\ x = a * (x \div a) + (x % a)
OBVIOUS

LEMMA Scaled ==
  ASSUME NEW a \in Nat, NEW d \in Nat, NEW e \in Nat
  PROVE  a * (d + e) = a * d + a * e /\ (d >= 1 => a * d >= a)
<1>1. a * (d + e) = a * d + a * e OBVIOUS
<1>2. d >= 1 => a * d >= a OBVIOUS
<1> QED BY <1>1, <1>2

\* There is only one remainder.
LEMMA OneRemainder ==
  ASSUME NEW a \in Nat \ {0}, NEW p \in Nat, NEW q \in Nat,
         NEW r \in 0 .. a - 1, NEW s \in 0 .. a - 1, a * p + r = a * q + s
  PROVE  r = s
<1>1. CASE p = q BY <1>1
<1>2. CASE p < q
  <2>1. PICK d \in Nat : q = p + d /\ d >= 1
    <3>1. q - p \in Nat /\ q - p >= 1 /\ q = p + (q - p) BY <1>2
    <3> QED BY <3>1
  <2>2. a * q = a * p + a * d /\ a * d >= a BY <2>1, Scaled
  <2>3. a * d \in Nat /\ a * p \in Nat OBVIOUS
  <2> QED BY <2>2, <2>3
<1>3. CASE q < p
  <2>1. PICK d \in Nat : p = q + d /\ d >= 1
    <3>1. p - q \in Nat /\ p - q >= 1 /\ p = q + (p - q) BY <1>3
    <3> QED BY <3>1
  <2>2. a * p = a * q + a * d /\ a * d >= a BY <2>1, Scaled
  <2>3. a * d \in Nat /\ a * q \in Nat OBVIOUS
  <2> QED BY <2>2, <2>3
<1> QED BY <1>1, <1>2, <1>3

LEMMA NextRemainder ==
  ASSUME NEW a \in Nat \ {0}, NEW x \in Nat
  PROVE  (x + 1) % a = IF x % a = a - 1 THEN 0 ELSE (x % a) + 1
<1> DEFINE q == x \div a
           r == x % a
           p == (x + 1) \div a
           s == (x + 1) % a
<1>1. r \in 0 .. a - 1 /\ q \in Nat /\ x = a * q + r BY Divided
<1>2. x + 1 \in Nat OBVIOUS
<1>3. s \in 0 .. a - 1 /\ p \in Nat /\ x + 1 = a * p + s BY <1>2, Divided
<1> HIDE DEF q, r, p, s
<1>4. CASE r = a - 1
  <2>1. a * (q + 1) = a * q + a BY <1>1, Scaled
  <2>2. x + 1 = a * (q + 1) + 0 BY <1>1, <1>4, <2>1
  <2>3. q + 1 \in Nat /\ 0 \in 0 .. a - 1 BY <1>1
  <2>4. s = 0 BY <1>3, <2>2, <2>3, OneRemainder
  <2> QED BY <1>4, <2>4 DEF r, s
<1>5. CASE r # a - 1
  <2>1. r + 1 \in 0 .. a - 1 BY <1>1, <1>5
  <2>2. x + 1 = a * q + (r + 1) BY <1>1
  <2>4. s = r + 1 BY <1>1, <1>3, <2>1, <2>2, OneRemainder
  <2> QED BY <1>5, <2>4 DEF r, s
<1> QED BY <1>4, <1>5

LEMMA Product ==
  ASSUME NEW a \in Nat \ {0}, NEW b \in Nat \ {0}
  PROVE  a * b \in Nat \ {0}
OBVIOUS

\* A count that wraps at a multiple of a is as good as one that does not.
LEMMA Wrapped ==
  ASSUME NEW a \in Nat \ {0}, NEW b \in Nat \ {0}, NEW x \in Nat
  PROVE  (x % (a * b)) % a = x % a
<1> DEFINE c == a * b
           q == x \div c
           r == x % c
           p == r \div a
           s == r % a
<1>1. c \in Nat \ {0} BY Product
<1>2. r \in 0 .. c - 1 /\ q \in Nat /\ x = c * q + r 
  <2> HIDE DEF c
  <2> QED BY <1>1, Divided
<1>3. r \in Nat BY <1>1, <1>2
<1>4. s \in 0 .. a - 1 /\ p \in Nat /\ r = a * p + s
  <2> HIDE DEF r
  <2> QED BY <1>3, Divided
<1> DEFINE k == x \div a
           u == x % a
<1>5. u \in 0 .. a - 1 /\ k \in Nat /\ x = a * k + u BY Divided
<1> HIDE DEF q, r, p, s, k, u
<1>6. b * q \in Nat BY <1>2
<1>7. c * q = a * (b * q) BY <1>2
<1>8. a * (b * q + p) = a * (b * q) + a * p BY <1>4, <1>6, Scaled
<1>9. x = a * (b * q + p) + s
  <2>1. a * p \in Nat /\ a * (b * q) \in Nat BY <1>4, <1>6
  <2> HIDE DEF c
  <2> QED BY <1>2, <1>4, <1>7, <1>8, <2>1
<1>10. b * q + p \in Nat BY <1>4, <1>6
<1>11. s = u BY <1>4, <1>5, <1>9, <1>10, OneRemainder
<1> QED BY <1>11 DEF r, s, u, c

-----------------------------------------------------------------------------
(* The invariant.                                                          *)

\* A copy of the trip of v, made at whatever time.
GoodCopy(v, c) == Sound(v, c.trip, c.fixed) /\ c.trip.upd <= heard[v] + Skew

Copies ==
  /\ \A v \in Vehicles : part[v] # None => GoodCopy(v, part[v])
  /\ tripFile \notin {None, Bad} =>
       \A v \in Vehicles : tripFile[v] # None => GoodCopy(v, tripFile[v])

\* A process that is down has nothing in memory.
Down ==
  ~up => /\ \A v \in Vehicles : trips[v] = None /\ index[v] = None
         /\ \A j \in Journeys : curves[j] = None
         /\ loop = "idle" /\ owed = 0 /\ ticks = 0

Since == ticks % SweepEvery
Due(v) == heard[v] + Skew + StaleAfter

\* How old what is live may be, by the ticks it has yet to meet.
Timely ==
  /\ \A v \in Vehicles :
       /\ heard[v] <= now
       /\ trips[v] # None => now <= Due(v) + owed + Since
       /\ loop = "index" /\ part[v] # None => now <= Due(v) + owed + Since
       /\ index[v] # None => \/ now <= Due(v) + owed + Since
                             \/ loop = "index" /\ now <= Due(v) + owed + SweepEvery
  /\ \A j \in Journeys : curves[j] # None => upkeepAt <= curves[j].at + KeepCurve + UpkeepEvery
  /\ upkeepAt \in Nat
  /\ up => now <= upkeepAt /\ upkeepAt <= now + UpkeepEvery

LInv == IInv(FALSE) /\ LoopTypeOK /\ Copies /\ Down /\ Timely

LEMMA Numbers ==
  ASSUME LInv
  PROVE  /\ SweepEvery \in Nat /\ SweepEvery >= 1 /\ UpkeepEvery \in Nat /\ KeepCurve \in Nat
         /\ Skew \in Nat /\ StaleAfter \in Nat /\ Behind \in Nat
         /\ now \in Nat /\ owed \in Nat /\ Since \in 0 .. SweepEvery - 1
         /\ \A v \in Vehicles : heard[v] \in Nat /\ Due(v) \in Nat
<1>1. SweepEvery * SnapEvery \in Nat /\ ticks \in Nat
  BY LoopAssumption, Product DEF LInv, LoopTypeOK
<1>2. Since \in 0 .. SweepEvery - 1 BY <1>1, LoopAssumption, Divided DEF Since
<1> QED BY <1>2, ConstantsAssumption, LoopAssumption DEF LInv, LoopTypeOK, TypeOK, Due

-----------------------------------------------------------------------------
(* The steps.                                                              *)

\* What the applier does to a vehicle, it does on a message of now.
LEMMA Applies ==
  ASSUME LInv, Ingest
  PROVE  /\ now' = now /\ IInv(FALSE)'
         /\ \A v \in Vehicles : heard'[v] = now \/ (heard'[v] = heard[v] /\ trips'[v] = trips[v])
         /\ \A j \in Journeys : curves'[j] = curves[j] \/ curves'[j].at = now
<1>1. IInv(FALSE) BY DEF LInv
<1>2. TypeOK BY <1>1 DEF IInv
<1>3. [Next]_vars BY DEF Ingest, Next
<1>4. IInv(FALSE)' BY <1>1, <1>3, NextIInv
<1>5. ASSUME NEW m \in Messages, NEW ts \in Time, ApplyInit(m, ts) \/ ApplyEnd(m, ts) \/ ApplyUpdate(m, ts)
      PROVE  /\ now' = now /\ curves' = curves
             /\ \A v \in Vehicles : heard'[v] = now \/ (heard'[v] = heard[v] /\ trips'[v] = trips[v])
  <2>1. m.v \in Vehicles BY ConstantsAssumption DEF Message
  <2>2. now' = now /\ curves' = curves /\ heard' = [heard EXCEPT ![m.v] = now]
    BY <1>5 DEF ApplyInit, ApplyEnd, ApplyUpdate, Received
  <2>3. \E t : trips' = [trips EXCEPT ![m.v] = t] BY <1>5 DEF ApplyInit, ApplyEnd, ApplyUpdate
  <2> QED BY <1>2, <2>1, <2>2, <2>3 DEF TypeOK
<1>6. ASSUME NEW j \in Journeys, NEW r \in Revisions, ApplyCurve(j, r)
      PROVE  /\ now' = now /\ trips' = trips /\ heard' = heard
             /\ \A k \in Journeys : curves'[k] = curves[k] \/ curves'[k].at = now
  BY <1>2, <1>6 DEF ApplyCurve, TypeOK
<1> QED BY <1>4, <1>5, <1>6 DEF Ingest

LEMMA Ingested ==
  ASSUME LInv, Ingest
  PROVE  LInv'
<1>1. up /\ UNCHANGED <<up, loopVars, upkeepVars, crashes>> BY DEF Ingest
<1> USE DEF loopVars, upkeepVars
<1>2. LoopTypeOK' BY <1>1, Applies DEF LInv, LoopTypeOK, IInv
<1>3. \A v \in Vehicles : heard'[v] \in Nat /\ heard[v] <= heard'[v] /\ heard'[v] <= now
  <2> SUFFICES ASSUME NEW v \in Vehicles
               PROVE  heard'[v] \in Nat /\ heard[v] <= heard'[v] /\ heard'[v] <= now
    OBVIOUS
  <2>1. heard[v] <= now /\ heard[v] \in Nat /\ now \in Nat BY Numbers DEF LInv, Timely
  <2>2. heard'[v] = now \/ heard'[v] = heard[v] BY Applies
  <2> QED BY <2>1, <2>2
<1>4. Copies'
  <2>1. ASSUME NEW v \in Vehicles, NEW c, GoodCopy(v, c) PROVE GoodCopy(v, c)'
    <3>1. c.trip.upd \in Nat
      BY <2>1, ConstantsAssumption DEF GoodCopy, Sound, Trip, Time
    <3>2. c.trip.upd <= heard'[v] + Skew BY <1>3, <2>1, <3>1, Numbers DEF GoodCopy
    <3> QED BY <2>1, <3>2 DEF GoodCopy
  <2> QED BY <1>1, <2>1 DEF LInv, Copies
<1>5. Down' BY <1>1 DEF Down
<1>6. Timely'
  <2>1. now' = now /\ Since' = Since /\ owed' = owed /\ loop' = loop BY <1>1, Applies DEF Since
  <2>2. \A v \in Vehicles : Due(v)' = heard'[v] + Skew + StaleAfter BY DEF Due
  <2>3. ASSUME NEW v \in Vehicles
        PROVE  /\ heard'[v] <= now
               /\ trips'[v] # None => now <= Due(v)' + owed + Since
               /\ loop = "index" /\ part[v] # None => now <= Due(v)' + owed + Since
               /\ index[v] # None => \/ now <= Due(v)' + owed + Since
                                     \/ loop = "index" /\ now <= Due(v)' + owed + SweepEvery
    <3>1. Due(v)' \in Nat /\ Due(v) <= Due(v)' BY <1>3, <2>2, Numbers DEF Due
    <3>2. CASE heard'[v] = now
      <4>1. now <= Due(v)' + owed + Since BY <2>2, <3>2, Numbers
      <4> QED BY <1>3, <4>1
    <3>3. CASE trips'[v] = trips[v]
      <4>1. now <= Due(v) + owed + Since => now <= Due(v)' + owed + Since BY <3>1, Numbers
      <4>2. now <= Due(v) + owed + SweepEvery => now <= Due(v)' + owed + SweepEvery BY <3>1, Numbers
      <4> QED BY <1>3, <3>3, <4>1, <4>2 DEF LInv, Timely
    <3> QED BY <3>2, <3>3, Applies
  <2>4. ASSUME NEW j \in Journeys, curves'[j] # None
        PROVE  upkeepAt <= curves'[j].at + KeepCurve + UpkeepEvery
    <3>1. CASE curves'[j] = curves[j] BY <2>4, <3>1 DEF LInv, Timely
    <3>2. CASE curves'[j].at = now
      <4>1. upkeepAt <= now + UpkeepEvery /\ upkeepAt \in Nat BY <1>1 DEF LInv, Timely
      <4> QED BY <3>2, <4>1, Numbers
    <3> QED BY <3>1, <3>2, Applies
  <2>5. upkeepAt \in Nat /\ now <= upkeepAt /\ upkeepAt <= now + UpkeepEvery BY <1>1 DEF LInv, Timely
  <2> QED BY <1>1, <2>1, <2>3, <2>4, <2>5 DEF Timely
<1> QED BY <1>2, <1>4, <1>5, <1>6, Applies DEF LInv

LEMMA Passed ==
  ASSUME LInv, Pass
  PROVE  LInv'
<1>1. /\ now' = now + 1 /\ UNCHANGED <<trips, curves, fixed, heard>>
      /\ owed' = (IF up THEN owed + 1 ELSE owed) /\ (up => owed < Behind /\ now < upkeepAt)
      /\ UNCHANGED <<up, loop, ticks, todo, part, index, tripFile, curveFile, upkeepAt, crashes>>
  BY DEF Pass, Advance, upkeepVars
<1>2. IInv(FALSE)'
  <2>1. [Next]_vars BY DEF Pass, Next
  <2>2. IInv(FALSE) BY DEF LInv
  <2> QED BY <2>1, <2>2, NextIInv
<1>3. LoopTypeOK'
  <2>1. owed' \in 0 .. Behind
    <3>1. owed \in 0 .. Behind BY DEF LInv, LoopTypeOK
    <3> QED BY <1>1, <3>1, Numbers
  <2>2. TypeOK' BY <1>2 DEF IInv
  <2> QED BY <1>1, <2>1, <2>2 DEF LInv, LoopTypeOK
<1>4. Copies' /\ Down' BY <1>1 DEF LInv, Copies, GoodCopy, Down
<1>5. Timely'
  <2>1. Since' = Since /\ \A v \in Vehicles : Due(v)' = Due(v) BY <1>1 DEF Since, Due
  <2>2. CASE up
    <3>1. owed' = owed + 1 BY <1>1, <2>2
    <3>2. ASSUME NEW v \in Vehicles
          PROVE  /\ heard[v] <= now => heard[v] <= now + 1
                 /\ now <= Due(v) + owed + Since => now + 1 <= Due(v) + (owed + 1) + Since
                 /\ now <= Due(v) + owed + SweepEvery => now + 1 <= Due(v) + (owed + 1) + SweepEvery
      BY Numbers
    <3>3. now + 1 <= upkeepAt /\ upkeepAt <= now + 1 + UpkeepEvery /\ upkeepAt \in Nat
      <4>1. upkeepAt \in Nat /\ upkeepAt <= now + UpkeepEvery BY <2>2 DEF LInv, Timely
      <4> QED BY <1>1, <2>2, <4>1, Numbers
    <3> QED BY <1>1, <2>1, <3>1, <3>2, <3>3 DEF LInv, Timely
  <2>3. CASE ~up
    <3>1. /\ \A v \in Vehicles : trips[v] = None /\ index[v] = None
          /\ \A j \in Journeys : curves[j] = None
          /\ loop = "idle"
      BY <2>3 DEF LInv, Down
    <3>2. ASSUME NEW v \in Vehicles PROVE heard[v] <= now + 1
      <4>1. heard[v] <= now BY DEF LInv, Timely
      <4> QED BY <4>1, Numbers
    <3>3. ~up' BY <1>1, <2>3
    <3> QED BY <1>1, <3>1, <3>2, <3>3 DEF LInv, Timely
  <2> QED BY <2>2, <2>3
<1> QED BY <1>2, <1>3, <1>4, <1>5 DEF LInv

LEMMA Ticked ==
  ASSUME LInv, Tick
  PROVE  LInv'
<1> DEFINE n == SweepEvery * SnapEvery
<1>1. /\ up /\ loop = "idle" /\ owed > 0 /\ owed' = owed - 1
      /\ ticks' = (ticks + 1) % n
      /\ loop' = "index" /\ todo' = Vehicles /\ part' = Empty
      /\ UNCHANGED <<up, index, tripFile, curveFile, upkeepAt, crashes>>
      /\ UNCHANGED <<curves, now, heard>>
  BY DEF Tick, upkeepVars, vars, PruneStale
<1>2. IInv(FALSE)'
  <2>1. [Next]_vars BY DEF Tick, Next
  <2>2. IInv(FALSE) BY DEF LInv
  <2> QED BY <2>1, <2>2, NextIInv
<1>3. ticks \in Nat /\ n \in Nat \ {0} BY Product, LoopAssumption DEF LInv, LoopTypeOK
<1>4. Since' = IF Since = SweepEvery - 1 THEN 0 ELSE Since + 1
  <2>1. ticks' % SweepEvery = (ticks + 1) % SweepEvery
    <3>1. ticks + 1 \in Nat BY <1>3
    <3> QED BY <1>1, <3>1, Wrapped, LoopAssumption
  <2> QED BY <1>3, <2>1, NextRemainder, LoopAssumption DEF Since
<1>5. LoopTypeOK'
  <2>1. ticks' \in 0 .. n - 1
    <3>1. ticks + 1 \in Nat BY <1>3
    <3> HIDE DEF n
    <3> QED BY <1>1, <1>3, <3>1, Divided
  <2>2. owed' \in 0 .. Behind
    <3>1. owed \in 0 .. Behind BY DEF LInv, LoopTypeOK
    <3> QED BY <1>1, <3>1, Numbers
  <2>3. TypeOK' BY <1>2 DEF IInv
  <2>4. part' \in [Vehicles -> Opt(Saved)] BY <1>1 DEF Empty, Opt
  <2> QED BY <1>1, <2>1, <2>2, <2>3, <2>4 DEF LInv, LoopTypeOK
<1>6. Copies' /\ Down' BY <1>1 DEF LInv, Copies, GoodCopy, Down, Empty
<1>7. ASSUME NEW v \in Vehicles, trips'[v] # None PROVE now <= Due(v) + owed' + Since'
  <2>1. CASE Since' = 0
    <3>1. PruneStale BY <2>1 DEF Tick, Since
    <3>2. trips'[v] = trips[v] /\ ~Stale(trips[v]) BY <1>7, <3>1 DEF PruneStale, LInv, LoopTypeOK, TypeOK
    <3>3. trips[v] # None /\ trips[v].upd <= heard[v] + Skew /\ trips[v].upd \in Nat
      BY <1>7, <3>2, ConstantsAssumption DEF LInv, IInv, Sound, Trip, Time
    <3>4. now <= trips[v].upd + StaleAfter BY <3>2, <3>3, Numbers DEF Stale
    <3>5. now <= Due(v) BY <3>3, <3>4, Numbers DEF Due
    <3> QED BY <1>1, <2>1, <3>5, Numbers
  <2>2. CASE Since' # 0
    <3>1. UNCHANGED vars BY <2>2 DEF Tick, Since
    <3>2. trips'[v] = trips[v] BY <3>1 DEF vars
    <3>3. now <= Due(v) + owed + Since BY <1>7, <3>2 DEF LInv, Timely
    <3>4. Since' = Since + 1 BY <1>4, <2>2
    <3> QED BY <1>1, <3>3, <3>4, Numbers
  <2> QED BY <2>1, <2>2
<1>8. ASSUME NEW v \in Vehicles, index[v] # None
      PROVE  now <= Due(v) + owed' + Since' \/ now <= Due(v) + owed' + SweepEvery
  <2>1. now <= Due(v) + owed + Since BY <1>1, <1>8 DEF LInv, Timely
  <2>2. CASE Since = SweepEvery - 1 BY <1>1, <2>1, <2>2, Numbers
  <2>3. CASE Since # SweepEvery - 1
    <3>1. Since' = Since + 1 BY <1>4, <2>3
    <3> QED BY <1>1, <2>1, <3>1, Numbers
  <2> QED BY <2>2, <2>3
<1>9. Timely'
  <2>1. now' = now /\ \A v \in Vehicles : Due(v)' = Due(v) BY <1>1 DEF Due
  <2>2. \A v \in Vehicles : part'[v] = None BY <1>1 DEF Empty
  <2> QED BY <1>1, <1>7, <1>8, <2>1, <2>2 DEF LInv, Timely
<1> QED BY <1>2, <1>5, <1>6, <1>9 DEF LInv

\* The live state as it was.
LEMMA Unmoved ==
  ASSUME LInv, UNCHANGED vars
  PROVE  /\ IInv(FALSE)' /\ TypeOK' /\ now' = now
         /\ \A v \in Vehicles : trips'[v] = trips[v] /\ Due(v)' = Due(v) /\ heard'[v] = heard[v]
         /\ \A j \in Journeys : curves'[j] = curves[j]
         /\ \A v \in Vehicles : \A c : GoodCopy(v, c) => GoodCopy(v, c)'
<1>1. [Next]_vars OBVIOUS
<1>2. IInv(FALSE) BY DEF LInv
<1>3. IInv(FALSE)' BY <1>1, <1>2, NextIInv
<1> QED BY <1>3 DEF IInv, vars, Due, GoodCopy

LEMMA CopyGood ==
  ASSUME LInv, NEW v \in Vehicles
  PROVE  Copy(v) \in Opt(Saved) /\ (Copy(v) # None => trips[v] # None /\ GoodCopy(v, Copy(v)))
<1>1. CASE trips[v] = None BY <1>1 DEF Copy, Opt
<1>2. CASE trips[v] # None
  <2>1. Sound(v, trips[v], fixed[v]) /\ trips[v].upd <= heard[v] + Skew BY <1>2 DEF LInv, IInv
  <2>2. Copy(v) = [trip |-> trips[v], fixed |-> fixed[v]] BY <1>2 DEF Copy
  <2>3. trips[v] \in Trip /\ fixed[v] \in BOOLEAN BY <2>1 DEF Sound, LInv, LoopTypeOK, TypeOK
  <2> QED BY <1>2, <2>1, <2>2, <2>3 DEF GoodCopy, Saved, Opt
<1> QED BY <1>1, <1>2

LEMMA Visited ==
  ASSUME LInv, NEW v \in Vehicles, Visit(v)
  PROVE  LInv'
<1>1. /\ UNCHANGED vars /\ UNCHANGED <<up, loop, owed, ticks, index, tripFile, curveFile, upkeepAt, crashes>>
      /\ todo' \subseteq todo /\ part' = [part EXCEPT ![v] = Copy(v)] /\ loop \in {"index", "collect"}
  BY DEF Visit, upkeepVars
<1>2. LoopTypeOK' BY <1>1, Unmoved, CopyGood DEF LInv, LoopTypeOK
<1>3. \A u \in Vehicles : part'[u] = part[u] \/ (u = v /\ part'[u] = Copy(v))
  <2>1. part \in [Vehicles -> Opt(Saved)] BY DEF LInv, LoopTypeOK
  <2>2. part' = [part EXCEPT ![v] = Copy(v)] BY <1>1
  <2> QED BY <2>1, <2>2
<1>4. Copies'
  <2>1. \A u \in Vehicles : part'[u] # None => GoodCopy(u, part'[u])
    BY <1>3, CopyGood DEF LInv, Copies
  <2> QED BY <1>1, <2>1, Unmoved DEF LInv, Copies
<1>5. Down' BY <1>1, Unmoved DEF LInv, Down
<1>6. Timely'
  <2>1. Since' = Since BY <1>1 DEF Since
  <2>2. \A u \in Vehicles : loop = "index" /\ part'[u] # None => now <= Due(u) + owed + Since
    BY <1>3, CopyGood DEF LInv, Timely
  <2> QED BY <1>1, <2>1, <2>2, Unmoved DEF LInv, Timely
<1>8. IInv(FALSE)' BY <1>1, Unmoved
<1> QED BY <1>2, <1>4, <1>5, <1>6, <1>8 DEF LInv

LEMMA PositionedType ==
  ASSUME NEW c \in [Vehicles -> Opt(Saved)]
  PROVE  /\ Positioned(c) \in [Vehicles -> Opt(Trip)]
         /\ \A v \in Vehicles : Positioned(c)[v] # None => c[v] # None /\ Positioned(c)[v] = c[v].trip
<1> SUFFICES ASSUME NEW v \in Vehicles
             PROVE  Positioned(c)[v] \in Opt(Trip) /\ (Positioned(c)[v] # None => c[v] # None /\ Positioned(c)[v] = c[v].trip)
  BY DEF Positioned
<1>1. c[v] # None => c[v].trip \in Trip BY DEF Opt, Saved
<1> QED BY <1>1 DEF Positioned, Opt

LEMMA Published ==
  ASSUME LInv, PublishIndex
  PROVE  LInv'
<1>1. /\ UNCHANGED vars /\ UNCHANGED <<up, owed, ticks, tripFile, curveFile, upkeepAt, crashes>>
      /\ loop = "index" /\ index' = Positioned(part) /\ part' = Empty
      /\ loop' \in {"idle", "collect"} /\ todo' \subseteq Vehicles
  BY DEF PublishIndex, upkeepVars
<1>2. index' \in [Vehicles -> Opt(Trip)] /\ \A v \in Vehicles : index'[v] # None => part[v] # None
  BY <1>1, PositionedType DEF LInv, LoopTypeOK
<1>3. part' \in [Vehicles -> Opt(Saved)] /\ \A v \in Vehicles : part'[v] = None
  BY <1>1 DEF Empty, Opt
<1>4. LoopTypeOK' BY <1>1, <1>2, <1>3, Unmoved DEF LInv, LoopTypeOK
<1>5. Copies' BY <1>1, <1>3, Unmoved DEF LInv, Copies
<1>6. Down' BY <1>1 DEF LInv, Down
<1>7. Timely'
  <2>1. Since' = Since BY <1>1 DEF Since
  <2>2. \A v \in Vehicles : index'[v] # None => now <= Due(v) + owed + Since
    BY <1>1, <1>2 DEF LInv, Timely
  <2> QED BY <1>1, <1>3, <2>1, <2>2, Unmoved DEF LInv, Timely
<1>8. IInv(FALSE)' BY <1>1, Unmoved
<1> QED BY <1>4, <1>5, <1>6, <1>7, <1>8 DEF LInv

LEMMA SavedTrips ==
  ASSUME LInv, Save
  PROVE  LInv'
<1>1. /\ UNCHANGED vars /\ UNCHANGED <<up, owed, ticks, todo, index, curveFile, upkeepAt, crashes>>
      /\ loop = "collect" /\ loop' = "idle" /\ part' = Empty /\ tripFile' \in {part, tripFile}
  BY DEF Save, upkeepVars
<1>2. part' \in [Vehicles -> Opt(Saved)] /\ \A v \in Vehicles : part'[v] = None
  BY <1>1 DEF Empty, Opt
<1>3. LoopTypeOK' BY <1>1, <1>2, Unmoved DEF LInv, LoopTypeOK
<1>4. Copies' BY <1>1, <1>2, Unmoved DEF LInv, Copies
<1>5. Down' BY <1>1, Unmoved DEF LInv, Down
<1>6. Timely'
  <2>1. Since' = Since BY <1>1 DEF Since
  <2> QED BY <1>1, <1>2, <2>1, Unmoved DEF LInv, Timely
<1>8. IInv(FALSE)' BY <1>1, Unmoved
<1> QED BY <1>3, <1>4, <1>5, <1>6, <1>8 DEF LInv

LEMMA KeptUp ==
  ASSUME LInv, Upkeep
  PROVE  LInv'
<1>1. /\ up /\ now = upkeepAt /\ upkeepAt' = upkeepAt + UpkeepEvery /\ PruneCurves
      /\ curveFile' \in {curves', curveFile}
      /\ UNCHANGED <<trips, now, fixed, heard>>
      /\ UNCHANGED <<up, loop, owed, ticks, todo, part, index, tripFile, crashes>>
  BY DEF Upkeep, loopVars, PruneCurves
<1>2. IInv(FALSE)'
  <2>1. [Next]_vars BY <1>1 DEF Next
  <2>2. IInv(FALSE) BY DEF LInv
  <2> QED BY <2>1, <2>2, NextIInv
<1>3. TypeOK' BY <1>2 DEF IInv
<1>4. LoopTypeOK'
  <2>1. curves' \in [Journeys -> Opt(Curve)] BY <1>3 DEF TypeOK
  <2> QED BY <1>1, <1>3, <2>1 DEF LInv, LoopTypeOK
<1>5. Copies' /\ Down' BY <1>1 DEF LInv, Copies, GoodCopy, Down
<1>6. ASSUME NEW j \in Journeys, curves'[j] # None
      PROVE  upkeepAt' <= curves'[j].at + KeepCurve + UpkeepEvery
  <2>1. curves'[j] = curves[j] /\ curves[j] # None /\ curves[j].at + KeepCurve >= now
    BY <1>1, <1>6 DEF PruneCurves
  <2>2. curves[j].at \in Nat
    BY <2>1, ConstantsAssumption DEF LInv, LoopTypeOK, TypeOK, Opt, Curve, Time
  <2> QED BY <1>1, <2>1, <2>2, Numbers
<1>7. Timely'
  <2>1. Since' = Since /\ \A v \in Vehicles : Due(v)' = Due(v) BY <1>1 DEF Since, Due
  <2>2. upkeepAt' \in Nat /\ now <= upkeepAt' /\ upkeepAt' <= now + UpkeepEvery BY <1>1, Numbers
  <2> QED BY <1>1, <1>6, <2>1, <2>2 DEF LInv, Timely
<1> QED BY <1>2, <1>4, <1>5, <1>7 DEF LInv

LEMMA Crashed ==
  ASSUME LInv, Crash
  PROVE  LInv'
<1>1. /\ ~up' /\ trips' = Empty /\ index' = Empty /\ part' = Empty /\ fixed' = [v \in Vehicles |-> FALSE]
      /\ curves' = [j \in Journeys |-> None]
      /\ loop' = "idle" /\ owed' = 0 /\ ticks' = 0 /\ todo' = {} /\ upkeepAt' = 0 /\ up' \in BOOLEAN
      /\ tripFile' \in {tripFile, Bad} /\ curveFile' \in {curveFile, Bad}
      /\ now' = now /\ heard' = heard
  BY DEF Crash
<1>2. /\ \A v \in Vehicles : trips'[v] = None /\ index'[v] = None /\ part'[v] = None
      /\ \A j \in Journeys : curves'[j] = None
  BY <1>1 DEF Empty
<1>3. TypeOK' BY <1>1 DEF LInv, LoopTypeOK, TypeOK, Empty, Opt
<1>4. IInv(FALSE)' BY <1>2, <1>3 DEF IInv
<1>5. LoopTypeOK'
  <2>1. 0 \in 0 .. SweepEvery * SnapEvery - 1
    <3> DEFINE n == SweepEvery * SnapEvery
    <3>1. n \in Nat \ {0} BY Product, LoopAssumption
    <3> HIDE DEF n
    <3>2. 0 \in 0 .. n - 1 BY <3>1
    <3> QED BY <3>2 DEF n
  <2>2. 0 \in 0 .. Behind BY Numbers
  <2>3. part' \in [Vehicles -> Opt(Saved)] /\ index' \in [Vehicles -> Opt(Trip)] BY <1>1 DEF Empty, Opt
  <2>4. tripFile' \in [Vehicles -> Opt(Saved)] \cup {None, Bad} BY <1>1 DEF LInv, LoopTypeOK
  <2>5. curveFile' \in [Journeys -> Opt(Curve)] \cup {None, Bad} BY <1>1 DEF LInv, LoopTypeOK
  <2> QED BY <1>1, <1>3, <2>1, <2>2, <2>3, <2>4, <2>5 DEF LoopTypeOK
<1>6. Copies' BY <1>1, <1>2 DEF LInv, Copies, GoodCopy
<1>7. Down' BY <1>1, <1>2 DEF Down
<1>8. Timely' BY <1>1, <1>2 DEF LInv, Timely
<1> QED BY <1>4, <1>5, <1>6, <1>7, <1>8 DEF LInv

LEMMA Restarted ==
  ASSUME LInv, Restart
  PROVE  LInv'
<1> DEFINE c == [v \in Vehicles |-> RestoredTrip(v)]
<1>1. /\ ~up /\ up' /\ up' \in BOOLEAN
      /\ trips' = [v \in Vehicles |-> IF c[v] = None THEN None ELSE c[v].trip]
      /\ fixed' = [v \in Vehicles |-> IF c[v] = None THEN FALSE ELSE c[v].fixed]
      /\ index' = Positioned(c)
      /\ curves' = [j \in Journeys |-> RestoredCurve(j)]
      /\ owed' = 1 /\ upkeepAt' = now
      /\ UNCHANGED <<now, heard, loop, ticks, todo, part, tripFile, curveFile, crashes>>
  BY DEF Restart
<1>2. ASSUME NEW v \in Vehicles
      PROVE  /\ c[v] \in Opt(Saved)
             /\ c[v] # None => GoodCopy(v, c[v]) /\ (c[v].trip # None => now <= Due(v))
  <2>1. CASE c[v] = None BY <2>1 DEF Opt
  <2>2. CASE c[v] # None
    <3>1. tripFile \notin {None, Bad} /\ tripFile[v] # None /\ c[v] = tripFile[v] /\ ~Stale(c[v].trip)
      BY <2>2 DEF RestoredTrip
    <3>2. c[v] \in Opt(Saved) /\ GoodCopy(v, c[v]) BY <3>1 DEF LInv, LoopTypeOK, Copies
    <3>3. c[v].trip \in Trip /\ c[v].trip.upd <= heard[v] + Skew BY <3>2 DEF GoodCopy, Sound
    <3>4. c[v].trip.upd \in Nat BY <3>3, ConstantsAssumption DEF Trip, Time
    <3>5. c[v].trip # None => now <= c[v].trip.upd + StaleAfter BY <3>1, <3>4, Numbers DEF Stale
    <3>6. c[v].trip # None => now <= Due(v) BY <3>3, <3>4, <3>5, Numbers DEF Due
    <3> QED BY <3>2, <3>6
  <2> QED BY <2>1, <2>2
<1>3. c \in [Vehicles -> Opt(Saved)] BY <1>2
<1> HIDE DEF c
<1>4. ASSUME NEW v \in Vehicles
      PROVE  /\ trips'[v] \in Opt(Trip) /\ fixed'[v] \in BOOLEAN
             /\ trips'[v] # None =>
                  /\ Sound(v, trips'[v], fixed'[v]) /\ trips'[v].upd <= heard[v] + Skew
                  /\ now <= Due(v)
  <2>1. CASE c[v] = None BY <1>1, <2>1 DEF Opt
  <2>2. CASE c[v] # None
    <3>1. trips'[v] = c[v].trip /\ fixed'[v] = c[v].fixed BY <1>1, <2>2
    <3>2. c[v] \in Saved BY <1>2, <2>2 DEF Opt
    <3> QED BY <1>2, <2>2, <3>1, <3>2 DEF GoodCopy, Saved, Opt
  <2> QED BY <2>1, <2>2
<1>5. ASSUME NEW j \in Journeys
      PROVE  /\ curves'[j] \in Opt(Curve)
             /\ curves'[j] # None => now <= curves'[j].at + KeepCurve
  <2>1. curves'[j] = RestoredCurve(j) BY <1>1
  <2>2. CASE RestoredCurve(j) = None BY <2>1, <2>2 DEF Opt
  <2>3. CASE RestoredCurve(j) # None
    <3>1. curveFile \notin {None, Bad} /\ RestoredCurve(j) = curveFile[j] /\ curveFile[j].at + KeepCurve >= now
      BY <2>3 DEF RestoredCurve
    <3>2. curveFile[j] \in Opt(Curve) BY <3>1 DEF LInv, LoopTypeOK
    <3>3. curveFile[j].at \in Nat BY <2>3, <3>1, <3>2, ConstantsAssumption DEF Opt, Curve, Time
    <3> QED BY <2>1, <3>1, <3>2, <3>3, Numbers
  <2> QED BY <2>2, <2>3
<1>6. TypeOK'
  <2>1. trips' \in [Vehicles -> Opt(Trip)] BY <1>1, <1>4
  <2>2. fixed' \in [Vehicles -> BOOLEAN] BY <1>1, <1>4
  <2>3. curves' \in [Journeys -> Opt(Curve)] BY <1>1, <1>5
  <2> QED BY <1>1, <2>1, <2>2, <2>3 DEF LInv, LoopTypeOK, TypeOK
<1>7. IInv(FALSE)'
  <2>1. heard' = heard BY <1>1
  <2> QED BY <1>4, <1>6, <2>1 DEF IInv
<1>8. LoopTypeOK'
  <2>1. 1 \in 0 .. Behind BY LoopAssumption
  <2>2. index' \in [Vehicles -> Opt(Trip)] BY <1>1, <1>3, PositionedType
  <2> QED BY <1>1, <1>6, <2>1, <2>2 DEF LInv, LoopTypeOK
<1>9. Copies' /\ Down' BY <1>1 DEF LInv, Copies, GoodCopy, Down
<1>10. Timely'
  <2>1. Since' = Since /\ \A v \in Vehicles : Due(v)' = Due(v) BY <1>1 DEF Since, Due
  <2>2. \A v \in Vehicles : now <= Due(v) => now <= Due(v) + owed' + Since BY <1>1, Numbers
  <2>3. ASSUME NEW v \in Vehicles, index'[v] # None PROVE now <= Due(v)
    <3>1. c[v] # None /\ c[v].trip # None BY <1>1, <1>3, <2>3, PositionedType
    <3> QED BY <1>2, <3>1
  <2>4. \A v \in Vehicles : trips'[v] # None => now <= Due(v) + owed' + Since BY <1>4, <2>2
  <2>5. \A v \in Vehicles : index'[v] # None => now <= Due(v) + owed' + Since BY <2>2, <2>3
  <2>6. ASSUME NEW j \in Journeys, curves'[j] # None
        PROVE  upkeepAt' <= curves'[j].at + KeepCurve + UpkeepEvery
    <3>1. curves'[j].at \in Nat BY <1>5, <2>6, ConstantsAssumption DEF Opt, Curve, Time
    <3>2. now <= curves'[j].at + KeepCurve BY <1>5, <2>6
    <3> QED BY <1>1, <3>1, <3>2, Numbers
  <2>7. upkeepAt' \in Nat /\ now <= upkeepAt' /\ upkeepAt' <= now + UpkeepEvery BY <1>1, Numbers
  <2>8. loop' = "idle" /\ now' = now /\ heard' = heard BY <1>1 DEF LInv, Down
  <2> QED BY <2>1, <2>4, <2>5, <2>6, <2>7, <2>8 DEF LInv, Timely
<1> QED BY <1>7, <1>8, <1>9, <1>10 DEF LInv

LEMMA LNextInv ==
  ASSUME LInv, [LNext]_allVars
  PROVE  LInv'
<1>1. CASE UNCHANGED allVars
  <2>1. UNCHANGED vars /\ UNCHANGED <<up, loop, owed, ticks, todo, part, index, tripFile, curveFile, upkeepAt, crashes>>
    BY <1>1 DEF allVars, loopVars, upkeepVars
  <2>2. LoopTypeOK' BY <2>1, Unmoved DEF LInv, LoopTypeOK
  <2>3. Copies' /\ Down' BY <2>1, Unmoved DEF LInv, Copies, Down
  <2>4. Timely'
    <3>1. Since' = Since BY <2>1 DEF Since
    <3> QED BY <2>1, <3>1, Unmoved DEF LInv, Timely
  <2> QED BY <2>1, <2>2, <2>3, <2>4, Unmoved DEF LInv
<1>2. CASE LNext
  BY <1>2, Ingested, Passed, Ticked, Visited, Published, SavedTrips, KeptUp, Crashed, Restarted DEF LNext
<1> QED BY <1>1, <1>2

LEMMA LInitInv == LInit => LInv
<1> SUFFICES ASSUME LInit PROVE LInv OBVIOUS
<1>1. IInv(FALSE) BY InitIInv DEF LInit
<1>2. TypeOK BY <1>1 DEF IInv
<1>3. /\ \A v \in Vehicles : trips[v] = None /\ index[v] = None /\ part[v] = None /\ heard[v] = 0
      /\ \A j \in Journeys : curves[j] = None
      /\ now = 0 /\ upkeepAt = 0 /\ up /\ tripFile = None
  BY DEF LInit, Init, Empty
<1>4. LoopTypeOK
  <2>1. ticks \in 0 .. SweepEvery * SnapEvery - 1
    <3> DEFINE n == SweepEvery * SnapEvery
    <3>1. n \in Nat \ {0} BY Product, LoopAssumption
    <3> HIDE DEF n
    <3>2. 0 \in 0 .. n - 1 BY <3>1
    <3> QED BY <3>2 DEF n, LInit
  <2>2. owed \in 0 .. Behind BY LoopAssumption DEF LInit
  <2>3. part \in [Vehicles -> Opt(Saved)] /\ index \in [Vehicles -> Opt(Trip)] BY DEF LInit, Empty, Opt
  <2> QED BY <1>2, <2>1, <2>2, <2>3 DEF LInit, LoopTypeOK
<1>5. Copies /\ Down BY <1>3 DEF Copies, Down
<1>6. Timely BY <1>3, LoopAssumption DEF Timely
<1> QED BY <1>1, <1>4, <1>5, <1>6 DEF LInv

-----------------------------------------------------------------------------
(* Theorems.                                                               *)

\* Every value is of its type, the restored ones too.
THEOREM LoopTyped == LSpec => []LoopTypeOK
<1>1. LInv => LoopTypeOK BY DEF LInv
<1> QED BY <1>1, LInitInv, LNextInv, PTL DEF LSpec

\* A silent vehicle is gone from the map and the index in time, through sweeps,
\* late ticks, walks that overlap with messages, crashes and restarts.
THEOREM Silence == LSpec => []SilentGoes
<1>1. LInv => SilentGoes
  <2> SUFFICES ASSUME LInv, NEW v \in Vehicles
               PROVE  LET w == heard[v] + Skew + StaleAfter + SweepEvery + Behind
                      IN  (trips[v] # None => now < w) /\ (index[v] # None => now <= w)
    BY DEF SilentGoes
  <2>1. owed <= Behind BY DEF LInv, LoopTypeOK
  <2>2. now <= Due(v) + owed + Since => now < Due(v) + SweepEvery + Behind BY <2>1, Numbers
  <2>3. now <= Due(v) + owed + SweepEvery => now <= Due(v) + SweepEvery + Behind BY <2>1, Numbers
  <2>4. trips[v] # None => now < Due(v) + SweepEvery + Behind BY <2>2 DEF LInv, Timely
  <2>5. now < Due(v) + SweepEvery + Behind => now <= Due(v) + SweepEvery + Behind BY Numbers
  <2>6. index[v] # None => now <= Due(v) + SweepEvery + Behind BY <2>2, <2>3, <2>5 DEF LInv, Timely
  <2> QED BY <2>4, <2>6 DEF Due
<1> QED BY <1>1, LInitInv, LNextInv, PTL DEF LSpec

\* A curve nobody revises is gone in time, and so is a restored one.
THEOREM CurvesGo == LSpec => []OldCurveGoes
<1>1. LInv => OldCurveGoes
  <2> SUFFICES ASSUME LInv, NEW j \in Journeys, curves[j] # None
               PROVE  now <= curves[j].at + KeepCurve + UpkeepEvery
    BY DEF OldCurveGoes
  <2>1. up BY DEF LInv, Down
  <2>2. now <= upkeepAt /\ upkeepAt <= curves[j].at + KeepCurve + UpkeepEvery /\ upkeepAt \in Nat
    BY <2>1 DEF LInv, Timely
  <2>3. curves[j].at \in Nat
    BY ConstantsAssumption DEF LInv, LoopTypeOK, TypeOK, Opt, Curve, Time
  <2> QED BY <2>2, <2>3, Numbers
<1> QED BY <1>1, LInitInv, LNextInv, PTL DEF LSpec
=============================================================================
