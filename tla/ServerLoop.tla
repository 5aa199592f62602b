----------------------------- MODULE ServerLoop -----------------------------
(***************************************************************************)
(* The server around LiveState (crates/server/src/main.rs): the tick loop  *)
(* that sweeps, publishes the index and snapshots the trips; the upkeep of *)
(* the delay curves; and the restart that restores both.                   *)
(*                                                                         *)
(* The applier runs all the while: an index or a snapshot is collected one *)
(* vehicle after the other while messages change the rest.  One unit of    *)
(* time is one tick period.                                                *)
(***************************************************************************)
EXTENDS LiveState

CONSTANTS
  SweepEvery,   \* ticks between sweeps
  SnapEvery,    \* ticks between snapshots
  UpkeepEvery,  \* time between two upkeeps of the curves
  Behind,       \* how many ticks the loop may be late (a slow save stalls it)
  Bad,          \* a snapshot file that cannot be read
  MaxCrash      \* bound on the crashes

ASSUME LoopAssumption ==
  /\ SweepEvery \in Nat \ {0} /\ SnapEvery \in Nat \ {0}
  /\ UpkeepEvery \in Nat \ {0} /\ Behind \in Nat \ {0}
  /\ Bad # None /\ Bad \notin [Vehicles -> Opt([trip: Trip, fixed: BOOLEAN])]
  /\ Bad \notin [Journeys -> Opt(Curve)]
  /\ MaxCrash \in Nat

VARIABLES
  up,         \* the process runs
  loop,       \* the tick loop: "idle", "index", "collect" or "save"
  owed,       \* ticks due and not begun
  ticks,      \* ticks begun, modulo SweepEvery * SnapEvery
  todo,       \* the vehicles an index or snapshot in the making has not visited
  part,       \* what it has collected
  index,      \* the published index: index[v], the entry of v or None
  tripFile,   \* the snapshot of the trips
  curveFile,  \* the snapshot of the curves
  upkeepAt,   \* when the curves are next looked after
  crashes     \* crashes so far

loopVars == <<loop, owed, ticks, todo, part, index, tripFile>>
upkeepVars == <<curveFile, upkeepAt>>
liveVars == <<trips, curves, fixed, heard>>
allVars == <<vars, up, loopVars, upkeepVars, crashes>>

Saved == [trip: Trip, fixed: BOOLEAN]
Copy(v) == IF trips[v] = None THEN None ELSE [trip |-> trips[v], fixed |-> fixed[v]]
Empty == [v \in Vehicles |-> None]

LInit ==
  /\ Init
  /\ up = TRUE
  /\ loop = "idle" /\ owed = 0 /\ ticks = 0
  /\ todo = {} /\ part = Empty
  /\ index = Empty
  /\ tripFile = None /\ curveFile = None
  /\ upkeepAt = 0
  /\ crashes = 0

\* The applier and the RitInfo task: LiveState's handlers.
Ingest ==
  /\ up
  /\ \/ \E m \in Messages, ts \in Time :
          ApplyInit(m, ts) \/ ApplyEnd(m, ts) \/ ApplyUpdate(m, ts)
     \/ \E j \in Journeys, r \in Revisions : ApplyCurve(j, r)
  /\ UNCHANGED <<up, loopVars, upkeepVars, crashes>>

\* Time passes: each unit owes the loop a tick.  The loop falls at most Behind
\* ticks behind, and the upkeep interval is kept.
Pass ==
  /\ Advance
  /\ up => owed < Behind /\ now < upkeepAt
  /\ owed' = IF up THEN owed + 1 ELSE owed
  /\ UNCHANGED <<up, loop, ticks, todo, part, index, tripFile, upkeepVars, crashes>>

\* A tick begins: sweep if it is time, then walk the map for the index.
Tick ==
  /\ up /\ loop = "idle" /\ owed > 0
  /\ owed' = owed - 1
  /\ ticks' = (ticks + 1) % (SweepEvery * SnapEvery)
  /\ IF ticks' % SweepEvery = 0 THEN PruneStale ELSE UNCHANGED vars
  /\ loop' = "index" /\ todo' = Vehicles /\ part' = Empty
  /\ UNCHANGED <<up, index, tripFile, upkeepVars, crashes>>

\* The walk reaches v; the map is not locked as a whole.
Visit(v) ==
  /\ loop \in {"index", "collect"} /\ v \in todo
  /\ todo' = todo \ {v}
  /\ part' = [part EXCEPT ![v] = Copy(v)]
  /\ UNCHANGED <<vars, up, loop, owed, ticks, index, tripFile, upkeepVars, crashes>>

\* Only positioned trips are on the index.
Positioned(c) == [v \in Vehicles |-> IF c[v] = None THEN None
                                     ELSE IF c[v].trip.pos = None THEN None ELSE c[v].trip]

\* The index is published; every SnapEvery ticks the trips are then copied.
PublishIndex ==
  /\ loop = "index" /\ todo = {}
  /\ index' = Positioned(part)
  /\ IF ticks % SnapEvery = 0
     THEN loop' = "collect" /\ todo' = Vehicles
     ELSE loop' = "idle" /\ todo' = {}
  /\ part' = Empty
  /\ UNCHANGED <<vars, up, owed, ticks, tripFile, upkeepVars, crashes>>

\* The copy goes to a temporary file, which replaces the snapshot as a whole.
\* The loop waits; a failure goes unnoticed.
Save ==
  /\ loop = "collect" /\ todo = {}
  /\ tripFile' \in {part, tripFile}
  /\ loop' = "idle" /\ part' = Empty
  /\ UNCHANGED <<vars, up, owed, ticks, todo, index, upkeepVars, crashes>>

\* Every UpkeepEvery: drop curves nobody revised, and save the rest.
Upkeep ==
  /\ up /\ now = upkeepAt
  /\ PruneCurves
  /\ curveFile' \in {curves', curveFile}
  /\ upkeepAt' = upkeepAt + UpkeepEvery
  /\ UNCHANGED <<up, loopVars, crashes>>

\* The process dies.  Renamed files stay, their content may not.
Crash ==
  /\ up /\ crashes < MaxCrash
  /\ up' = FALSE
  /\ crashes' = crashes + 1
  /\ trips' = Empty /\ curves' = [j \in Journeys |-> None]
  /\ fixed' = [v \in Vehicles |-> FALSE]
  /\ loop' = "idle" /\ owed' = 0 /\ ticks' = 0 /\ todo' = {} /\ part' = Empty
  /\ index' = Empty
  /\ tripFile' \in {tripFile, Bad} /\ curveFile' \in {curveFile, Bad}
  /\ upkeepAt' = 0
  /\ UNCHANGED <<now, heard>>

RestoredUnpruned(v) == IF tripFile \in {None, Bad} THEN None ELSE tripFile[v]
CurveUnpruned(j) == IF curveFile \in {None, Bad} THEN None ELSE curveFile[j]

\* What of the files is restored: nothing unreadable, nothing stale.
RestoredTrip(v) ==
  IF tripFile \in {None, Bad} THEN None
  ELSE IF tripFile[v] = None THEN None
  ELSE IF Stale(tripFile[v].trip) THEN None ELSE tripFile[v]

RestoredCurve(j) ==
  IF curveFile \in {None, Bad} THEN None
  ELSE IF curveFile[j] = None THEN None
  ELSE IF curveFile[j].at + KeepCurve >= now THEN curveFile[j] ELSE None

\* main: restore and prune both stores, publish a first index, start the
\* loops, whose first tick and first upkeep come at once.
Restart ==
  /\ ~up
  /\ up' = TRUE
  /\ LET c == [v \in Vehicles |-> RestoredTrip(v)] IN
       /\ trips' = [v \in Vehicles |-> IF c[v] = None THEN None ELSE c[v].trip]
       /\ fixed' = [v \in Vehicles |-> IF c[v] = None THEN FALSE ELSE c[v].fixed]
       /\ index' = Positioned(c)
  /\ curves' = [j \in Journeys |-> RestoredCurve(j)]
  /\ owed' = 1 /\ upkeepAt' = now
  /\ UNCHANGED <<now, heard, loop, ticks, todo, part, tripFile, curveFile, crashes>>

LNext ==
  \/ Ingest \/ Pass \/ Tick \/ \E v \in Vehicles : Visit(v)
  \/ PublishIndex \/ Save \/ Upkeep \/ Crash \/ Restart

LSpec == LInit /\ [][LNext]_allVars
-----------------------------------------------------------------------------
(* Properties.                                                             *)

LoopTypeOK ==
  /\ TypeOK
  /\ up \in BOOLEAN
  /\ loop \in {"idle", "index", "collect"}
  /\ owed \in 0 .. Behind
  /\ ticks \in 0 .. SweepEvery * SnapEvery - 1
  /\ todo \subseteq Vehicles
  /\ part \in [Vehicles -> Opt(Saved)]
  /\ index \in [Vehicles -> Opt(Trip)]
  /\ tripFile \in [Vehicles -> Opt(Saved)] \cup {None, Bad}
  /\ curveFile \in [Journeys -> Opt(Curve)] \cup {None, Bad}

\* A vehicle that falls silent is off the map within the staleness window, one
\* sweep interval and the loop's lag, whatever clock its sender has, and also
\* when a restart brings back a snapshot of it (the prune in main); clients are
\* served it for at most a tick more, while the index without it is being built.
SilentGoes ==
  LET window(v) == heard[v] + Skew + StaleAfter + SweepEvery + Behind
  IN \A v \in Vehicles : /\ trips[v] # None => now < window(v)
                         /\ index[v] # None => now <= window(v)

\* A punctuality curve is used for KeepCurve after its last revision, give or
\* take one upkeep, also when it is restored.
OldCurveGoes ==
  \A j \in Journeys : curves[j] # None => now <= curves[j].at + KeepCurve + UpkeepEvery
=============================================================================
