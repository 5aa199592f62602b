---------------------------- MODULE MCLiveState ----------------------------
(* An instance of LiveState for TLC: a bus, a train and its curves.  "x1"   *)
(* and "x2" are two journeys of one line, "x3" has the first journey's      *)
(* number on the other line.                                                *)
EXTENDS LiveState

MCTripJourney == [x1 |-> "j1", x2 |-> "j2", x3 |-> "j1"]
MCTripLine == [x1 |-> "l1", x2 |-> "l1", x3 |-> "l2"]

\* KV6 carries the operating day on every record; one kind stands for each
\* way apply treats a message.
BusMessage(kinds, fixes, puncts) ==
  [v: {"bus"}, kind: kinds, line: Lines, journey: {None, "j1", "j2"}, day: {"d1"},
   fix: fixes, punct: puncts]

BusMessages ==
  BusMessage({"INIT", "ONROUTE"}, Opt(Places), {None})
    \cup BusMessage({"ARRIVAL"}, Opt(Places), {60})
    \cup BusMessage({"DEPARTURE"}, {None}, {None})
    \cup BusMessage({"DELAY"}, {None}, {60})

\* END takes whatever is there: one stands for all.
Ends ==
  [v: {"bus"}, kind: {"END"}, line: {"l1"}, journey: {"j1"}, day: {"d1"},
   fix: {None}, punct: {None}]

TrainMessages ==
  [v: {"train"}, kind: {"ONROUTE"}, line: {None}, journey: {"j1", "j2"},
   day: {None}, fix: Places, punct: {None}]

MCMessages == BusMessages \cup Ends \cup TrainMessages

\* A curve without a point, and one with two and a line code.
MCRevisions ==
  { [delays |-> {}, day |-> "d1", line |-> None],
    [delays |-> {0, 60}, day |-> "d1", line |-> "l1"] }

\* The handlers of the bus and of the train touch nothing of each other's, so
\* the states where both are on the map add none of interest.
OneAtATime ==
  trips["bus"] = None \/ (trips["train"] = None /\ \A j \in Journeys : curves[j] = None)
=============================================================================
