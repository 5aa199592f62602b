----------------------------- MODULE MCWsStream -----------------------------
(* Instances of WsStream for TLC. *)
EXTENDS WsStream

\* "a" moves, is delayed and has its delay become known; "b" comes and goes.
E(p, d, k) == [place |-> p, delay |-> d, known |-> k, journey |-> "j1"]
MixedIndexes ==
  { i \in [Vehicles -> {None} \cup { E(p, d, k) : p \in Places, d \in Delays, k \in BOOLEAN }] :
      /\ i["a"] \in {None, E("p1", 0, FALSE), E("p1", 0, TRUE), E("p2", 0, TRUE), E("p1", 60, TRUE)}
      /\ i["b"] \in {None, E("p1", 0, TRUE)} }

\* A viewport of one place or both, with or without a filter and a pin.
MixedWishes ==
  { [box |-> {"p1"}, filter |-> Vehicles, pinned |-> {}],
    [box |-> {"p1"}, filter |-> {"b"}, pinned |-> {"a"}],
    [box |-> Places, filter |-> {"a"}, pinned |-> {}] }
=============================================================================
