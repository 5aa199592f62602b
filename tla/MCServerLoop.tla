---------------------------- MODULE MCServerLoop ----------------------------
(* An instance of ServerLoop for TLC.  A vehicle that starts, shows a fix or *)
(* ends, and a curve that is revised, are all the loops can tell apart.      *)
EXTENDS ServerLoop

NoTrips == [x \in {} |-> None]

LoopMessages ==
  { [v |-> v, kind |-> k, line |-> None, journey |-> None, day |-> None,
     fix |-> IF k = "END" THEN None ELSE "p1", punct |-> None] :
    v \in Vehicles, k \in {"ONROUTE", "END"} }

CurveRevisions == { [delays |-> {}, day |-> None, line |-> None] }
=============================================================================
