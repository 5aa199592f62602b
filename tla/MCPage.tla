------------------------------- MODULE MCPage -------------------------------
(* Two journeys: one that passes midnight and one of the next morning that
   ends where it started.                                                   *)
EXTENDS Page

Call(s, p, a, d) == [id |-> s, lat |-> p, lon |-> 0, arrival |-> a, departure |-> d]

MCPlans == [j1 |-> <<Call("s1", 0, 85800, 85860), Call("s2", 5, 86700, 86760)>>,
            j2 |-> <<Call("s1", 0, 87600, 87600), Call("s2", 5, 90000, 90000),
                     Call("s1", 0, 91800, 91800)>>]
MCBrands == [IFF |-> "NS", NS |-> "NS"]
MCSpeeds == {Nothing, 0}
MCNows == {85830, 86750}
=============================================================================
