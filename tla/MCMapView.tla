----------------------------- MODULE MCMapView -----------------------------
(* Two vehicles on a line of places, where stops are too many at one end.  *)
EXTENDS MapView

Call(s, p, t) == [id |-> s, lat |-> 0, lon |-> p, arrival |-> t, departure |-> t]

MCCalls == <<Call("s0", 0, 36000), Call("s1", 1, 36600)>>
MCStops == {-2, -1, 2}
MCBrands == [x |-> "x"]
MCThemes == <<"colorful", "eclipse">>

\* Nothing kept; and what an older release left: a type and an owner no chip
\* shows, a theme and a flag of another meaning.
Empty == [theme |-> Nothing, lang |-> Nothing, stops |-> Nothing, numbers |-> Nothing,
          multi |-> Nothing, filters |-> Nothing, view |-> Nothing]
Left == [theme |-> "retired", lang |-> "de", stops |-> "yes", numbers |-> "0", multi |-> "1",
         filters |-> [types |-> <<9, 1, 1>>, owners |-> <<"", "GVB">>],
         view |-> [at |-> 0, near |-> TRUE]]
MCDisks == {Empty, Left}

\* The chips of the types are alike: two stand for all.  A store that refuses
\* writes is read at the start and changes nothing else: what was left will do.
Chosen == ToSet(ui.filters.types) \cap KnownTypes \subseteq {1, 2} /\ (full => disk = Left)
=============================================================================
