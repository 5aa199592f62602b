------------------------------ MODULE WsStream ------------------------------
(***************************************************************************)
(* One /v1/stream connection, end to end: the per-connection viewport      *)
(* differ of crates/api/src/ws.rs, the two FIFO directions of the socket,  *)
(* and the client's store of vehicles (apps/mobile/lib/vehicleStore.ts and *)
(* onUpdate of MapView.tsx).                                               *)
(*                                                                         *)
(* The index is republished by the tick loop with whatever the applier did *)
(* meanwhile; viewport changes travel to the server while frames computed  *)
(* for the old viewport travel back; the connection may be lost with both  *)
(* directions full and is then reopened, the client keeping its store      *)
(* until the snapshot comes.                                               *)
(***************************************************************************)
EXTENDS Naturals, Sequences

CONSTANTS
  Vehicles,   \* vehicle ids
  Places,     \* what a position, at-stop flag and rounded speed come to
  Delays,     \* delay_seconds
  Journeys,   \* the fields only an ENTER carries: journey, line, destination
  Indexes,    \* the indexes the tick loop may publish
  Wishes,     \* the (viewport, filters, pinned) a client may ask for
  None,       \* no such vehicle
  ToServer,   \* bound on client messages in flight
  ToClient    \* bound on frames in flight; a full socket blocks tx.send

\* One vehicle of the index.  place and delay are what "changed" compares.
Entry == [place: Places, delay: Delays, known: BOOLEAN, journey: Journeys]
Index == [Vehicles -> Entry \cup {None}]

Wish == [box: SUBSET Places, filter: SUBSET Vehicles, pinned: SUBSET Vehicles]

Sent == [place: Places, delay: Delays]
Move == [place: Places, delay: Delays, known: BOOLEAN]
Subscription == [box: SUBSET Places, filter: SUBSET Vehicles,
                 pinned: SUBSET Vehicles, force: BOOLEAN]

ASSUME ConstantsAssumption ==
  /\ None \notin Entry /\ None \notin Sent /\ None \notin Move
  /\ None \notin Wish /\ None \notin Subscription
  /\ Indexes \subseteq Index /\ Wishes \subseteq Wish
  \* LiveState!DelayHonest, of every trip the index is built from.
  /\ \A i \in Indexes, v \in Vehicles : i[v] # None => i[v].known \/ i[v].delay = 0
  /\ ToServer \in Nat /\ ToClient \in Nat

VARIABLES
  index,   \* the latest published index (AppState.latest_index)
  sub,     \* the server's Subscription apart from sent; None before Subscribe
  sent,    \* sent[v]: what the server last sent for v, or None
  c2s,     \* client messages in flight
  s2c,     \* update frames in flight
  online,  \* the socket is open
  wish,    \* what the client wants: LiveClient.view and .pinned
  store,   \* store[v]: the client's copy of v, or None
  views    \* history: views[i], what the server means s2c[i] to lead to

vars == <<index, sub, sent, c2s, s2c, online, wish, store, views>>

ClientMsg == [type: {"subscribe", "update_viewport"}, wish: Wish]
Frame == [entered: Index, moved: [Vehicles -> Move \cup {None}],
          left: SUBSET Vehicles, snapshot: BOOLEAN]

Nothing == [v \in Vehicles |-> None]

\* The compared part of an index, of a store: what sent remembers.  Whether
\* the delay is known is sent along, but is no part of it.
Compared(e) == IF e = None THEN None ELSE [place |-> e.place, delay |-> e.delay]
View(copy) == [v \in Vehicles |-> Compared(copy[v])]

-----------------------------------------------------------------------------
(* The server's tick.                                                      *)

HitsUnfiltered == { v \in Vehicles : index[v] # None /\ index[v].place \in sub.box }

\* The bounding box query with its filters, then the pinned vehicles.
Hits == { v \in Vehicles : /\ index[v] # None
                           /\ index[v].place \in sub.box
                           /\ v \in sub.filter }
Present == Hits \cup { v \in sub.pinned : index[v] # None }

Entering == { v \in Present : sent[v] = None }
Moving   == { v \in Present : sent[v] # None /\ sent[v] # Compared(index[v]) }
Leaving  == { v \in Vehicles : sent[v] # None /\ v \notin Present }

ToMoveUnflagged(e) == [place |-> e.place, delay |-> e.delay, known |-> FALSE]
ToMove(e) == [place |-> e.place, delay |-> e.delay, known |-> e.known]

Update ==
  [entered  |-> [v \in Vehicles |-> IF v \in Entering THEN index[v] ELSE None],
   moved    |-> [v \in Vehicles |-> IF v \in Moving THEN ToMove(index[v]) ELSE None],
   left     |-> Leaving,
   snapshot |-> sub.force]

SentKeepsLeft == [v \in Vehicles |-> IF v \in Present THEN Compared(index[v]) ELSE sent[v]]

\* What sent becomes: the present vehicles as they are, the left ones dropped.
NowSent == [v \in Vehicles |-> IF v \in Present THEN Compared(index[v]) ELSE None]

-----------------------------------------------------------------------------
(* The client's store.                                                     *)

Entered(copy, f) ==
  [v \in Vehicles |-> IF f.entered[v] # None THEN f.entered[v]
                      ELSE IF f.snapshot THEN None ELSE copy[v]]

\* A MOVE patches a vehicle the store has, and is ignored otherwise.
Moved(copy, f) ==
  [v \in Vehicles |->
     IF copy[v] # None /\ f.moved[v] # None
     THEN [copy[v] EXCEPT !.place = f.moved[v].place,
                          !.delay = f.moved[v].delay,
                          !.known = f.moved[v].known]
     ELSE copy[v]]

Without(copy, f) == [v \in Vehicles |-> IF v \in f.left THEN None ELSE copy[v]]

Applied(copy, f) == Without(Moved(Entered(copy, f), f), f)

-----------------------------------------------------------------------------
Init ==
  /\ index \in Indexes
  /\ sub = None
  /\ sent = Nothing
  /\ c2s = <<>> /\ s2c = <<>>
  /\ online = FALSE
  /\ wish \in Wishes
  /\ store = Nothing
  /\ views = <<>>

\* The tick loop republishes the index.
Publish ==
  /\ index' \in Indexes \ {index}
  /\ UNCHANGED <<sub, sent, c2s, s2c, online, wish, store, views>>

\* onopen: a new connection, announced with what the client now wants.
Open ==
  /\ ~online
  /\ online' = TRUE
  /\ c2s' = <<[type |-> "subscribe", wish |-> wish]>>
  /\ UNCHANGED <<index, sub, sent, s2c, wish, store, views>>

\* A pan, a filter change or a selection; sent at once if the socket is open.
Change ==
  /\ wish' \in Wishes \ {wish}
  /\ IF online
     THEN /\ Len(c2s) < ToServer
          /\ c2s' = Append(c2s, [type |-> "update_viewport", wish |-> wish'])
     ELSE UNCHANGED c2s
  /\ UNCHANGED <<index, sub, sent, s2c, online, store, views>>

\* A Subscribe forgets everything sent and forces a snapshot.
Subscribe ==
  /\ c2s # <<>> /\ Head(c2s).type = "subscribe"
  /\ LET w == Head(c2s).wish
     IN  sub' = [box |-> w.box, filter |-> w.filter, pinned |-> w.pinned, force |-> TRUE]
  /\ sent' = Nothing
  /\ c2s' = Tail(c2s)
  /\ UNCHANGED <<index, s2c, online, wish, store, views>>

\* An UpdateViewport changes the question and nothing else.
UpdateViewport ==
  /\ c2s # <<>> /\ Head(c2s).type = "update_viewport"
  /\ LET w == Head(c2s).wish
     IN  sub' = IF sub = None THEN None
                ELSE [sub EXCEPT !.box = w.box, !.filter = w.filter, !.pinned = w.pinned]
  /\ c2s' = Tail(c2s)
  /\ UNCHANGED <<index, sent, s2c, online, wish, store, views>>

\* A tick: diff the index against what was sent; with nothing to say, no frame.
Tick ==
  /\ sub # None
  /\ Len(s2c) < ToClient
  /\ sub.force \/ Entering # {} \/ Moving # {} \/ Leaving # {}
  /\ sent' = NowSent
  /\ sub' = [sub EXCEPT !.force = FALSE]
  /\ s2c' = Append(s2c, Update)
  /\ views' = Append(views, sent')
  /\ UNCHANGED <<index, c2s, online, wish, store>>

\* onUpdate.
Receive ==
  /\ s2c # <<>>
  /\ store' = Applied(store, Head(s2c))
  /\ s2c' = Tail(s2c)
  /\ views' = Tail(views)
  /\ UNCHANGED <<index, sub, sent, c2s, online, wish>>

\* The connection ends, by either side or the network, whatever is in flight.
Drop ==
  /\ online
  /\ online' = FALSE
  /\ sub' = None
  /\ sent' = Nothing
  /\ c2s' = <<>> /\ s2c' = <<>> /\ views' = <<>>
  /\ UNCHANGED <<index, wish, store>>

Next ==
  \/ Publish \/ Open \/ Change \/ Subscribe \/ UpdateViewport
  \/ Tick \/ Receive \/ Drop

\* The runtime polls the connection's select loop, the interval keeps ticking,
\* the browser delivers frames, and the reconnect timer fires.
Fairness ==
  /\ WF_vars(Subscribe) /\ WF_vars(UpdateViewport)
  /\ WF_vars(Tick) /\ WF_vars(Receive) /\ WF_vars(Open)

Spec == Init /\ [][Next]_vars /\ Fairness
-----------------------------------------------------------------------------
(* Properties.                                                             *)

TypeOK ==
  /\ index \in Indexes
  /\ sub \in Subscription \cup {None}
  /\ sent \in [Vehicles -> Sent \cup {None}]
  /\ c2s \in Seq(ClientMsg)
  /\ s2c \in Seq(Frame)
  /\ online \in BOOLEAN
  /\ wish \in Wishes
  /\ store \in Index
  /\ views \in Seq([Vehicles -> Sent \cup {None}])

\* The view the client had before the i-th frame in flight.
ViewBefore(i) == IF i = 1 THEN View(store) ELSE views[i - 1]

\* The view a frame makes of a view: entered and left vehicles are known
\* exactly, moved ones are patched.
Patched(view, f) ==
  [v \in Vehicles |->
     IF f.entered[v] # None THEN Compared(f.entered[v])
     ELSE IF v \in f.left \/ f.snapshot THEN None
     ELSE IF f.moved[v] # None /\ view[v] # None THEN Compared(f.moved[v])
     ELSE view[v]]

\* Diffs lose nothing: each frame in flight takes the view before it to the
\* view the server meant, so that the client, once it has caught up, holds
\* exactly what the server believes it sent (build_update's sent map), also
\* across viewport changes, reconnects and the snapshot after a Subscribe.
DiffsLeadToSent ==
  /\ Len(views) = Len(s2c)
  /\ \A i \in 1 .. Len(s2c) : Patched(ViewBefore(i), s2c[i]) = views[i]
  /\ (sub # None /\ ~sub.force) => sent = ViewBefore(Len(s2c) + 1)

\* A frame speaks of vehicles the client knows: MOVE and LEAVE never name one
\* it lacks (the stores would ignore a MOVE, and mark a selected vehicle gone
\* for a LEAVE), ENTER never one it has.
Fits(view, f) ==
  \A v \in Vehicles :
    /\ f.moved[v] # None \/ v \in f.left => ~f.snapshot /\ view[v] # None
    /\ f.entered[v] # None => (f.snapshot \/ view[v] = None) /\ v \notin f.left

FramesFit == \A i \in 1 .. Len(s2c) : Fits(ViewBefore(i), s2c[i])

\* What the client ought to see of its wish.
Wanted(i, w) ==
  { v \in Vehicles : i[v] # None /\ (v \in w.pinned \/ (i[v].place \in w.box /\ v \in w.filter)) }

Answer(i, w) == [v \in Vehicles |-> IF v \in Wanted(i, w) THEN Compared(i[v]) ELSE None]

\* The copy c shows e as the stream promises: in all that changed compares,
\* and with the word that its delay is measured when there is one to show.
\* (Whether a delay of 0 is measured is FlagTold's.)
Shows(c, e) ==
  /\ Compared(c) = Compared(e)
  /\ e # None /\ e.delay # 0 => c.known

Answered ==
  \A v \in Vehicles : Shows(store[v], IF v \in Wanted(index, wish) THEN index[v] ELSE None)

\* When the fleet, the wish and the connection come to rest the client ends up
\* with what it wants of the last index: no vehicle missing or left over, none
\* at an old place or with an old delay, none whose delay it takes for a guess.
Settles ==
  []<><<index' # index \/ wish' # wish \/ online' # online>>_vars
    \/ <>[]Answered

\* Nothing is under way, and a tick has nothing to say.
AtRest ==
  /\ online /\ c2s = <<>> /\ s2c = <<>>
  /\ sub # None => ~sub.force /\ Entering = {} /\ Moving = {} /\ Leaving = {}

\* The safe half of Settles: a stream that has come to rest, whatever it has
\* been through, has left the client with what it wants.
RestIsAnswered == AtRest => Answered

\* "Without this, unknown and on time are indistinguishable" (ovlive.proto, of
\* delay_known): a client at rest knows which of the two a delay of 0 is.  It
\* does not: changed never re-sends a vehicle for its flag alone.
FlagTold == AtRest => \A v \in Wanted(index, wish) : store[v].known = index[v].known

\* The diff stream implements the stream of whole views.
Asked == IF sub = None THEN None
         ELSE [box |-> sub.box, filter |-> sub.filter, pinned |-> sub.pinned]

Whole == INSTANCE ViewStream WITH
  Questions <- Wish, NoQuestion <- None, Views <- [Vehicles -> Sent \cup {None}],
  asked <- Asked, shown <- View(store), pending <- views, up <- online

ImplementsViewStream == Whole!Spec

=============================================================================
