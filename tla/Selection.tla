------------------------------ MODULE Selection ------------------------------
(***************************************************************************)
(* The vehicles the user has selected: the tabs of useMapApp.ts (and       *)
(* home.tsx, which has the same handlers), the store that tells them what  *)
(* entered and left the stream (vehicleStore.ts, onUpdate of MapView.tsx), *)
(* and the pins that keep a selected vehicle in the stream (setPinned).    *)
(*                                                                         *)
(* Between a selection and the server's knowing of it lie messages in      *)
(* flight, frames computed for the old pins, and lost connections.  Only   *)
(* a vehicle's journey decides anything here; 0 is none.                   *)
(***************************************************************************)
EXTENDS Naturals, Sequences, SequencesExt

CONSTANTS
  Vehicles,   \* vehicle ids
  InView,     \* those that lie in the viewport
  None,       \* no active tab
  Runs,       \* Runs[v]: the journeys v may run
  MaxTabs,    \* MAX_SELECTED
  ToServer,   \* bound on client messages in flight
  ToClient    \* bound on frames in flight

Journeys == {0} \cup UNION { Runs[v] : v \in Vehicles }

ASSUME ConstantsAssumption ==
  /\ InView \subseteq Vehicles /\ None \notin Vehicles
  /\ Runs \in [Vehicles -> SUBSET (Nat \ {0})] /\ MaxTabs \in Nat \ {0}
  /\ ToServer \in Nat \ {0} /\ ToClient \in Nat \ {0}

VARIABLES
  fleet,  \* fleet[v]: the journey v runs in the published index
  subbed, \* the server has a Subscription
  pins,   \* Subscription.pinned
  sent,   \* the vehicles the server knows to be on the client
  force,  \* Subscription.force_snapshot
  up,     \* client messages in flight
  down,   \* frames in flight
  online, \* the socket is open
  store,  \* store[v]: the journey v entered the store with
  tabs,   \* selected
  active, \* activeId
  multi   \* the multiSelect setting

vars == <<fleet, subbed, pins, sent, force, up, down, online, store, tabs, active, multi>>

server == <<subbed, pins, sent, force>>
client == <<store, tabs, active, multi>>

Tab == [id: Vehicles, basic: Journeys, ended: BOOLEAN, offer: Journeys]
ClientMsg == [subscribe: BOOLEAN, pinned: SUBSET Vehicles]
Frame == [entered: [Vehicles -> Journeys], left: SUBSET Vehicles, snapshot: BOOLEAN]

Ids(ts) == { ts[i].id : i \in DOMAIN ts }
Fresh(id, j) == [id |-> id, basic |-> j, ended |-> FALSE, offer |-> 0]

-----------------------------------------------------------------------------
Init ==
  /\ fleet = [v \in Vehicles |-> 0]
  /\ subbed = FALSE /\ pins = {} /\ sent = {} /\ force = FALSE
  /\ up = <<>> /\ down = <<>> /\ online = FALSE
  /\ store = [v \in Vehicles |-> 0]
  /\ tabs = <<>> /\ active = None
  /\ multi \in BOOLEAN

-----------------------------------------------------------------------------
(* What the tabs make of the stream.                                       *)

BackIgnored(t, j) ==
  IF ~t.ended THEN [t EXCEPT !.basic = j]
  ELSE IF t.basic = j THEN [t EXCEPT !.ended = FALSE, !.offer = 0] ELSE t

\* A selected vehicle (re)appeared: the same journey resumes, another one is
\* offered.
onSelectedBack(t, j) ==
  IF ~t.ended THEN [t EXCEPT !.basic = j]
  ELSE IF t.basic = j THEN [t EXCEPT !.ended = FALSE, !.offer = 0]
  ELSE [t EXCEPT !.offer = j]

onSelectedGone(t) == [t EXCEPT !.ended = TRUE]

Stored(f) ==
  [v \in Vehicles |-> IF v \in f.left THEN 0
                      ELSE IF f.entered[v] # 0 THEN f.entered[v]
                      ELSE IF f.snapshot THEN 0 ELSE store[v]]

GoneIfLeft(f) == f.left

\* Who is reported gone: those that left, and those a snapshot does not have.
Gone(f) == f.left \cup IF f.snapshot THEN { v \in Vehicles : Stored(f)[v] = 0 } ELSE {}

Heard(t, f) ==
  LET back == IF f.entered[t.id] # 0 THEN onSelectedBack(t, f.entered[t.id]) ELSE t
  IN  IF t.id \in Gone(f) THEN onSelectedGone(back) ELSE back

\* VehicleStore.apply, and the events it raises.
Apply ==
  /\ down # <<>>
  /\ LET f == Head(down) IN
       /\ store' = Stored(f)
       /\ tabs' = [i \in DOMAIN tabs |-> Heard(tabs[i], f)]
  /\ down' = Tail(down)
  /\ UNCHANGED <<fleet, server, up, online, active, multi>>

FlushThawed ==
  /\ tabs' = [i \in DOMAIN tabs |->
                IF tabs[i].id = active /\ store[active] # 0
                THEN [tabs[i] EXCEPT !.basic = store[active]] ELSE tabs[i]]
  /\ UNCHANGED <<fleet, server, up, down, online, store, active, multi>>

\* flush, which follows every frame, those of mere movements too: the active
\* vehicle's data goes to its tab, which is frozen once ended.
Flush ==
  /\ tabs' = [i \in DOMAIN tabs |->
                IF tabs[i].id = active /\ ~tabs[i].ended /\ store[active] # 0
                THEN [tabs[i] EXCEPT !.basic = store[active]] ELSE tabs[i]]
  /\ UNCHANGED <<fleet, server, up, down, online, store, active, multi>>

-----------------------------------------------------------------------------
(* What the user does.  setPinned tells the server whenever the selected   *)
(* ids change, at once if the socket is open and else when it opens.       *)

Show(ts, id) ==
  /\ tabs' = ts /\ active' = id
  /\ IF online /\ Ids(ts) # Ids(tabs)
     THEN /\ Len(up) < ToServer
          /\ up' = Append(up, [subscribe |-> FALSE, pinned |-> Ids(ts)])
     ELSE UNCHANGED up
  /\ UNCHANGED <<fleet, server, down, online, store>>

\* slice(-MAX_SELECTED): the newest tabs stay.
Capped(ts) == IF Len(ts) <= MaxTabs THEN ts ELSE SubSeq(ts, Len(ts) - MaxTabs + 1, Len(ts))

\* selectVehicle: alone, or as one more tab, or the tab it has.
selectVehicle(id, j) ==
  /\ Show(IF ~multi THEN <<Fresh(id, j)>>
          ELSE IF id \in Ids(tabs) THEN tabs
          ELSE Capped(Append(tabs, Fresh(id, j))), id)
  /\ UNCHANGED multi

\* A marker on the map was picked.
Pick(id) == store[id] # 0 /\ selectVehicle(id, store[id])

\* A search hit, a departure or a deep link: nothing is known of it, and it may
\* be gone by now.
Open(id) == selectVehicle(id, 0)

selectTab(id) ==
  /\ id \in Ids(tabs) /\ id # active
  /\ Show(tabs, id)
  /\ UNCHANGED multi

resumeTrip(id) ==
  /\ \E i \in DOMAIN tabs :
       /\ tabs[i].id = id /\ tabs[i].ended /\ tabs[i].offer # 0
       /\ Show([tabs EXCEPT ![i] = Fresh(id, tabs[i].offer)], id)
  /\ UNCHANGED multi

CloseKeepsActive(id) ==
  /\ \E i \in DOMAIN tabs :
       /\ tabs[i].id = id
       /\ LET remaining == RemoveAt(tabs, i) IN Show(remaining, IF remaining = <<>> THEN None ELSE active)
  /\ UNCHANGED multi

\* The neighbour becomes active if the active tab was closed.
closeTab(id) ==
  /\ \E i \in DOMAIN tabs :
       /\ tabs[i].id = id
       /\ LET remaining == RemoveAt(tabs, i)
              next == IF i <= Len(remaining) THEN i ELSE Len(remaining)
          IN  Show(remaining, IF id # active THEN active
                              ELSE IF remaining = <<>> THEN None ELSE remaining[next].id)
  /\ UNCHANGED multi

closeAll ==
  /\ tabs # <<>>
  /\ Show(<<>>, None)
  /\ UNCHANGED multi

\* The tab of a vehicle alone.
Only(ts, id) ==
  IF id \in Ids(ts) THEN <<ts[CHOOSE i \in DOMAIN ts : ts[i].id = id]>> ELSE <<>>

\* Leaving multi-select collapses the selection to the active vehicle.
changeMultiSelect ==
  /\ multi' = ~multi
  /\ Show(IF multi THEN Only(tabs, active) ELSE tabs, active)

User ==
  \/ \E id \in Vehicles : Pick(id) \/ Open(id) \/ selectTab(id) \/ resumeTrip(id) \/ closeTab(id)
  \/ closeAll \/ changeMultiSelect

-----------------------------------------------------------------------------
(* The connection and the server.                                          *)

ConnectUnpinned ==
  /\ ~online
  /\ online' = TRUE
  /\ up' = <<[subscribe |-> TRUE, pinned |-> {}]>>
  /\ UNCHANGED <<fleet, server, down, client>>

\* onopen: the subscription as it is now.
Connect ==
  /\ ~online
  /\ online' = TRUE
  /\ up' = <<[subscribe |-> TRUE, pinned |-> Ids(tabs)]>>
  /\ UNCHANGED <<fleet, server, down, client>>

\* The connection is lost with all that is in flight, or suspended.
Disconnect ==
  /\ online
  /\ online' = FALSE
  /\ up' = <<>> /\ down' = <<>>
  /\ subbed' = FALSE /\ pins' = {} /\ sent' = {} /\ force' = FALSE
  /\ UNCHANGED <<fleet, client>>

\* apply_client_msg: Subscribe starts afresh, UpdateViewport changes the pins.
ClientMessage ==
  /\ up # <<>>
  /\ up' = Tail(up)
  /\ pins' = Head(up).pinned
  /\ IF Head(up).subscribe THEN subbed' = TRUE /\ sent' = {} /\ force' = TRUE
     ELSE UNCHANGED <<subbed, sent, force>>
  /\ UNCHANGED <<fleet, down, online, client>>

\* The vehicles in the viewport and the pinned ones, if they run.
Present == { v \in InView \cup pins : fleet[v] # 0 }

\* build_update: the difference to what the client has; nothing if there is none.
Tick ==
  /\ subbed /\ Len(down) < ToClient
  /\ force \/ Present # sent
  /\ down' = Append(down, [entered  |-> [v \in Vehicles |-> IF v \in Present \ sent THEN fleet[v] ELSE 0],
                           left     |-> sent \ Present,
                           snapshot |-> force])
  /\ sent' = Present /\ force' = FALSE
  /\ UNCHANGED <<fleet, subbed, pins, up, online, client>>

\* A vehicle starts, ends, or changes its journey.
Publish ==
  /\ \E v \in Vehicles : \E j \in Runs[v] \cup {0} : j # fleet[v] /\ fleet' = [fleet EXCEPT ![v] = j]
  /\ UNCHANGED <<server, up, down, online, client>>

Next ==
  \/ Apply \/ Flush \/ User
  \/ Connect \/ Disconnect \/ ClientMessage \/ Tick \/ Publish

\* The socket reopens, messages arrive, the server ticks and the client draws.
Fairness ==
  /\ WF_vars(Connect) /\ WF_vars(ClientMessage) /\ WF_vars(Tick)
  /\ WF_vars(Apply) /\ WF_vars(Flush)

Spec == Init /\ [][Next]_vars /\ Fairness
-----------------------------------------------------------------------------
(* Properties.                                                             *)

TypeOK ==
  /\ fleet \in [Vehicles -> Journeys] /\ store \in [Vehicles -> Journeys]
  /\ subbed \in BOOLEAN /\ pins \in SUBSET Vehicles /\ sent \in SUBSET Vehicles
  /\ force \in BOOLEAN /\ online \in BOOLEAN /\ multi \in BOOLEAN
  /\ up \in Seq(ClientMsg) /\ Len(up) <= ToServer
  /\ down \in Seq(Frame) /\ Len(down) <= ToClient
  /\ tabs \in Seq(Tab) /\ active \in Vehicles \cup {None}

\* Each selected vehicle has one tab, there are no more than the cap, one when
\* multi-select is off, and the active one is among them; none is active just
\* when there is none.
TabsCoherent ==
  /\ \A i, k \in DOMAIN tabs : tabs[i].id = tabs[k].id => i = k
  /\ Len(tabs) <= IF multi THEN MaxTabs ELSE 1
  /\ IF tabs = <<>> THEN active = None ELSE active \in Ids(tabs)

\* A selected vehicle that is on the map is never shown as merely ended: its tab
\* follows it or offers the journey it runs (onSelectedBack).
LiveIsOffered ==
  \A i \in DOMAIN tabs :
    LET t == tabs[i] IN store[t.id] # 0 /\ t.ended => t.offer = store[t.id]

\* Whichever frame takes a selected vehicle off the map, a LEAVE or a snapshot
\* that lacks it, ends its tab.
Lost(v) ==
  store[v] # 0 /\ store'[v] = 0 =>
    \A i \in DOMAIN tabs' : tabs'[i].id = v => tabs'[i].ended
GoneIsNoticed == [][\A v \in Vehicles : Lost(v)]_vars

\* An ended tab keeps the journey that ended, until the user resumes another or
\* the same one comes back.
Frozen ==
  \A i \in DOMAIN tabs, k \in DOMAIN tabs' :
    tabs[i].id = tabs'[k].id /\ tabs[i].ended /\ tabs'[k].ended
      => tabs'[k].basic = tabs[i].basic
EndedIsFrozen == [][Frozen]_vars

\* Nothing is under way, and a tick has nothing to say.
AtRest == online /\ up = <<>> /\ down = <<>> /\ (subbed => ~force /\ Present = sent)

\* At rest the map has just the vehicles that run and are in view or selected,
\* and a tab that is ended though its vehicle runs offers to resume it.
RestIsShown ==
  AtRest =>
    /\ \A v \in Vehicles : store[v] # 0 <=> fleet[v] # 0 /\ v \in InView \cup Ids(tabs)
    /\ \A i \in DOMAIN tabs : fleet[tabs[i].id] # 0 /\ tabs[i].ended => tabs[i].offer # 0

\* A vehicle that runs on and stays selected comes to the map, in view or not,
\* whatever was in flight when it was selected and however often the connection
\* was lost before.
Streams(v) ==
  <>[](v \in Ids(tabs) /\ fleet[v] # 0 /\ online) => <>[](store[v] # 0)
SelectedStreams == \A v \in Vehicles : Streams(v)

=============================================================================
