-------------------------- MODULE LiveClientProofs --------------------------
(***************************************************************************)
(* The safety properties of LiveClient, for any number of sockets and of   *)
(* faults, with or without a watchdog.                                     *)
(*                                                                         *)
(* They need each other: a new socket is opened only when none is in use,  *)
(* because a scheduled reconnect and a client without a socket both mean   *)
(* that there is none (OneConnection); and the watchdog does not outlive   *)
(* the socket it pinged, because it is off in both cases (Idle).           *)
(***************************************************************************)
EXTENDS LiveClient, TLAPS

\* Without a current socket, or between two of them, no timer of the watchdog
\* is armed, and without one no reconnect is scheduled.
Idle ==
  /\ ws = None => heartbeat = "off" /\ ~retryTimer
  /\ retryTimer => heartbeat = "off"
  /\ wish = None => ws = None

IInv ==
  /\ TypeOK /\ Idle /\ OneConnection /\ QuietWhileSuspended
  /\ NeverStranded /\ ServerKnowsWish /\ WatchesCurrent

\* A grace timer watches a socket.
LEMMA GraceWatches == ASSUME IInv, heartbeat = "grace" PROVE watched = ws /\ ws \in Sockets
  BY DEF IInv, TypeOK, Idle, WatchesCurrent

\* open() keeps the invariant when no socket is in use and no timer armed:
\* connect, the reconnect timer and resume all call it so.
LEMMA OpensOne ==
  ASSUME IInv, NewSocket, \A s \in Sockets : ~InUse(s),
         retryTimer' = FALSE, heartbeat = "off", UNCHANGED <<heartbeat, watched, net>>,
         suspended' \in BOOLEAN, suspended' => suspended, suspended = FALSE \/ ~suspended',
         retry' \in 0 .. Longest, wish' \in Wishes
  PROVE IInv'
<1> USE ConstantsAssumption DEF IInv, TypeOK
<1>1. PICK s \in Sockets : /\ ready[s] = "closed"
                           /\ ready' = [ready EXCEPT ![s] = "connecting"]
                           /\ told' = [told EXCEPT ![s] = None]
                           /\ ws' = s
  BY DEF NewSocket
<1>2. TypeOK'
  <2>1. ready' \in [Sockets -> {"connecting", "open", "closing", "closed"}] BY <1>1
  <2>2. told' \in [Sockets -> Wishes \cup {None}] BY <1>1
  <2> QED BY <1>1, <2>1, <2>2 DEF net
<1>3. ws' # None /\ ready'[ws'] = "connecting" BY <1>1
<1>4. \A t \in Sockets : InUse(t)' => t = s BY <1>1 DEF InUse
<1>5. ~suspended' BY DEF QuietWhileSuspended
<1> QED
  BY <1>1, <1>2, <1>3, <1>4, <1>5
  DEF Idle, OneConnection, QuietWhileSuspended, NeverStranded, ServerKnowsWish, WatchesCurrent, net

\* onclose keeps it, whoever's it is.
LEMMA ClosedKeeps ==
  ASSUME IInv, NEW s \in Sockets, Closed(s), faults' \in 0 .. MaxFaults
  PROVE IInv'
<1> USE ConstantsAssumption DEF IInv, TypeOK
<1>1. TypeOK'
  <2>1. ready' \in [Sockets -> {"connecting", "open", "closing", "closed"}] BY DEF Closed
  <2>2. alive' \in [Sockets -> BOOLEAN] BY DEF Closed
  <2>3. Least(retry + 1, Longest) \in 0 .. Longest BY DEF Least
  <2>4. retry' \in 0 .. Longest BY <2>3 DEF Closed
  <2>5. retryTimer' \in BOOLEAN BY DEF Closed
  <2> QED BY <2>1, <2>2, <2>4, <2>5 DEF Closed, ClearHeartbeat
<1>2. \A t \in Sockets : InUse(t)' => InUse(t) /\ t # s BY DEF Closed, InUse
<1>3. Idle' BY DEF Closed, ClearHeartbeat, Idle
<1>4. OneConnection'
  BY <1>2 DEF Closed, OneConnection
<1>5. QuietWhileSuspended' BY <1>2 DEF Closed, ClearHeartbeat, QuietWhileSuspended
<1>6. NeverStranded' BY DEF Closed, NeverStranded
<1>7. ServerKnowsWish' BY DEF Closed, ServerKnowsWish
<1>8. WatchesCurrent' BY DEF Closed, ClearHeartbeat, WatchesCurrent
<1> QED BY <1>1, <1>3, <1>4, <1>5, <1>6, <1>7, <1>8

LEMMA InitInv == Init => IInv
<1> SUFFICES ASSUME Init PROVE IInv OBVIOUS
<1> USE ConstantsAssumption DEF Init
<1>1. TypeOK
  <2>1. /\ ready \in [Sockets -> {"connecting", "open", "closing", "closed"}]
        /\ alive \in [Sockets -> BOOLEAN]
        /\ told \in [Sockets -> Wishes \cup {None}]
    OBVIOUS
  <2>2. retry \in 0 .. Longest /\ faults \in 0 .. MaxFaults OBVIOUS
  <2> QED BY <2>1, <2>2 DEF TypeOK
<1>2. Idle /\ OneConnection /\ QuietWhileSuspended BY DEF Idle, OneConnection, QuietWhileSuspended, InUse
<1>3. NeverStranded /\ ServerKnowsWish /\ WatchesCurrent
  BY DEF NeverStranded, ServerKnowsWish, WatchesCurrent
<1> QED BY <1>1, <1>2, <1>3 DEF IInv

\* Every step of the client, its sockets and its network keeps the invariant.
LEMMA NextInv == IInv /\ [Next]_vars => IInv'
<1> SUFFICES ASSUME IInv, [Next]_vars PROVE IInv' OBVIOUS
<1> USE ConstantsAssumption
<1>1. ASSUME Connect PROVE IInv'
  <2>1. ws = None BY <1>1 DEF Connect, IInv, Idle
  <2>2. \A s \in Sockets : ~InUse(s) BY <2>1 DEF IInv, OneConnection
  <2> QED BY <1>1, <2>1, <2>2, OpensOne DEF Connect, IInv, Idle, TypeOK
<1>2. ASSUME Ask PROVE IInv'
  <2>1. told' \in [Sockets -> Wishes \cup {None}] BY <1>2 DEF Ask, IInv, TypeOK
  <2>2. ServerKnowsWish' BY <1>2 DEF Ask, IInv, TypeOK, ServerKnowsWish
  <2> QED BY <1>2, <2>1, <2>2 DEF Ask, IInv, TypeOK, Idle, OneConnection, QuietWhileSuspended,
            NeverStranded, WatchesCurrent, InUse, net
<1>3. ASSUME Retry PROVE IInv'
  <2>1. \A s \in Sockets : ~InUse(s) BY <1>3 DEF Retry, IInv, OneConnection
  <2>2. wish \in Wishes /\ heartbeat = "off" /\ ~suspended
    BY <1>3 DEF Retry, IInv, Idle, TypeOK, QuietWhileSuspended
  <2> QED BY <1>3, <2>1, <2>2, OpensOne DEF Retry, IInv, TypeOK
<1>4. ASSUME Ping PROVE IInv'
  BY <1>4 DEF Ping, ClearHeartbeat, IInv, TypeOK, Idle, OneConnection, QuietWhileSuspended,
     NeverStranded, ServerKnowsWish, WatchesCurrent, InUse, net
<1>5. ASSUME GiveUp PROVE IInv'
  <2>1. watched \in Sockets /\ watched = ws BY <1>5, GraceWatches DEF GiveUp
  <2>2. ready' \in [Sockets -> {"connecting", "open", "closing", "closed"}]
    BY <1>5, <2>1 DEF GiveUp, IInv, TypeOK
  <2>3. \A t \in Sockets : InUse(t)' => InUse(t) BY <1>5, <2>1 DEF GiveUp, IInv, TypeOK, InUse
  <2>4. ready'[ws] # "open" /\ (ready[ws] # "closed" => ready'[ws] # "closed")
    BY <1>5, <2>1 DEF GiveUp, IInv, TypeOK
  <2> QED BY <1>5, <2>1, <2>2, <2>3, <2>4 DEF GiveUp, ClearHeartbeat, IInv, TypeOK, Idle,
            OneConnection, QuietWhileSuspended, NeverStranded, ServerKnowsWish, WatchesCurrent, net
<1>6. ASSUME Suspend PROVE IInv'
  <2>1. ready' \in [Sockets -> {"connecting", "open", "closing", "closed"}]
    BY <1>6 DEF Suspend, IInv, TypeOK
  <2>2. \A t \in Sockets : ~InUse(t)' BY <1>6 DEF Suspend, IInv, TypeOK, OneConnection, InUse
  <2> QED BY <1>6, <2>1, <2>2 DEF Suspend, ClearHeartbeat, IInv, TypeOK, Idle,
            OneConnection, QuietWhileSuspended, NeverStranded, ServerKnowsWish, WatchesCurrent, net
<1>7. ASSUME Resume PROVE IInv'
  <2>1. \A s \in Sockets : ~InUse(s) BY <1>7 DEF Resume, IInv, OneConnection
  <2>2. wish \in Wishes /\ heartbeat = "off" /\ ~retryTimer
    BY <1>7 DEF Resume, IInv, Idle, TypeOK
  <2>3. retryTimer' = FALSE BY <1>7, <2>2 DEF Resume, IInv, TypeOK
  <2>4. retry' \in 0 .. Longest BY <1>7 DEF Resume
  <2> QED BY <1>7, <2>1, <2>2, <2>3, <2>4, OpensOne DEF Resume, IInv, TypeOK
<1>8. ASSUME NEW s \in Sockets, Opened(s) PROVE IInv'
  <2>1. s = ws /\ ~retryTimer /\ ~suspended
    BY <1>8 DEF Opened, IInv, OneConnection, QuietWhileSuspended, InUse
  <2>2. ready' \in [Sockets -> {"connecting", "open", "closing", "closed"}]
    BY <1>8 DEF Opened, IInv, TypeOK
  <2>3. alive' \in [Sockets -> BOOLEAN] /\ told' \in [Sockets -> Wishes \cup {None}]
    BY <1>8 DEF Opened, IInv, TypeOK
  <2>4. \A t \in Sockets : InUse(t)' => InUse(t) BY <1>8 DEF Opened, IInv, TypeOK, InUse
  <2>5. told'[s] = wish /\ ready'[s] = "open" BY <1>8 DEF Opened, IInv, TypeOK
  <2> QED BY <1>8, <2>1, <2>2, <2>3, <2>4, <2>5 DEF Opened, ArmHeartbeat, IInv, TypeOK, Idle,
            OneConnection, QuietWhileSuspended, NeverStranded, ServerKnowsWish, WatchesCurrent
<1>9. ASSUME NEW s \in Sockets, Message(s) PROVE IInv'
  <2>1. s = ws /\ ~retryTimer /\ ~suspended
    BY <1>9 DEF Message, IInv, OneConnection, QuietWhileSuspended, InUse
  <2> QED BY <1>9, <2>1 DEF Message, ArmHeartbeat, IInv, TypeOK, Idle, InUse, net,
            OneConnection, QuietWhileSuspended, NeverStranded, ServerKnowsWish, WatchesCurrent
<1>10. ASSUME NEW s \in Sockets, Lost(s) PROVE IInv'
  BY <1>10, ClosedKeeps DEF Lost, IInv, TypeOK
<1>11. ASSUME NEW s \in Sockets, Dies(s) PROVE IInv'
  BY <1>11 DEF Dies, IInv, TypeOK, Idle, InUse, OneConnection, QuietWhileSuspended,
     NeverStranded, ServerKnowsWish, WatchesCurrent
<1>12. ASSUME NEW s \in Sockets, CloseDone(s) PROVE IInv'
  BY <1>12, ClosedKeeps DEF CloseDone, IInv, TypeOK
<1>13. CASE UNCHANGED vars
  BY <1>13 DEF vars, IInv, TypeOK, Idle, OneConnection, QuietWhileSuspended, NeverStranded,
     ServerKnowsWish, WatchesCurrent, InUse
<1> QED
  BY <1>1, <1>2, <1>3, <1>4, <1>5, <1>6, <1>7, <1>8, <1>9, <1>10, <1>11, <1>12, <1>13 DEF Next

LEMMA Invariant == Spec => []IInv
<1>1. Init => IInv BY InitInv
<1>2. IInv /\ [Next]_vars => IInv' BY NextInv
<1> QED BY <1>1, <1>2, PTL DEF Spec

\* However late closes come and timers fire, there is one connection at most,
\* and none while a reconnect is scheduled (the stale-socket check of onclose).
THEOREM OneAtATime == Spec => []OneConnection
<1>1. IInv => OneConnection BY DEF IInv
<1> QED BY <1>1, Invariant, PTL

\* suspend() leaves no connection, no reconnect and no watchdog behind.
THEOREM Quiet == Spec => []QuietWhileSuspended
<1>1. IInv => QuietWhileSuspended BY DEF IInv
<1> QED BY <1>1, Invariant, PTL

\* The last wish was sent over the open connection, whenever it changed.
THEOREM WishKnown == Spec => []ServerKnowsWish
<1>1. IInv => ServerKnowsWish BY DEF IInv
<1> QED BY <1>1, Invariant, PTL

\* The watchdog closes only the connection that did not answer it.
THEOREM WatchdogCurrent == Spec => []WatchesCurrent
<1>1. IInv => WatchesCurrent BY DEF IInv
<1> QED BY <1>1, Invariant, PTL

\* A client that was not suspended has a socket whose end will be reported, or
\* a reconnect to come.
THEOREM WayForward == Spec => []NeverStranded
<1>1. IInv => NeverStranded BY DEF IInv
<1> QED BY <1>1, Invariant, PTL
=============================================================================
