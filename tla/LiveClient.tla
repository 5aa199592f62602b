----------------------------- MODULE LiveClient -----------------------------
(***************************************************************************)
(* The connection life cycle of the TypeScript client                      *)
(* (packages/api-types/src/ws.ts, class LiveClient): sockets that open,    *)
(* fail, go silently dead and close with a delay; the reconnect timer; the *)
(* heartbeat watchdog; suspend and resume of a backgrounded app.           *)
(*                                                                         *)
(* Timers fire at any time while they are armed, so every order of a       *)
(* timeout and the event it races with is explored.                        *)
(***************************************************************************)
EXTENDS Naturals

CONSTANTS
  Sockets,    \* WebSocket objects; one whose close was handled is used again
  Wishes,     \* what the caller asks for: viewport, filters and pinned ids
  None,       \* undefined
  Heartbeat,  \* handlers.heartbeatMs is set (the mobile app)
  Longest,    \* retry doublings up to RETRY_MAX_MS
  MaxFaults   \* bound on the faults of the network and the server

ASSUME ConstantsAssumption ==
  /\ None \notin Sockets /\ None \notin Wishes
  /\ Heartbeat \in BOOLEAN
  /\ Longest \in Nat /\ MaxFaults \in Nat

VARIABLES
  ready,      \* ready[s]: readyState of socket s
  alive,      \* alive[s]: the peer of s is there
  told,       \* told[s]: the last wish sent over s
  ws,         \* the current socket
  suspended,  \* closedByUser
  wish,       \* view and pinned; None before connect
  retryTimer, \* a reconnect is scheduled
  retry,      \* doublings of its delay
  heartbeat,  \* the watchdog's timer: "off", "idle" before the ping, "grace" after
  watched,    \* the socket a grace timer will close
  faults      \* faults so far

vars == <<ready, alive, told, ws, suspended, wish, retryTimer, retry,
          heartbeat, watched, faults>>

net == <<alive, faults>>

-----------------------------------------------------------------------------
(* Parts of the handlers.                                                  *)

Least(m, n) == IF m < n THEN m ELSE n

ArmHeartbeat ==
  /\ heartbeat' = IF Heartbeat THEN "idle" ELSE "off"
  /\ watched' = None

HeartbeatLeft == UNCHANGED <<heartbeat, watched>>

ClearHeartbeat ==
  /\ heartbeat' = "off"
  /\ watched' = None

\* open(): a new socket becomes the current one.
NewSocket ==
  \E s \in Sockets :
    /\ ready[s] = "closed"
    /\ ready' = [ready EXCEPT ![s] = "connecting"]
    /\ told' = [told EXCEPT ![s] = None]
    /\ ws' = s

ClosedAnySocket(s) ==
  /\ ready' = [ready EXCEPT ![s] = "closed"]
  /\ alive' = [alive EXCEPT ![s] = FALSE]
  /\ ClearHeartbeat
  /\ IF ~suspended
     THEN retryTimer' = TRUE /\ retry' = Least(retry + 1, Longest)
     ELSE UNCHANGED <<retryTimer, retry>>
  /\ UNCHANGED <<told, ws, suspended, wish>>
\* onclose of s: the watchdog is cleared, whoever it watches; only the
\* current socket schedules a reconnect.
Closed(s) ==
  /\ ready' = [ready EXCEPT ![s] = "closed"]
  /\ alive' = [alive EXCEPT ![s] = FALSE]
  /\ ClearHeartbeat
  /\ IF ws = s /\ ~suspended
     THEN retryTimer' = TRUE /\ retry' = Least(retry + 1, Longest)
     ELSE UNCHANGED <<retryTimer, retry>>
  /\ UNCHANGED <<told, ws, suspended, wish>>

-----------------------------------------------------------------------------
Init ==
  /\ ready = [s \in Sockets |-> "closed"]
  /\ alive = [s \in Sockets |-> FALSE]
  /\ told = [s \in Sockets |-> None]
  /\ ws = None
  /\ suspended = FALSE
  /\ wish = None
  /\ retryTimer = FALSE
  /\ retry = 0
  /\ heartbeat = "off" /\ watched = None
  /\ faults = 0

\* connect(), which the callers make once per client.
Connect ==
  /\ wish = None
  /\ wish' \in Wishes
  /\ suspended' = FALSE
  /\ NewSocket
  /\ UNCHANGED <<retryTimer, retry, heartbeat, watched, net>>

AskOnlyKept ==
  /\ wish # None
  /\ wish' \in Wishes \ {wish}
  /\ UNCHANGED <<ready, told, ws, suspended, retryTimer, retry, heartbeat, watched, net>>

\* update() and setPinned(): sent if the socket is open, kept in any case.
Ask ==
  /\ wish # None
  /\ wish' \in Wishes \ {wish}
  /\ told' = IF ws # None /\ ready[ws] = "open" THEN [told EXCEPT ![ws] = wish'] ELSE told
  /\ UNCHANGED <<ready, ws, suspended, retryTimer, retry, heartbeat, watched, net>>

\* onopen: subscribe to what is wanted by now.
Opened(s) ==
  /\ ready[s] = "connecting"
  /\ ready' = [ready EXCEPT ![s] = "open"]
  /\ alive' = [alive EXCEPT ![s] = TRUE]
  /\ told' = [told EXCEPT ![s] = wish]
  /\ retry' = 0
  /\ ArmHeartbeat
  /\ UNCHANGED <<ws, suspended, wish, retryTimer, faults>>

\* onmessage: an update, a pong or an error; any of them shows the peer alive.
Message(s) ==
  /\ ready[s] = "open" /\ alive[s]
  /\ ArmHeartbeat
  /\ UNCHANGED <<ready, told, ws, suspended, wish, retryTimer, retry, net>>

\* The attempt fails, or the peer closes the connection.
Lost(s) ==
  /\ faults < MaxFaults
  /\ ready[s] = "connecting" \/ (ready[s] = "open" /\ alive[s])
  /\ Closed(s)
  /\ faults' = faults + 1

\* The path to the peer breaks and nobody notices.
Dies(s) ==
  /\ faults < MaxFaults
  /\ ready[s] = "open" /\ alive[s]
  /\ alive' = [alive EXCEPT ![s] = FALSE]
  /\ faults' = faults + 1
  /\ UNCHANGED <<ready, told, ws, suspended, wish, retryTimer, retry, heartbeat, watched>>

\* The closing handshake of close() ends, or times out.
CloseDone(s) ==
  /\ ready[s] = "closing"
  /\ Closed(s)
  /\ UNCHANGED faults

\* The reconnect timer.
Retry ==
  /\ retryTimer
  /\ retryTimer' = FALSE
  /\ NewSocket
  /\ UNCHANGED <<suspended, wish, retry, heartbeat, watched, net>>

PingUngraced ==
  /\ heartbeat = "idle"
  /\ IF ws # None /\ ready[ws] = "open" THEN ArmHeartbeat ELSE ClearHeartbeat
  /\ UNCHANGED <<ready, told, ws, suspended, wish, retryTimer, retry, net>>

\* heartbeatMs without a frame: ping the current socket, if it is open.
Ping ==
  /\ heartbeat = "idle"
  /\ IF ws # None /\ ready[ws] = "open"
     THEN heartbeat' = "grace" /\ watched' = ws
     ELSE ClearHeartbeat
  /\ UNCHANGED <<ready, told, ws, suspended, wish, retryTimer, retry, net>>

\* HEARTBEAT_GRACE_MS without an answer, or with a late one: close the socket
\* that was pinged.
GiveUp ==
  /\ heartbeat = "grace"
  /\ ready' = [ready EXCEPT ![watched] = IF @ = "closed" THEN @ ELSE "closing"]
  /\ ClearHeartbeat
  /\ UNCHANGED <<told, ws, suspended, wish, retryTimer, retry, net>>

SuspendKeepsRetry ==
  /\ ClearHeartbeat
  /\ suspended' = TRUE
  /\ ws' = None
  /\ ready' = IF ws = None THEN ready
              ELSE [ready EXCEPT ![ws] = IF @ = "closed" THEN @ ELSE "closing"]
  /\ UNCHANGED <<told, wish, retryTimer, retry, net>>

\* suspend() and close(): the app goes to the background or the page away.
Suspend ==
  /\ retryTimer' = FALSE
  /\ ClearHeartbeat
  /\ suspended' = TRUE
  /\ ws' = None
  /\ ready' = IF ws = None THEN ready
              ELSE [ready EXCEPT ![ws] = IF @ = "closed" THEN @ ELSE "closing"]
  /\ UNCHANGED <<told, wish, retry, net>>

\* resume().
Resume ==
  /\ ws = None /\ wish # None
  /\ suspended' = FALSE
  /\ retry' = 0
  /\ NewSocket
  /\ UNCHANGED <<wish, retryTimer, heartbeat, watched, net>>

Next ==
  \/ Connect \/ Ask \/ Retry \/ Ping \/ GiveUp \/ Suspend \/ Resume
  \/ \E s \in Sockets : Opened(s) \/ Message(s) \/ Lost(s) \/ Dies(s) \/ CloseDone(s)

\* Timers fire, an attempt ends one way or the other, and so does a closing
\* handshake.  Nothing makes a user ask, leave or come back.
Fairness ==
  /\ WF_vars(Retry) /\ WF_vars(Ping) /\ WF_vars(GiveUp)
  /\ \A s \in Sockets : WF_vars(Opened(s)) /\ WF_vars(CloseDone(s))

Spec == Init /\ [][Next]_vars /\ Fairness
-----------------------------------------------------------------------------
(* Properties.                                                             *)

TypeOK ==
  /\ ready \in [Sockets -> {"connecting", "open", "closing", "closed"}]
  /\ alive \in [Sockets -> BOOLEAN]
  /\ told \in [Sockets -> Wishes \cup {None}]
  /\ ws \in Sockets \cup {None}
  /\ suspended \in BOOLEAN /\ retryTimer \in BOOLEAN
  /\ wish \in Wishes \cup {None}
  /\ retry \in 0 .. Longest
  /\ heartbeat \in {"off", "idle", "grace"}
  /\ watched \in Sockets \cup {None}
  /\ faults \in 0 .. MaxFaults

InUse(s) == ready[s] \in {"connecting", "open"}

\* There is never a second connection: every socket in use is the current one
\* and none is in use while a reconnect is scheduled, although closes come
\* late and timers race with resume (the stale-socket check of onclose).
OneConnection ==
  \A s \in Sockets : InUse(s) => s = ws /\ ~retryTimer

\* After suspend() nothing runs: no connection, no reconnect to come, no
\* watchdog, until resume().
QuietWhileSuspended ==
  suspended => ~retryTimer /\ heartbeat = "off" /\ \A s \in Sockets : ~InUse(s)

\* A client that was not suspended is never without a way forward: its socket
\* is alive in some state whose end will be reported, or a retry is scheduled.
NeverStranded ==
  wish # None /\ ~suspended =>
    ws # None /\ (ready[ws] # "closed" \/ retryTimer)

\* The server has been told the latest wish over every open connection,
\* whether it changed before, while or after the socket opened.
ServerKnowsWish ==
  ws # None /\ ready[ws] = "open" => told[ws] = wish

\* The watchdog never closes a connection other than the one it pinged, and
\* that is the current one.
WatchesCurrent == heartbeat = "grace" => watched = ws

\* An open connection is watched, so that silence ends it (the purpose of
\* heartbeatMs, ws.ts:12).  The late onclose of a suspended socket clears the
\* timer its successor armed.
OpenIsWatched ==
  Heartbeat /\ ws # None /\ ready[ws] = "open" => heartbeat # "off"

\* In the foreground, once the network behaves, the client is again and again
\* connected to a live peer, half-open sockets and failed attempts included;
\* all it takes is that no late close disarms the watchdog.
Recovers ==
  []OpenIsWatched =>
    [](wish # None => <>(suspended \/ (ws # None /\ ready[ws] = "open" /\ alive[ws])))
=============================================================================
