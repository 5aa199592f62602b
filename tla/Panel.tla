-------------------------------- MODULE Panel --------------------------------
(***************************************************************************)
(* What the panel fetches: the live detail of the active vehicle and the   *)
(* plan of its trip, the departure board of the open stop, the results of  *)
(* the search (the effects of useMapApp.ts and home.tsx).                  *)
(*                                                                         *)
(* Each is an effect keyed on a subject: it is torn down and run again     *)
(* when the subject changes, while its requests are still under way.  The  *)
(* effects share nothing but the plan, which follows the detail, so a      *)
(* behaviour is about one of them: kind, chosen at the start.              *)
(***************************************************************************)
EXTENDS Naturals, FiniteSets

CONSTANTS
  Subjects,  \* what may be shown: vehicles, stops, queries
  None,      \* nothing is
  Pending,   \* no answer yet
  MaxTrip,   \* bound on the trips the vehicles run
  MaxFlight  \* bound on requests under way

Kinds == {"detail", "board", "search"}
Polled == {"detail", "board"}
Trips == 1 .. MaxTrip

ASSUME ConstantsAssumption ==
  /\ None \notin Subjects /\ None \notin Nat
  /\ Pending \notin Nat /\ Pending # None
  /\ MaxTrip \in Nat /\ MaxFlight \in Nat

VARIABLES
  kind,     \* the effect this behaviour is about
  web,      \* the web polls by interval, the mobile app after each outcome
  key,      \* activeId, stopId or the trimmed query with its filters
  view,     \* detail, board or results
  plan,     \* trip, the loaded plan
  planTrip, \* the trip id the plan was asked for
  flight,   \* requests under way whose outcome still counts
  armed,    \* a timer is to send the next one
  busy,     \* loadingBoard, searching
  trip,     \* trip[v]: the GTFS trip the server has v on, 0 if unmatched
  asks,     \* history: plan requests by the rule since the last detail
  latest,   \* history: the last trip id that was new
  again     \* history: a trip was run a second time

vars == <<kind, web, key, view, plan, planTrip, flight, armed, busy, trip, asks, latest, again>>

world == <<kind, web, trip, latest, again>>

Answers == 0 .. MaxTrip
Loaded == [key: Subjects, ans: Answers]
Request == [plan: BOOLEAN, key: Subjects, ans: Answers \cup {Pending},
            first: BOOLEAN]

Ask(p, s, f) == [plan |-> p, key |-> s, ans |-> Pending, first |-> f]

-----------------------------------------------------------------------------
Init ==
  /\ kind \in Kinds /\ web \in BOOLEAN
  /\ key = None /\ view = None /\ plan = None /\ planTrip = 0
  /\ flight = {} /\ armed = FALSE /\ busy = FALSE
  /\ trip = [s \in Subjects |-> 0]
  /\ asks = 0 /\ latest = 0 /\ again = FALSE

\* Detail and board ask at once and the plan with the detail; a search waits
\* for its debounce.
Started(s) ==
  IF s = None \/ kind = "search" THEN {}
  ELSE {Ask(FALSE, s, TRUE)} \cup IF kind = "detail" THEN {Ask(TRUE, s, TRUE)} ELSE {}

RestartUncleaned(s) == flight' = flight \cup Started(s)

\* The effects are cleaned up and run anew: alive = false or an aborted signal
\* makes what is under way count for nothing.
Restart(s) == flight' = Started(s)

\* Another vehicle becomes active, another stop is opened, the query or its
\* filters change; the old results stay until the new ones come.
Change(s) ==
  /\ s # key
  /\ key' = s
  /\ Restart(s)
  /\ view' = IF kind = "search" /\ s # None THEN view ELSE None
  /\ plan' = None
  /\ busy' = CASE kind = "search" -> s # None
               [] kind = "board"  -> s # None \/ busy
               [] OTHER           -> FALSE
  /\ armed' = (kind = "search" /\ s # None)
  /\ asks' = 0
  /\ UNCHANGED <<world, planTrip>>

\* resumeTrip: the same vehicle's next trip (detailNonce).
Resume ==
  /\ kind = "detail" /\ key # None
  /\ Restart(key)
  /\ view' = None /\ plan' = None /\ armed' = FALSE /\ asks' = 0
  /\ UNCHANGED <<world, key, planTrip, busy>>

\* The timer: the next poll, or the search itself.
Send ==
  /\ armed
  /\ armed' = FALSE
  /\ flight' = flight \cup {Ask(FALSE, key, kind = "search")}
  /\ UNCHANGED <<world, key, view, plan, planTrip, busy, asks>>

\* setInterval does not wait for an answer.
Interval ==
  /\ web /\ kind \in Polled /\ key # None
  /\ Cardinality(flight) < MaxFlight
  /\ flight' = flight \cup {Ask(FALSE, key, FALSE)}
  /\ UNCHANGED <<world, key, view, plan, planTrip, armed, busy, asks>>

-----------------------------------------------------------------------------
(* Answers.                                                                *)

\* vehicle_detail and vehicle_trip: the trip the vehicle is on now.
Reported(s) == trip[s]

Serve(r) ==
  /\ r.ans = Pending
  /\ flight' = (flight \ {r}) \cup {[r EXCEPT !.ans = Reported(r.key)]}
  /\ UNCHANGED <<world, key, view, plan, planTrip, armed, busy, asks>>

\* The rule that refetches the plan, and what it may do after view or plan
\* changed: once per trip id the poll reported.
MismatchOnly(d, p) == d # None /\ p # None /\ d.ans # 0 /\ d.ans # p.ans
MismatchFirst(d, p) == MismatchOnly(d, p) /\ planTrip = 0
Mismatch(d, p) == d # None /\ p # None /\ d.ans # 0 /\ d.ans # p.ans /\ d.ans # planTrip

Follow(d, p, rest, n) ==
  /\ view' = d
  /\ IF Mismatch(d, p)
     THEN /\ planTrip' = d.ans
          /\ plan' = None
          /\ flight' = { r \in rest : ~r.plan } \cup {Ask(TRUE, key, TRUE)}
          /\ asks' = n + 1
     ELSE plan' = p /\ flight' = rest /\ asks' = n /\ UNCHANGED planTrip

\* What the end of a request does to the spinner and the timer of its effect.
Finished(r) ==
  /\ busy' = (busy /\ ~r.first)
  /\ armed' = (kind \in Polled /\ ~web)

Arrive(r) ==
  /\ r.ans # Pending /\ ~r.plan
  /\ Follow([key |-> r.key, ans |-> r.ans], plan, flight \ {r}, 0)
  /\ Finished(r)
  /\ UNCHANGED <<world, key>>

PlanArrives(r) ==
  /\ r.ans # Pending /\ r.plan
  /\ Follow(view, [key |-> r.key, ans |-> r.ans], flight \ {r}, asks)
  /\ UNCHANGED <<world, key, armed, busy>>

FailSpins(r) ==
  /\ ~r.plan
  /\ view' = IF ~r.first THEN view
             ELSE IF kind = "search" THEN [key |-> r.key, ans |-> 0] ELSE None
  /\ armed' = (kind \in Polled /\ ~web)
  /\ flight' = flight \ {r}
  /\ UNCHANGED <<world, key, plan, planTrip, asks, busy>>

FailStops(r) ==
  /\ ~r.plan
  /\ view' = IF ~r.first THEN view
             ELSE IF kind = "search" THEN [key |-> r.key, ans |-> 0] ELSE None
  /\ busy' = (busy /\ ~r.first)
  /\ flight' = flight \ {r}
  /\ UNCHANGED <<world, key, plan, planTrip, asks, armed>>

\* An error status, the deadline, no network.  The first failure clears the
\* view (of a search: leaves it empty); polling goes on.
Fail(r) ==
  /\ ~r.plan
  /\ view' = IF ~r.first THEN view
             ELSE IF kind = "search" THEN [key |-> r.key, ans |-> 0] ELSE None
  /\ Finished(r)
  /\ flight' = flight \ {r}
  /\ UNCHANGED <<world, key, plan, planTrip, asks>>

\* A plan that fails is not asked for again.
PlanFails(r) ==
  /\ r.plan
  /\ flight' = flight \ {r}
  /\ UNCHANGED <<world, key, view, plan, planTrip, armed, busy, asks>>

\* A vehicle moves onto a trip, or loses its match.
Move(s) ==
  /\ kind = "detail"
  /\ \E t \in Answers :
       /\ t # trip[s]
       /\ trip' = [trip EXCEPT ![s] = t]
       /\ again' = (again \/ t \in 1 .. latest)
       /\ latest' = IF t > latest THEN t ELSE latest
  /\ UNCHANGED <<kind, web, key, view, plan, planTrip, flight, armed, busy, asks>>

Next ==
  \/ \E s \in Subjects \cup {None} : Change(s)
  \/ Resume \/ Send \/ Interval
  \/ \E r \in flight : Serve(r) \/ Arrive(r) \/ PlanArrives(r) \/ Fail(r) \/ PlanFails(r)
  \/ \E s \in Subjects : Move(s)

\* Timers fire, requests end (RestClient.get has a deadline), and a poll that
\* keeps being made gets an answer in the end.
Fairness ==
  /\ WF_vars(Send) /\ WF_vars(Interval)
  /\ SF_vars(\E r \in flight : ~r.plan /\ Serve(r)) /\ SF_vars(\E r \in flight : Arrive(r))
  /\ WF_vars(\E r \in flight : r.plan /\ Serve(r))
  /\ WF_vars(\E r \in flight : PlanArrives(r) \/ PlanFails(r))
  /\ WF_vars(\E r \in flight : r.first /\ (Arrive(r) \/ Fail(r)))

Spec == Init /\ [][Next]_vars /\ Fairness
-----------------------------------------------------------------------------
(* Properties.                                                             *)

TypeOK ==
  /\ kind \in Kinds /\ web \in BOOLEAN
  /\ key \in Subjects \cup {None}
  /\ view \in Loaded \cup {None} /\ plan \in Loaded \cup {None}
  /\ planTrip \in Answers
  /\ flight \subseteq Request
  /\ armed \in BOOLEAN /\ busy \in BOOLEAN
  /\ trip \in [Subjects -> Answers]
  /\ asks \in Nat /\ latest \in Answers /\ again \in BOOLEAN

\* However late an answer comes, what is shown belongs to the vehicle or stop
\* that is open, and results to the query once the search is over.
AnswersFit ==
  /\ view # None /\ ~(kind = "search" /\ busy) => view.key = key
  /\ plan # None => plan.key = key

\* The rule asks for the plan at most once per detail it has heard, whatever the
\* plan answers: it never spins on a plan that is ahead of the poll.
AsksOnce == asks <= 1

\* A plan on the screen is of the trip the vehicle is on, as soon as the detail is
\* of that trip, unless a trip was run twice: an older plan is never taken for it.
PlanFits ==
  kind = "detail" /\ ~again /\ view # None /\ plan # None /\ view.ans # 0 /\ view.ans = trip[key] =>
    plan.ans = view.ans

\* A spinner is waiting for something that will end it, and a mobile panel that
\* polls is never without the next poll.
SomethingToCome ==
  key # None =>
    /\ busy => (kind = "search" /\ armed) \/ \E r \in flight : r.first /\ ~r.plan
    /\ kind \in Polled /\ ~web => armed \/ \E r \in flight : ~r.plan

\* A vehicle that stays on its trip while it is watched is shown on that trip in
\* the end, though polls fail, overlap or answer out of order.
Watched(s, t) ==
  <>[](kind = "detail" /\ key = s /\ trip[s] = t) /\ <>[][~Resume]_vars
DetailFollows ==
  \A s \in Subjects, t \in Answers :
    Watched(s, t) => <>[](view = [key |-> s, ans |-> t])

\* So is the plan of its trip, unless its one request failed, as long as no trip
\* is run twice: the rule would not ask a second time.
PlanFollows ==
  []~again =>
    \A s \in Subjects, t \in Trips :
      Watched(s, t) =>
        <>[](plan = [key |-> s, ans |-> t] \/ (plan = None /\ ~\E r \in flight : r.plan))

\* No spinner spins for ever.
SpinnersEnd == \A s \in Subjects : busy /\ key = s ~> ~busy \/ key # s
=============================================================================
