---------------------------- MODULE PanelProofs ----------------------------
(***************************************************************************)
(* However many subjects, trips and requests there are: what the panel     *)
(* shows belongs to what is open, and the plan is not asked for in a loop. *)
(*                                                                         *)
(* The first holds because the clean-up of an effect takes away all        *)
(* requests of the subject before (InFlight); the second because once the  *)
(* rule has asked, the detail it asked for is of the trip it asked for     *)
(* (Asked), and only another detail can set it off again.                  *)
(***************************************************************************)
EXTENDS Panel, TLAPS

\* What counts was asked for the subject that is open, and a timer is armed only
\* while one is.
InFlight ==
  /\ \A r \in flight : r.key = key
  /\ armed => key # None

\* The rule has not asked since the last detail, or for that detail's trip.
Asked ==
  \/ asks = 0
  \/ asks = 1 /\ (view = None \/ view.ans \in {0, planTrip})

IInv == TypeOK /\ InFlight /\ AnswersFit /\ Asked

LEMMA AskType ==
  ASSUME NEW p \in BOOLEAN, NEW s \in Subjects, NEW f \in BOOLEAN
  PROVE  Ask(p, s, f) \in Request /\ Ask(p, s, f).key = s
  BY DEF Ask, Request

\* A fresh effect asks about its subject only.
LEMMA StartedType ==
  ASSUME NEW s \in Subjects \cup {None}
  PROVE  Started(s) \subseteq Request /\ \A r \in Started(s) : r.key = s
<1>1. CASE s = None \/ kind = "search" BY <1>1 DEF Started
<1>2. CASE ~(s = None \/ kind = "search")
  <2>1. s \in Subjects BY <1>2
  <2>2. Started(s) \subseteq {Ask(FALSE, s, TRUE), Ask(TRUE, s, TRUE)} BY <1>2 DEF Started
  <2> QED BY <2>1, <2>2, AskType
<1> QED BY <1>1, <1>2

\* The refetch rule, from an answer about the open subject.
LEMMA FollowKeeps ==
  ASSUME IInv, key \in Subjects, UNCHANGED <<world, key>>,
         NEW d \in Loaded \cup {None}, NEW p \in Loaded, NEW rest \in SUBSET flight, NEW n \in {0, 1},
         Follow(d, p, rest, n), p.key = key,
         n = 1 => d = None \/ d.ans \in {0, planTrip}
  PROVE  /\ view' = d /\ plan' \in Loaded \cup {None} /\ planTrip' \in Answers
         /\ plan' # None => plan'.key = key
         /\ flight' \subseteq Request /\ \A r \in flight' : r.key = key
         /\ asks' \in {0, 1}
         /\ asks' = 0 \/ d = None \/ d.ans \in {0, planTrip'}
<1> USE DEF IInv, TypeOK
<1>1. CASE Mismatch(d, p)
  <2>1. n = 0 /\ d \in Loaded BY <1>1 DEF Mismatch
  <2>2. d.ans \in Answers BY <2>1 DEF Loaded
  <2>3. view' = d /\ planTrip' = d.ans /\ plan' = None /\ asks' = 1
    BY <1>1, <2>1 DEF Follow
  <2>4. flight' = { r \in rest : ~r.plan } \cup {Ask(TRUE, key, TRUE)} BY <1>1 DEF Follow
  <2>5. Ask(TRUE, key, TRUE) \in Request /\ Ask(TRUE, key, TRUE).key = key BY AskType
  <2>6. flight \subseteq Request /\ \A r \in flight : r.key = key BY DEF InFlight
  <2>7. flight' \subseteq Request /\ \A r \in flight' : r.key = key
    BY <2>4, <2>5, <2>6
  <2> QED BY <2>2, <2>3, <2>7
<1>2. CASE ~Mismatch(d, p)
  <2>1. view' = d /\ plan' = p /\ flight' = rest /\ asks' = n /\ planTrip' = planTrip
    BY <1>2 DEF Follow
  <2>2. flight' \subseteq Request /\ \A r \in flight' : r.key = key BY <2>1 DEF InFlight
  <2>3. asks' = 0 \/ d = None \/ d.ans \in {0, planTrip'} BY <2>1
  <2> QED BY <2>1, <2>2, <2>3
<1> QED BY <1>1, <1>2

LEMMA InitInv == Init => IInv
<1> SUFFICES ASSUME Init PROVE IInv OBVIOUS
<1>1. 0 \in Answers BY ConstantsAssumption DEF Answers
<1>2. trip \in [Subjects -> Answers] BY <1>1 DEF Init
<1>3. TypeOK BY <1>1, <1>2 DEF Init, TypeOK
<1> QED BY <1>3 DEF Init, IInv, InFlight, AnswersFit, Asked

LEMMA NextInv == IInv /\ [Next]_vars => IInv'
<1> SUFFICES ASSUME IInv, [Next]_vars PROVE IInv' OBVIOUS
<1> USE ConstantsAssumption
<1>1. ASSUME NEW s \in Subjects \cup {None}, Change(s) PROVE IInv'
  <2>1. flight' \subseteq Request /\ \A r \in flight' : r.key = s
    BY <1>1, StartedType DEF Change, Restart
  <2>2. view' \in Loaded \cup {None} /\ busy' \in BOOLEAN /\ armed' \in BOOLEAN
    BY <1>1 DEF Change, IInv, TypeOK
  <2>3. TypeOK' BY <1>1, <2>1, <2>2 DEF Change, IInv, TypeOK, world
  <2>4. AnswersFit' BY <1>1 DEF Change, AnswersFit, world
  <2> QED BY <1>1, <2>1, <2>3, <2>4 DEF Change, IInv, InFlight, Asked, world
<1>2. ASSUME Resume PROVE IInv'
  <2>1. flight' \subseteq Request /\ \A r \in flight' : r.key = key
    BY <1>2, StartedType DEF Resume, Restart, IInv, TypeOK
  <2> QED BY <1>2, <2>1 DEF Resume, IInv, TypeOK, InFlight, AnswersFit, Asked, world
<1>3. ASSUME Send PROVE IInv'
  <2>1. key \in Subjects BY <1>3 DEF Send, IInv, InFlight, TypeOK
  <2>2. flight' \subseteq Request /\ \A r \in flight' : r.key = key
    BY <1>3, <2>1, AskType DEF Send, IInv, InFlight, TypeOK
  <2> QED BY <1>3, <2>2 DEF Send, IInv, TypeOK, InFlight, AnswersFit, Asked, world
<1>4. ASSUME Interval PROVE IInv'
  <2>1. flight' \subseteq Request /\ \A r \in flight' : r.key = key
    BY <1>4, AskType DEF Interval, IInv, InFlight, TypeOK
  <2> QED BY <1>4, <2>1 DEF Interval, IInv, TypeOK, InFlight, AnswersFit, Asked, world
<1>5. ASSUME NEW r \in flight, Serve(r) PROVE IInv'
  <2>1. r \in Request /\ r.key \in Subjects /\ r.key = key
    BY DEF IInv, TypeOK, InFlight, Request
  <2>2. Reported(r.key) \in Answers BY <2>1 DEF Reported, IInv, TypeOK
  <2>3. [r EXCEPT !.ans = Reported(r.key)] \in Request
        /\ [r EXCEPT !.ans = Reported(r.key)].key = key
    BY <2>1, <2>2 DEF Request
  <2>4. flight' \subseteq Request /\ \A q \in flight' : q.key = key
    BY <1>5, <2>3 DEF Serve, IInv, TypeOK, InFlight
  <2> QED BY <1>5, <2>4 DEF Serve, IInv, TypeOK, InFlight, AnswersFit, Asked, world
<1>6. ASSUME NEW r \in flight, Arrive(r) PROVE IInv'
  <2> DEFINE d == [key |-> r.key, ans |-> r.ans]
  <2>1. r.key = key /\ key \in Subjects /\ r.ans \in Answers /\ r.first \in BOOLEAN
    BY <1>6 DEF Arrive, IInv, TypeOK, InFlight, Request
  <2>2. d \in Loaded /\ d.key = key /\ d.ans = r.ans BY <2>1 DEF Loaded
  <2>3. Follow(d, plan, flight \ {r}, 0) /\ UNCHANGED <<world, key>> BY <1>6 DEF Arrive
  <2>4. CASE plan = None
    <3>1. view' = d /\ plan' = None /\ flight' = flight \ {r} /\ asks' = 0 /\ planTrip' = planTrip
      BY <2>3, <2>4 DEF Follow, Mismatch
    <3>2. busy' \in BOOLEAN /\ armed' \in BOOLEAN BY <1>6 DEF Arrive, Finished, IInv, TypeOK
    <3> QED BY <2>1, <2>2, <2>3, <3>1, <3>2 DEF IInv, TypeOK, InFlight, AnswersFit, Asked, world
  <2>5. CASE plan # None
    <3>1. plan \in Loaded /\ plan.key = key BY <2>5 DEF IInv, TypeOK, AnswersFit
    <3>2. /\ view' = d /\ plan' \in Loaded \cup {None} /\ planTrip' \in Answers
          /\ plan' # None => plan'.key = key
          /\ flight' \subseteq Request /\ \A q \in flight' : q.key = key
          /\ asks' \in {0, 1}
          /\ asks' = 0 \/ d = None \/ d.ans \in {0, planTrip'}
      <4> HIDE DEF d
      <4> QED BY <2>1, <2>2, <2>3, <3>1, FollowKeeps
    <3>3. busy' \in BOOLEAN /\ armed' \in BOOLEAN BY <1>6 DEF Arrive, Finished, IInv, TypeOK
    <3> HIDE DEF d
    <3> QED BY <2>1, <2>2, <2>3, <3>2, <3>3 DEF IInv, TypeOK, InFlight, AnswersFit, Asked, world
  <2> QED BY <2>4, <2>5
<1>7. ASSUME NEW r \in flight, PlanArrives(r) PROVE IInv'
  <2> DEFINE p == [key |-> r.key, ans |-> r.ans]
  <2>1. r.key = key /\ key \in Subjects /\ r.ans \in Answers
    BY <1>7 DEF PlanArrives, IInv, TypeOK, InFlight, Request
  <2>2. p \in Loaded /\ p.key = key BY <2>1 DEF Loaded
  <2>3. Follow(view, p, flight \ {r}, asks) /\ UNCHANGED <<world, key, armed, busy>>
    BY <1>7 DEF PlanArrives
  <2> HIDE DEF p
  <2>4. asks \in {0, 1} /\ (asks = 1 => view = None \/ view.ans \in {0, planTrip})
        /\ view \in Loaded \cup {None}
    BY DEF IInv, Asked, TypeOK
  <2>5. /\ view' = view /\ plan' \in Loaded \cup {None} /\ planTrip' \in Answers
        /\ plan' # None => plan'.key = key
        /\ flight' \subseteq Request /\ \A q \in flight' : q.key = key
        /\ asks' \in {0, 1}
        /\ asks' = 0 \/ view = None \/ view.ans \in {0, planTrip'}
    BY <2>1, <2>2, <2>3, <2>4, FollowKeeps
  <2> QED BY <2>1, <2>3, <2>5 DEF IInv, TypeOK, InFlight, AnswersFit, Asked, world
<1>8. ASSUME NEW r \in flight, Fail(r) PROVE IInv'
  <2>1. r.key = key /\ key \in Subjects /\ r.first \in BOOLEAN
    BY DEF IInv, TypeOK, InFlight, Request
  <2>2. view' \in Loaded \cup {None} BY <1>8, <2>1 DEF Fail, IInv, TypeOK, Loaded, Answers
  <2>3. busy' \in BOOLEAN /\ armed' \in BOOLEAN BY <1>8 DEF Fail, Finished, IInv, TypeOK
  <2>4. TypeOK' /\ InFlight'
    BY <1>8, <2>1, <2>2, <2>3 DEF Fail, IInv, TypeOK, InFlight, world
  <2>5. AnswersFit'
    BY <1>8, <2>1 DEF Fail, Finished, IInv, AnswersFit, world
  <2>6. Asked' BY <1>8, <2>1 DEF Fail, IInv, Asked
  <2> QED BY <2>4, <2>5, <2>6 DEF IInv
<1>9. ASSUME NEW r \in flight, PlanFails(r) PROVE IInv'
  BY <1>9 DEF PlanFails, IInv, TypeOK, InFlight, AnswersFit, Asked, world
<1>10. ASSUME NEW s \in Subjects, Move(s) PROVE IInv'
  <2>1. trip' \in [Subjects -> Answers] /\ latest' \in Answers /\ again' \in BOOLEAN
    BY <1>10 DEF Move, IInv, TypeOK
  <2> QED BY <1>10, <2>1 DEF Move, IInv, TypeOK, InFlight, AnswersFit, Asked
<1>11. CASE UNCHANGED vars
  BY <1>11 DEF vars, IInv, TypeOK, InFlight, AnswersFit, Asked
<1> QED
  BY <1>1, <1>2, <1>3, <1>4, <1>5, <1>6, <1>7, <1>8, <1>9, <1>10, <1>11 DEF Next

LEMMA Invariant == Spec => []IInv
<1>1. Init => IInv BY InitInv
<1>2. IInv /\ [Next]_vars => IInv' BY NextInv
<1> QED BY <1>1, <1>2, PTL DEF Spec

\* No answer, however late, shows under another vehicle, stop or query than the
\* one it was asked for.
THEOREM AnswersBelong == Spec => []AnswersFit
<1>1. IInv => AnswersFit BY DEF IInv
<1> QED BY <1>1, Invariant, PTL

\* Between two details the rule asks for the plan once at most, however often
\* plan and detail disagree.
THEOREM NoSpinning == Spec => []AsksOnce
<1>1. IInv => AsksOnce BY DEF IInv, Asked, AsksOnce
<1> QED BY <1>1, Invariant, PTL
-----------------------------------------------------------------------------
(* The plan of the trip.                                                   *)

\* No trip was heard of, or asked for, that no vehicle was on.
Heard ==
  /\ \A s \in Subjects : trip[s] <= latest
  /\ planTrip <= latest
  /\ view # None => view.ans <= latest
  /\ \A r \in flight : r.ans # Pending => r.ans <= latest

\* The rule has had its say about the detail and the plan shown.
Settled ==
  view # None /\ plan # None /\ view.ans # 0 /\ view.ans # plan.ans => view.ans = planTrip

\* What was asked of the trip the vehicle is on is, or will be, of that trip.
Sought ==
  kind = "detail" /\ ~again /\ key # None /\ planTrip # 0 /\ planTrip = trip[key] =>
    /\ plan # None => plan.ans = planTrip
    /\ \A r \in flight : r.plan => r.ans = Pending \/ r.ans = planTrip

LEMMA StartedPending ==
  ASSUME NEW s \in Subjects \cup {None}
  PROVE  \A r \in Started(s) : r.ans = Pending
BY DEF Started, Ask

LEMMA InitHeard == Init => Heard /\ Settled /\ Sought
BY DEF Init, Heard, Settled, Sought

LEMMA NextHeard ==
  ASSUME IInv, Heard, [Next]_vars
  PROVE  Heard'
<1> USE ConstantsAssumption DEF Heard
<1>1. latest \in Nat /\ Answers \subseteq Nat BY DEF IInv, TypeOK, Answers
<1>2. ASSUME NEW s \in Subjects \cup {None}, Change(s) PROVE Heard'
  BY <1>2, StartedPending DEF Change, Restart, world
<1>3. CASE Resume
  BY <1>3, StartedPending DEF Resume, Restart, world, IInv, TypeOK
<1>4. CASE Send BY <1>4 DEF Send, Ask, world
<1>5. CASE Interval BY <1>5 DEF Interval, Ask, world
<1>6. ASSUME NEW r \in flight, Serve(r) PROVE Heard'
  <2>1. r \in Request /\ r.key \in Subjects BY DEF IInv, TypeOK, Request
  <2>2. [r EXCEPT !.ans = Reported(r.key)].ans = trip[r.key]
    BY <2>1 DEF Request, Reported
  <2> QED BY <1>6, <2>1, <2>2 DEF Serve, world
<1>7. ASSUME NEW r \in flight, Arrive(r) PROVE Heard'
  BY <1>7 DEF Arrive, Follow, Ask, world
<1>8. ASSUME NEW r \in flight, PlanArrives(r) PROVE Heard'
  BY <1>8 DEF PlanArrives, Follow, Mismatch, Ask, world
<1>9. ASSUME NEW r \in flight, Fail(r) PROVE Heard'
  BY <1>1, <1>9 DEF Fail, world
<1>10. ASSUME NEW r \in flight, PlanFails(r) PROVE Heard'
  BY <1>10 DEF PlanFails, world
<1>11. ASSUME NEW s \in Subjects, Move(s) PROVE Heard'
  <2>1. PICK t \in Answers : trip' = [trip EXCEPT ![s] = t]
                             /\ latest' = IF t > latest THEN t ELSE latest
    BY <1>11 DEF Move
  <2>2. latest' \in Nat /\ latest <= latest' /\ t <= latest' BY <1>1, <2>1
  <2>3. \A q \in Subjects : trip[q] \in Nat BY <1>1 DEF IInv, TypeOK
  <2>4. \A q \in Subjects : trip'[q] <= latest' BY <1>1, <2>1, <2>2, <2>3 DEF IInv, TypeOK
  <2>5. planTrip \in Nat /\ (view # None => view.ans \in Nat)
    BY <1>1 DEF IInv, TypeOK, Loaded
  <2>6. \A r \in flight : r.ans # Pending => r.ans \in Nat
    BY <1>1 DEF IInv, TypeOK, Request
  <2> QED BY <1>1, <1>11, <2>2, <2>4, <2>5, <2>6 DEF Move
<1>12. CASE UNCHANGED vars BY <1>12 DEF vars
<1> QED BY <1>2, <1>3, <1>4, <1>5, <1>6, <1>7, <1>8, <1>9, <1>10, <1>11, <1>12 DEF Next

LEMMA NextSettled ==
  ASSUME IInv, Settled, [Next]_vars
  PROVE  Settled'
<1> USE DEF Settled
<1>1. ASSUME NEW s \in Subjects \cup {None}, Change(s) PROVE Settled'
  BY <1>1 DEF Change
<1>2. CASE Resume BY <1>2 DEF Resume
<1>3. CASE Send BY <1>3 DEF Send
<1>4. CASE Interval BY <1>4 DEF Interval
<1>5. ASSUME NEW r \in flight, Serve(r) PROVE Settled' BY <1>5 DEF Serve
<1>6. ASSUME NEW r \in flight, Arrive(r) PROVE Settled'
  BY <1>6 DEF Arrive, Follow, Mismatch
<1>7. ASSUME NEW r \in flight, PlanArrives(r) PROVE Settled'
  BY <1>7 DEF PlanArrives, Follow, Mismatch
<1>8. ASSUME NEW r \in flight, Fail(r) PROVE Settled' BY <1>8 DEF Fail
<1>9. ASSUME NEW r \in flight, PlanFails(r) PROVE Settled' BY <1>9 DEF PlanFails
<1>10. ASSUME NEW s \in Subjects, Move(s) PROVE Settled' BY <1>10 DEF Move
<1>11. CASE UNCHANGED vars BY <1>11 DEF vars
<1> QED BY <1>1, <1>2, <1>3, <1>4, <1>5, <1>6, <1>7, <1>8, <1>9, <1>10, <1>11 DEF Next

\* What the rule leaves of what was asked, whichever way it goes.
LEMMA FollowSought ==
  ASSUME Sought, UNCHANGED <<world, key>>,
         NEW d, NEW p, NEW rest \in SUBSET flight, NEW n, Follow(d, p, rest, n),
         kind = "detail" /\ ~again /\ key # None /\ planTrip # 0 /\ planTrip = trip[key]
           => (p # None => p.ans = planTrip)
  PROVE  Sought'
<1>1. CASE Mismatch(d, p)
  <2>1. plan' = None /\ flight' = { r \in rest : ~r.plan } \cup {Ask(TRUE, key, TRUE)}
    BY <1>1 DEF Follow
  <2>2. Ask(TRUE, key, TRUE).ans = Pending BY DEF Ask
  <2> QED BY <2>1, <2>2 DEF Sought
<1>2. CASE ~Mismatch(d, p)
  BY <1>2 DEF Follow, Sought, world
<1> QED BY <1>1, <1>2

LEMMA NextSought ==
  ASSUME IInv, Heard, Sought, [Next]_vars
  PROVE  Sought'
<1>1. ASSUME NEW s \in Subjects \cup {None}, Change(s) PROVE Sought'
  BY <1>1, StartedPending DEF Change, Restart, Sought
<1>2. CASE Resume
  BY <1>2, StartedPending DEF Resume, Restart, Sought, IInv, TypeOK
<1>3. CASE Send BY <1>3 DEF Send, Ask, Sought, world
<1>4. CASE Interval BY <1>4 DEF Interval, Ask, Sought, world
<1>5. ASSUME NEW r \in flight, Serve(r) PROVE Sought'
  <2>1. r \in Request /\ r.key = key BY DEF IInv, TypeOK, InFlight
  <2>2. [r EXCEPT !.ans = Reported(r.key)].ans = trip[key]
    BY <2>1 DEF Request, Reported
  <2> QED BY <1>5, <2>2 DEF Serve, Sought, world
<1>6. ASSUME NEW r \in flight, Arrive(r) PROVE Sought'
  <2> DEFINE d == [key |-> r.key, ans |-> r.ans]
             rest == flight \ {r}
  <2>1. Follow(d, plan, rest, 0) /\ UNCHANGED <<world, key>> BY <1>6 DEF Arrive
  <2>2. rest \in SUBSET flight OBVIOUS
  <2> HIDE DEF d, rest
  <2> QED BY <2>1, <2>2, FollowSought DEF Sought
<1>7. ASSUME NEW r \in flight, PlanArrives(r) PROVE Sought'
  <2> DEFINE p == [key |-> r.key, ans |-> r.ans]
             rest == flight \ {r}
  <2>1. Follow(view, p, rest, asks) /\ UNCHANGED <<world, key>> BY <1>7 DEF PlanArrives
  <2>2. rest \in SUBSET flight OBVIOUS
  <2>3. p.ans = r.ans /\ r.ans # Pending /\ r.plan BY <1>7 DEF PlanArrives
  <2> HIDE DEF p, rest
  <2> QED BY <2>1, <2>2, <2>3, FollowSought DEF Sought
<1>8. ASSUME NEW r \in flight, Fail(r) PROVE Sought' BY <1>8 DEF Fail, Sought, world
<1>9. ASSUME NEW r \in flight, PlanFails(r) PROVE Sought' BY <1>9 DEF PlanFails, Sought, world
<1>10. ASSUME NEW s \in Subjects, Move(s) PROVE Sought'
  <2>1. PICK t \in Answers : /\ t # trip[s] /\ trip' = [trip EXCEPT ![s] = t]
                             /\ again' = (again \/ t \in 1 .. latest)
    BY <1>10 DEF Move
  <2>2. UNCHANGED <<kind, key, plan, planTrip, flight>> BY <1>10 DEF Move
  <2>3. trip \in [Subjects -> Answers] /\ planTrip \in Nat /\ latest \in Nat
    BY ConstantsAssumption DEF IInv, TypeOK, Answers
  <2>4. CASE key = s
    <3>1. trip'[key] = t BY <2>1, <2>3, <2>4
    <3>2. planTrip # 0 => planTrip \in 1 .. latest BY <2>3 DEF Heard
    <3>3. ~again' => t \notin 1 .. latest BY <2>1
    <3> QED BY <2>2, <3>1, <3>2, <3>3 DEF Sought
  <2>5. CASE key # s
    <3>1. key # None => trip'[key] = trip[key] BY <2>1, <2>3, <2>5 DEF IInv, TypeOK
    <3> QED BY <2>1, <2>2, <3>1 DEF Sought
  <2> QED BY <2>4, <2>5
<1>11. CASE UNCHANGED vars BY <1>11 DEF vars, Sought
<1> QED BY <1>1, <1>2, <1>3, <1>4, <1>5, <1>6, <1>7, <1>8, <1>9, <1>10, <1>11 DEF Next

\* PlanFits, the safe half of PlanFollows: beside a detail of the trip the vehicle
\* is on, the panel shows no plan of another trip, as long as none is run twice.
THEOREM PlanBelongs == Spec => []PlanFits
<1>1. Init => IInv /\ Heard /\ Settled /\ Sought BY InitInv, InitHeard
<1>2. IInv /\ Heard /\ Settled /\ Sought /\ [Next]_vars => (Heard /\ Settled /\ Sought)'
  BY NextHeard, NextSettled, NextSought
<1>3. IInv /\ Settled /\ Sought => PlanFits
  <2> SUFFICES ASSUME IInv, Settled, Sought PROVE PlanFits OBVIOUS
  <2>1. view # None => view.key \in Subjects BY DEF IInv, TypeOK, Loaded
  <2>2. kind = "detail" /\ view # None => key # None
    BY <2>1, ConstantsAssumption DEF IInv, AnswersFit
  <2> QED BY <2>2 DEF Settled, Sought, PlanFits
<1> QED BY <1>1, <1>2, <1>3, NextInv, PTL DEF Spec

-----------------------------------------------------------------------------
(* What a spinner waits for.                                               *)

\* A search has no request but its one.
Single == kind = "search" => \A r \in flight : r.first

LEMMA InitWaits == Init => Single /\ SomethingToCome
BY DEF Init, Single, SomethingToCome

LEMMA NextSingle ==
  ASSUME IInv, Single, [Next]_vars
  PROVE  Single'
<1> USE DEF Single, world
<1>1. ASSUME NEW s \in Subjects \cup {None}, Change(s) PROVE Single'
  BY <1>1 DEF Change, Restart, Started
<1>2. CASE Resume BY <1>2 DEF Resume, Restart
<1>3. CASE Send
  <2>1. kind = "search" => Ask(FALSE, key, kind = "search").first BY DEF Ask
  <2> QED BY <1>3, <2>1 DEF Send
<1>4. CASE Interval BY <1>4 DEF Interval, Polled
<1>5. ASSUME NEW r \in flight, Serve(r) PROVE Single'
  <2>1. [r EXCEPT !.ans = Reported(r.key)].first = r.first
    BY DEF IInv, TypeOK, Request
  <2> QED BY <1>5, <2>1 DEF Serve
<1>6. ASSUME NEW r \in flight, Arrive(r) PROVE Single'
  BY <1>6 DEF Arrive, Follow, Ask
<1>7. ASSUME NEW r \in flight, PlanArrives(r) PROVE Single'
  BY <1>7 DEF PlanArrives, Follow, Ask
<1>8. ASSUME NEW r \in flight, Fail(r) PROVE Single' BY <1>8 DEF Fail
<1>9. ASSUME NEW r \in flight, PlanFails(r) PROVE Single' BY <1>9 DEF PlanFails
<1>10. ASSUME NEW s \in Subjects, Move(s) PROVE Single' BY <1>10 DEF Move
<1>11. CASE UNCHANGED vars BY <1>11 DEF vars
<1> QED BY <1>1, <1>2, <1>3, <1>4, <1>5, <1>6, <1>7, <1>8, <1>9, <1>10, <1>11 DEF Next

\* The rule takes no request away that is not for a plan.
LEMMA FollowSpares ==
  ASSUME NEW d, NEW p, NEW rest, NEW n, Follow(d, p, rest, n)
  PROVE  \A q \in rest : ~q.plan => q \in flight'
BY DEF Follow

LEMMA NextWaits ==
  ASSUME IInv, Single, SomethingToCome, [Next]_vars
  PROVE  SomethingToCome'
<1> USE DEF SomethingToCome, world
<1>1. ASSUME NEW s \in Subjects \cup {None}, Change(s) PROVE SomethingToCome'
  <2>1. CASE s = None BY <1>1, <2>1 DEF Change
  <2>2. CASE s # None /\ kind = "search" BY <1>1, <2>2 DEF Change, Polled
  <2>3. CASE s # None /\ kind # "search"
    <3>1. Ask(FALSE, s, TRUE) \in flight' BY <1>1, <2>3 DEF Change, Restart, Started
    <3>2. Ask(FALSE, s, TRUE).first /\ ~Ask(FALSE, s, TRUE).plan BY DEF Ask
    <3> QED BY <3>1, <3>2
  <2> QED BY <2>1, <2>2, <2>3
<1>2. CASE Resume
  <2>1. Ask(FALSE, key, TRUE) \in flight' BY <1>2 DEF Resume, Restart, Started
  <2>2. Ask(FALSE, key, TRUE).first /\ ~Ask(FALSE, key, TRUE).plan BY DEF Ask
  <2> QED BY <2>1, <2>2
<1>3. CASE Send
  <2> DEFINE q == Ask(FALSE, key, kind = "search")
  <2>1. q \in flight' /\ flight \subseteq flight' BY <1>3 DEF Send
  <2>2. q.first = (kind = "search") /\ ~q.plan BY DEF Ask
  <2>3. UNCHANGED <<kind, web, key, busy>> BY <1>3 DEF Send
  <2> HIDE DEF q
  <2> QED BY <2>1, <2>2, <2>3
<1>4. CASE Interval BY <1>4 DEF Interval
<1>5. ASSUME NEW r \in flight, Serve(r) PROVE SomethingToCome'
  <2> DEFINE q == [r EXCEPT !.ans = Reported(r.key)]
  <2>1. q.first = r.first /\ q.plan = r.plan BY DEF IInv, TypeOK, Request
  <2>2. flight' = (flight \ {r}) \cup {q} /\ UNCHANGED <<kind, web, key, busy, armed>>
    BY <1>5 DEF Serve
  <2> HIDE DEF q
  <2> QED BY <2>1, <2>2
<1>6. ASSUME NEW r \in flight, Arrive(r) PROVE SomethingToCome'
  <2>1. \A q \in flight \ {r} : ~q.plan => q \in flight' BY <1>6, FollowSpares DEF Arrive
  <2>2. /\ busy' = (busy /\ ~r.first) /\ armed' = (kind \in Polled /\ ~web)
        /\ UNCHANGED <<kind, web, key>>
    BY <1>6 DEF Arrive, Finished
  <2> QED BY <2>1, <2>2 DEF Single
<1>7. ASSUME NEW r \in flight, PlanArrives(r) PROVE SomethingToCome'
  <2>1. \A q \in flight \ {r} : ~q.plan => q \in flight' BY <1>7, FollowSpares DEF PlanArrives
  <2>2. r.plan /\ UNCHANGED <<kind, web, key, busy, armed>> BY <1>7 DEF PlanArrives
  <2> QED BY <2>1, <2>2
<1>8. ASSUME NEW r \in flight, Fail(r) PROVE SomethingToCome'
  <2>1. flight' = flight \ {r} BY <1>8 DEF Fail
  <2>2. /\ busy' = (busy /\ ~r.first) /\ armed' = (kind \in Polled /\ ~web)
        /\ UNCHANGED <<kind, web, key>>
    BY <1>8 DEF Fail, Finished
  <2> QED BY <2>1, <2>2 DEF Single
<1>9. ASSUME NEW r \in flight, PlanFails(r) PROVE SomethingToCome'
  BY <1>9 DEF PlanFails
<1>10. ASSUME NEW s \in Subjects, Move(s) PROVE SomethingToCome' BY <1>10 DEF Move
<1>11. CASE UNCHANGED vars BY <1>11 DEF vars
<1> QED BY <1>1, <1>2, <1>3, <1>4, <1>5, <1>6, <1>7, <1>8, <1>9, <1>10, <1>11 DEF Next

\* SomethingToCome, the safe half of SpinnersEnd: no spinner spins without a timer
\* or a request that will end it, and no mobile panel is left without a next poll.
THEOREM NeverForgotten == Spec => []SomethingToCome
<1>1. Init => IInv /\ Single /\ SomethingToCome BY InitInv, InitWaits
<1>2. IInv /\ Single /\ SomethingToCome /\ [Next]_vars => (Single /\ SomethingToCome)'
  BY NextSingle, NextWaits
<1> QED BY <1>1, <1>2, NextInv, PTL DEF Spec
=============================================================================
