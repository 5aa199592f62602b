----------------------------- MODULE ViewStream -----------------------------
(***************************************************************************)
(* What the live stream promises its client, with no diffs, snapshots or   *)
(* frames in it: the server sends whole views, each the exact answer to    *)
(* the client's subscription over the index of that moment; the client     *)
(* shows them in the order they were made and skips none, until the        *)
(* connection is lost, which loses only what was on its way.               *)
(***************************************************************************)
EXTENDS Sequences

CONSTANTS
  Indexes,         \* what may be published
  Questions,       \* what a client may subscribe to
  NoQuestion,      \* no subscription yet
  Views,           \* what a client may show
  Answer(_, _)     \* Answer(i, q): the view of index i that q asks for

VARIABLES
  index,    \* the published index
  asked,    \* the subscription as the server knows it
  shown,    \* the view the client shows
  pending,  \* the views on their way to it, oldest first
  up        \* whether they are connected

vars == <<index, asked, shown, pending, up>>

Init ==
  /\ index \in Indexes
  /\ asked = NoQuestion
  /\ shown \in Views
  /\ pending = <<>>
  /\ up = FALSE

Publish ==
  /\ index' \in Indexes
  /\ UNCHANGED <<asked, shown, pending, up>>

Join ==
  /\ ~up /\ up'
  /\ UNCHANGED <<index, asked, shown, pending>>

Ask ==
  /\ up
  /\ asked' \in Questions
  /\ UNCHANGED <<index, shown, pending, up>>

Render ==
  /\ up /\ asked # NoQuestion
  /\ pending' = Append(pending, Answer(index, asked))
  /\ UNCHANGED <<index, asked, shown, up>>

Show ==
  /\ up /\ pending # <<>>
  /\ shown' = Head(pending)
  /\ pending' = Tail(pending)
  /\ UNCHANGED <<index, asked, up>>

Lose ==
  /\ up /\ ~up'
  /\ asked' = NoQuestion
  /\ pending' = <<>>
  /\ UNCHANGED <<index, shown>>

Next == Publish \/ Join \/ Ask \/ Render \/ Show \/ Lose

Spec == Init /\ [][Next]_vars
=============================================================================
