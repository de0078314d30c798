----------------------------- MODULE SignalFeed -----------------------------
(***************************************************************************)
(* What the signal path promises, whatever the number of hops: a signal    *)
(* that was published is queued until it has been handled; it may be lost  *)
(* only to the bounded length of a stream; and it is never left queued     *)
(* for ever.                                                               *)
(***************************************************************************)
CONSTANT Events      \* the liquidation events that may raise a signal

VARIABLE stage       \* stage[e]: where the signal of event e is

FeedInit == stage = [e \in Events |-> "none"]

\* The moves of one signal: published, handled, or dropped by the streams'
\* length bound; a dropped one may still come out of a batch read before.
Moves == {<<"none", "queued">>, <<"queued", "handled">>, <<"queued", "trimmed">>,
          <<"trimmed", "queued">>, <<"trimmed", "handled">>}

\* One publication may drop several older signals.
Move(old, new) == \A e \in Events : old[e] = new[e] \/ <<old[e], new[e]>> \in Moves

\* No signal waits for ever: time and again nothing is queued.
Served == []<>(\A e \in Events : stage[e] # "queued")

FeedSafety == FeedInit /\ [][Move(stage, stage')]_stage

FeedSpec == FeedSafety /\ Served
=============================================================================
