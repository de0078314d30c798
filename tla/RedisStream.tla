---------------------------- MODULE RedisStream ----------------------------
(***************************************************************************)
(* One Redis stream with one consumer group, as src/core/redis_bus.py uses *)
(* it: XADD with MAXLEN, XPENDING + XCLAIM of idle entries, XREADGROUP of  *)
(* the reader's own pending entries ("0") and of new ones (">"), XACK.     *)
(*                                                                         *)
(* A stream is a record:                                                   *)
(*   body   the payloads ever added; an entry's identifier is its index    *)
(*   trim   how many of the oldest entries MAXLEN has dropped              *)
(*   next   the identifier last delivered to the group                     *)
(*   pel    identifier -> consumer it is pending for (XACK removes it)     *)
(*   idle   the pending identifiers older than REDIS_PENDING_IDLE_MS       *)
(*                                                                         *)
(* The operators are pure, so that a module with several streams applies   *)
(* them to each.                                                           *)
(***************************************************************************)
EXTENDS Integers, Sequences, FiniteSets

EmptyStream == [body |-> <<>>, trim |-> 0, next |-> 0, pel |-> <<>>, idle |-> {}]

Stored(s)  == (s.trim + 1) .. Len(s.body)
Pending(s) == DOMAIN s.pel

\* A payload some reader of the group can still be given.
Reachable(s, m) ==
  \E i \in Stored(s) : s.body[i] = m /\ (i > s.next \/ i \in Pending(s))

\* A payload one of whose entries MAXLEN dropped.
Trimmed(s, m) == \E i \in 1 .. s.trim : s.body[i] = m

\* The (at most) n lowest identifiers of S, and the order they are read in.
Lowest(S, n) == {i \in S : Cardinality({j \in S : j <= i}) <= n}
Ordered(ids) == {q \in [1 .. Cardinality(ids) -> ids] :
                   \A i, j \in DOMAIN q : i < j => q[i] < q[j]}

\* XADD with an approximate MAXLEN: Redis may trim down to maxlen or later.
AddCuts(s, maxlen) == {s.trim} \cup s.trim .. (Len(s.body) + 1 - maxlen)
Add(s, m, cut) == [s EXCEPT !.body = Append(@, m), !.trim = cut]

\* XPENDING (idle) then XCLAIM; a claimed entry that MAXLEN dropped leaves
\* the pending list without being returned.
Claim(s, c, n) ==
  LET ids == Lowest(s.idle, n)
      own == ids \cap Stored(s)
  IN  [stream |-> [s EXCEPT !.pel  = [i \in (Pending(s) \ ids) \cup own |->
                                        IF i \in own THEN c ELSE s.pel[i]],
                            !.idle = @ \ ids],
       got    |-> own]

\* XREADGROUP 0: the reader's own pending entries, their idle time reset; a
\* dropped one comes back without fields and is skipped, but stays pending.
ReadOwn(s, c, n) ==
  LET ids == Lowest({i \in Pending(s) : s.pel[i] = c}, n)
  IN  [stream |-> [s EXCEPT !.idle = @ \ ids],
       got    |-> ids \cap Stored(s)]

\* XREADGROUP >: the next n entries never delivered to the group, those MAXLEN
\* dropped passed over.
ReadNew(s, c, n) ==
  LET from == IF s.trim > s.next THEN s.trim ELSE s.next
      to   == IF Len(s.body) < from + n THEN Len(s.body) ELSE from + n
      ids  == (from + 1) .. to
  IN  [stream |-> IF ids = {} THEN s ELSE
                  [s EXCEPT !.next = to,
                            !.pel  = [i \in Pending(s) \cup ids |->
                                        IF i \in ids THEN c ELSE s.pel[i]]],
       got    |-> ids]

\* Something the group can give to c; a read that finds nothing changes nothing.
Readable(s, c) ==
  \/ s.idle # {} \/ Len(s.body) > s.next
  \/ \E i \in Pending(s) : s.pel[i] = c /\ i > s.trim

\* get_signals_from_stream: the first of the three reads that yields entries.
ReadGroup(s, c, n) ==
  LET claimed == Claim(s, c, n)
      own     == ReadOwn(claimed.stream, c, n)
  IN  IF claimed.got # {} THEN claimed
      ELSE IF own.got # {} THEN own
      ELSE ReadNew(own.stream, c, n)

\* The stream after a get_signals_from_stream that raised: any of its calls
\* may have been executed by Redis with the reply lost.
FailedReads(s, c, n) == {s, Claim(s, c, n).stream, ReadGroup(s, c, n).stream}

Ack(s, i) ==
  [s EXCEPT !.pel = [j \in Pending(s) \ {i} |-> s.pel[j]], !.idle = @ \ {i}]

\* An entry stays unacknowledged for REDIS_PENDING_IDLE_MS.
Age(s, i) == [s EXCEPT !.idle = @ \cup {i}]
=============================================================================
