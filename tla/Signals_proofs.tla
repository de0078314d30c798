---------------------------- MODULE Signals_proofs ----------------------------
(***************************************************************************)
(* What a user is sent, and what his history stands for, for any events,   *)
(* users, sums, stream lengths, batch sizes and faults.                    *)
(***************************************************************************)
EXTENDS Signals, SequenceTheorems, FiniteSetTheorems, TLAPS

Entries(s) == 1 .. Len(s.body)

StreamOK(s) ==
  /\ DOMAIN s = {"body", "trim", "next", "pel", "idle"} /\ s = [x \in DOMAIN s |-> s[x]]
  /\ s.body \in Seq(Events) /\ s.trim \in 0 .. Len(s.body) /\ s.next \in 0 .. Len(s.body)

\* A process and the stream its batch was read from.
WorkerOK(w, s) ==
  /\ DOMAIN w = {"name", "pc", "batch", "todo", "prep"} /\ w = [x \in DOMAIN w |-> w[x]]
  /\ w.batch \in Seq(Entries(s))
  /\ w.pc \in {"head", "ack", "filter", "remember"} => w.batch # <<>>

History == [sum : Nat, hot : BOOLEAN, of : Events]

Sending == msg.pc \in {"filter", "remember"}

SignalsTypeOK ==
  /\ StreamOK(raw) /\ StreamOK(ready) /\ WorkerOK(art, raw) /\ WorkerOK(msg, ready)
  /\ Sending \/ msg.prep = {}
  /\ sum \in [Events -> Nat \ {0}]
  /\ seen \in [Targets -> SUBSET History]
  /\ sent \in [Targets -> Seq(Events)]

\* Every alert attempted for t is covered by the one entry of his history ...
Covered(t) ==
  /\ \A h, k \in seen[t] : h = k
  /\ \A i \in DOMAIN sent[t] : \E h \in seen[t] : sum[sent[t][i]] <= h.sum

\* ... and what is about to be sent to him has outgrown them all.
Outgrown(t) == \A i \in DOMAIN sent[t] : Grown(sum[Now], sum[sent[t][i]])
Prepared(t) ==
  Sending /\ t \in msg.prep => Outgrown(t) /\ \E h \in seen[t] : h.sum = sum[Now]
Accepted(t) ==
  msg.pc = "remember" /\ Head(msg.todo) = t => Outgrown(t)

Escalates(t) ==
  \A i, j \in DOMAIN sent[t] : i < j => Grown(sum[sent[t][j]], sum[sent[t][i]])

Escalation ==
  \A t \in Targets \ forgot : Escalates(t) /\ Covered(t) /\ Prepared(t) /\ Accepted(t)

SigInv == SignalsTypeOK /\ Escalation /\ HistoryBacked
-----------------------------------------------------------------------------
(* The streams. *)

\* t holds what s holds.
Same(s, t) == StreamOK(t) /\ t.body = s.body

LEMMA AddTyped ==
  ASSUME NEW s, StreamOK(s), NEW m \in Events, NEW n \in Nat, NEW c \in AddCuts(s, n)
  PROVE  /\ StreamOK(Add(s, m, c)) /\ Entries(s) \subseteq Entries(Add(s, m, c))
         /\ \A i \in Entries(s) : Add(s, m, c).body[i] = s.body[i]
  <1> DEFINE t == Add(s, m, c)
  <1>1. t.body = Append(s.body, m) /\ t.trim = c /\ DOMAIN t = DOMAIN s
        /\ t = [x \in DOMAIN t |-> t[x]]
    BY DEF StreamOK, Add
  <1>2. c \in 0 .. Len(s.body) + 1 /\ s.next \in 0 .. Len(s.body) + 1 /\ t.next = s.next
    BY DEF AddCuts, StreamOK, Add
  <1>3. /\ Append(s.body, m) \in Seq(Events) /\ Len(Append(s.body, m)) = Len(s.body) + 1
        /\ \A i \in 1 .. Len(s.body) : Append(s.body, m)[i] = s.body[i]
        /\ Len(s.body) \in Nat
    BY AppendProperties DEF StreamOK
  <1> QED BY <1>1, <1>2, <1>3 DEF StreamOK, Entries

LEMMA ClaimTyped ==
  ASSUME NEW s, StreamOK(s), NEW c, NEW n \in Nat
  PROVE  Same(s, Claim(s, c, n).stream) /\ Claim(s, c, n).got \subseteq Entries(s)
  <1> DEFINE ids == Lowest(s.idle, n)
             own == ids \cap Stored(s)
             pel == [i \in (Pending(s) \ ids) \cup own |-> IF i \in own THEN c ELSE s.pel[i]]
             rest == s.idle \ ids
  <1>1. Claim(s, c, n).stream = [s EXCEPT !.pel = pel, !.idle = rest] /\ Claim(s, c, n).got = own
    BY DEF Claim
  <1>2. own \subseteq Entries(s)
    BY DEF Stored, Entries, StreamOK
  <1> HIDE DEF pel, rest, own
  <1>3. Same(s, [s EXCEPT !.pel = pel, !.idle = rest])
    BY DEF StreamOK, Same
  <1> QED BY <1>1, <1>2, <1>3

LEMMA ReadOwnTyped ==
  ASSUME NEW s, StreamOK(s), NEW c, NEW n \in Nat
  PROVE  Same(s, ReadOwn(s, c, n).stream) /\ ReadOwn(s, c, n).got \subseteq Entries(s)
  <1> DEFINE ids == Lowest({i \in Pending(s) : s.pel[i] = c}, n)
             rest == s.idle \ ids
             own == ids \cap Stored(s)
  <1>1. ReadOwn(s, c, n).stream = [s EXCEPT !.idle = rest] /\ ReadOwn(s, c, n).got = own
    BY DEF ReadOwn
  <1>2. own \subseteq Entries(s)
    BY DEF Stored, Entries, StreamOK
  <1> HIDE DEF rest, own
  <1>3. Same(s, [s EXCEPT !.idle = rest])
    BY DEF StreamOK, Same
  <1> QED BY <1>1, <1>2, <1>3

LEMMA ReadNewTyped ==
  ASSUME NEW s, StreamOK(s), NEW c, NEW n \in Nat
  PROVE  Same(s, ReadNew(s, c, n).stream) /\ ReadNew(s, c, n).got \subseteq Entries(s)
  <1> DEFINE from == IF s.trim > s.next THEN s.trim ELSE s.next
             to   == IF Len(s.body) < from + n THEN Len(s.body) ELSE from + n
             ids  == (from + 1) .. to
             u == [s EXCEPT !.next = to,
                            !.pel  = [i \in Pending(s) \cup ids |-> IF i \in ids THEN c ELSE s.pel[i]]]
  <1>0. Len(s.body) \in Nat /\ from \in 0 .. Len(s.body) /\ to \in 0 .. Len(s.body)
    BY DEF StreamOK
  <1>1. ids \subseteq Entries(s)
    BY <1>0 DEF Entries
  <1>2. ReadNew(s, c, n).got = ids /\ ReadNew(s, c, n).stream \in {s, u}
    BY DEF ReadNew
  <1> HIDE DEF from, to, ids
  <1>3. Same(s, s) /\ Same(s, u)
    BY <1>0 DEF Same, StreamOK
  <1> QED BY <1>1, <1>2, <1>3

LEMMA ReadTyped ==
  ASSUME NEW s, StreamOK(s), NEW c, NEW n \in Nat
  PROVE  Same(s, ReadGroup(s, c, n).stream) /\ ReadGroup(s, c, n).got \subseteq Entries(s)
  <1> DEFINE a == Claim(s, c, n)
             b == ReadOwn(a.stream, c, n)
             d == ReadNew(b.stream, c, n)
  <1>1. Same(s, a.stream) /\ a.got \subseteq Entries(s)
    BY ClaimTyped
  <1>2. Same(a.stream, b.stream) /\ b.got \subseteq Entries(a.stream)
    BY <1>1, ReadOwnTyped DEF Same
  <1>3. Same(b.stream, d.stream) /\ d.got \subseteq Entries(b.stream)
    BY <1>2, ReadNewTyped DEF Same
  <1>4. ReadGroup(s, c, n) \in {a, b, d}
    BY DEF ReadGroup
  <1> HIDE DEF a, b, d
  <1> QED BY <1>1, <1>2, <1>3, <1>4 DEF Same, Entries

LEMMA FailedTyped ==
  ASSUME NEW s, StreamOK(s), NEW c, NEW n \in Nat, NEW t \in FailedReads(s, c, n)
  PROVE  Same(s, t)
  BY ClaimTyped, ReadTyped DEF FailedReads, Same

LEMMA AckTyped ==
  ASSUME NEW s, StreamOK(s), NEW i
  PROVE  Same(s, Ack(s, i)) /\ Same(s, Age(s, i)) /\ Same(s, s)
  BY DEF StreamOK, Same, Ack, Age

LEMMA OrderedTyped ==
  ASSUME NEW s, StreamOK(s), NEW ids \in SUBSET Entries(s), NEW q \in Ordered(ids)
  PROVE  q \in Seq(Entries(s))
  <1>1. Len(s.body) \in Nat
    BY DEF StreamOK
  <1>2. IsFiniteSet(ids)
    <2>1. IsFiniteSet(Entries(s))
      BY <1>1, FS_Interval DEF Entries
    <2> QED BY <2>1, FS_Subset
  <1>3. Cardinality(ids) \in Nat
    BY <1>2, FS_CardinalityType
  <1>4. q \in [1 .. Cardinality(ids) -> Entries(s)]
    BY DEF Ordered
  <1> QED BY <1>3, <1>4, IsASeq

LEMMA FreshTyped ==
  ASSUME NEW s, StreamOK(s), NEW n
  PROVE  /\ WorkerOK(Fresh(n), s) /\ Fresh(n).prep = {} /\ Fresh(n).pc = "fetch"
         /\ WorkerOK([Fresh(n) EXCEPT !.pc = "down"], s)
         /\ [Fresh(n) EXCEPT !.pc = "down"].prep = {} /\ [Fresh(n) EXCEPT !.pc = "down"].pc = "down"
  <1>1. <<>> \in Seq(Entries(s))
    BY EmptySeq
  <1> QED BY <1>1 DEF WorkerOK, Fresh

\* What a worker makes of its batch fits the stream it came from, and a longer one.
LEMMA RestTyped ==
  ASSUME NEW s, NEW w, WorkerOK(w, s), w.batch # <<>>
  PROVE  WorkerOK(Rest(w), s) /\ Rest(w).prep = {} /\ Rest(w).pc \in {"head", "fetch"}
  <1>1. Tail(w.batch) \in Seq(Entries(s)) /\ Len(Tail(w.batch)) = Len(w.batch) - 1
        /\ Len(w.batch) \in Nat
    BY HeadTailProperties, LenProperties DEF WorkerOK
  <1>2. ASSUME Len(w.batch) > 1, Tail(w.batch) = <<>> PROVE FALSE
    <2>1. \A k \in Nat : k > 1 => k - 1 # 0
      OBVIOUS
    <2>2. Len(<<>>) = 0
      OBVIOUS
    <2>3. Len(Tail(w.batch)) = 0
      BY <1>2, <2>2, Zenon
    <2> QED BY <1>1, <1>2, <2>1, <2>3, Zenon
  <1> QED BY <1>1, <1>2 DEF WorkerOK, Rest

LEMMA TookTyped ==
  ASSUME NEW s, NEW w, WorkerOK(w, s), NEW q \in Seq(Entries(s))
  PROVE  WorkerOK(Took(w, q), s) /\ Took(w, q).prep = w.prep /\ Took(w, q).pc \in {"head", "fetch"}
  BY DEF WorkerOK, Took

LEMMA WorkerKept ==
  ASSUME NEW s, NEW t, NEW w, WorkerOK(w, s), Entries(s) \subseteq Entries(t)
  PROVE  WorkerOK(w, t)
  BY DEF WorkerOK

LEMMA NowTyped == ASSUME SignalsTypeOK, Sending PROVE Now \in Events /\ Head(msg.batch) \in Entries(ready)
  <1>1. msg.batch \in Seq(Entries(ready)) /\ msg.batch # <<>>
    BY DEF SignalsTypeOK, WorkerOK, Sending
  <1>2. Head(msg.batch) \in Entries(ready)
    BY <1>1, HeadTailProperties
  <1> QED BY <1>2, ElementOfSeq DEF Now, SignalsTypeOK, StreamOK, Entries
-----------------------------------------------------------------------------
(* The steps. *)

\* Nobody is being sent anything any more, and nothing was left to be sent.
LEMMA IdleKeeps ==
  ASSUME SigInv, UNCHANGED <<seen, sent, sum>>, forgot \subseteq forgot', ~Sending',
         (msg.prep = {} /\ cut' = cut) \/ cut' = TRUE
  PROVE  Escalation' /\ HistoryBacked'
  <1>1. Escalation'
    BY DEF SigInv, Escalation, Escalates, Covered, Prepared, Accepted, Sending
  <1>2. HistoryBacked'
    BY DEF SigInv, HistoryBacked
  <1> QED BY <1>1, <1>2

\* The others' steps.
LEMMA BackgroundKeeps ==
  ASSUME SigInv, UNCHANGED <<seen, sent, sum, msg, forgot, cut>>,
         \A i \in Entries(ready) : ready'.body[i] = ready.body[i]
  PROVE  Escalation' /\ HistoryBacked'
  <1>1. Sending => Now' = Now
    BY NowTyped DEF SigInv, Now
  <1>2. Escalation'
    <2>1. \A t \in Targets \ forgot : Escalates(t)' /\ Covered(t)'
      BY DEF SigInv, Escalation, Escalates, Covered
    <2>2. \A t \in Targets \ forgot : Prepared(t)' /\ Accepted(t)'
      BY <1>1 DEF SigInv, Escalation, Prepared, Accepted, Outgrown, Sending
    <2> QED BY <2>1, <2>2 DEF Escalation
  <1>3. HistoryBacked'
    BY <1>1 DEF SigInv, HistoryBacked, Sending
  <1> QED BY <1>2, <1>3

LEMMA BackgroundStep ==
  ASSUME SigInv, UNCHANGED <<seen, sent, sum, msg, forgot, cut>>,
         StreamOK(raw)', StreamOK(ready)', WorkerOK(art, raw)',
         Entries(ready) \subseteq Entries(ready)',
         \A i \in Entries(ready) : ready'.body[i] = ready.body[i]
  PROVE  SigInv'
  <1>1. WorkerOK(msg, ready)'
    BY DEF SigInv, SignalsTypeOK, WorkerOK
  <1> QED BY <1>1, BackgroundKeeps DEF SigInv, SignalsTypeOK, Sending

LEMMA AnalyzerStep ==
  ASSUME SigInv, NEW e \in Events, ReadBrain(e) \/ PublishRaw(e) \/ RememberBrain(e)
  PROVE  SigInv'
  <1>1. UNCHANGED <<ready, art, seen, sent, sum, msg, forgot, cut>>
    BY DEF ReadBrain, PublishRaw, RememberBrain
  <1>2. raw' = raw \/ \E c \in AddCuts(raw, MaxLen) : raw' = Add(raw, e, c)
    BY DEF ReadBrain, PublishRaw, RememberBrain
  <1>3. StreamOK(raw') /\ Entries(raw) \subseteq Entries(raw')
    BY <1>2, AddTyped, SignalsAssumption DEF SigInv, SignalsTypeOK
  <1>4. WorkerOK(art, raw')
    BY <1>3, WorkerKept DEF SigInv, SignalsTypeOK
  <1> QED BY <1>1, <1>3, <1>4, BackgroundStep DEF SigInv, SignalsTypeOK

LEMMA ArtistFetchStep == ASSUME SigInv, ArtistFetch PROVE SigInv'
  <1>1. UNCHANGED <<ready, seen, sent, sum, msg, forgot, cut>>
    BY DEF ArtistFetch
  <1>2. StreamOK(raw) /\ WorkerOK(art, raw) /\ StreamOK(ready)
    BY DEF SigInv, SignalsTypeOK
  <1>3. CASE \E q \in Ordered(ReadGroup(raw, art.name, Count).got) :
               raw' = ReadGroup(raw, art.name, Count).stream /\ art' = Took(art, q)
    <2>1. PICK q \in Ordered(ReadGroup(raw, art.name, Count).got) :
            raw' = ReadGroup(raw, art.name, Count).stream /\ art' = Took(art, q)
      BY <1>3
    <2>2. Same(raw, raw') /\ q \in Seq(Entries(raw))
      BY <1>2, <2>1, ReadTyped, OrderedTyped, SignalsAssumption
    <2>3. WorkerOK(art', raw)
      BY <1>2, <2>1, <2>2, TookTyped
    <2>4. WorkerOK(art', raw')
      BY <2>2, <2>3, WorkerKept DEF Same, Entries
    <2> QED BY <1>1, <1>2, <2>2, <2>4, BackgroundStep DEF Same
  <1>4. CASE raw' \in FailedReads(raw, art.name, Count) /\ art' = art
    <2>1. Same(raw, raw')
      BY <1>2, <1>4, FailedTyped, SignalsAssumption
    <2>2. WorkerOK(art', raw')
      BY <1>2, <1>4, <2>1, WorkerKept DEF Same, Entries
    <2> QED BY <1>1, <1>2, <2>1, <2>2, BackgroundStep DEF Same
  <1> QED BY <1>3, <1>4 DEF ArtistFetch

LEMMA ArtistForwardStep == ASSUME SigInv, ArtistForward PROVE SigInv'
  <1>1. UNCHANGED <<raw, seen, sent, sum, msg, forgot, cut>> /\ art.pc = "head"
    BY DEF ArtistForward
  <1>2. StreamOK(raw) /\ WorkerOK(art, raw) /\ StreamOK(ready) /\ art.batch # <<>>
    BY <1>1 DEF SigInv, SignalsTypeOK, WorkerOK
  <1>3. Head(art.batch) \in Entries(raw)
    BY <1>2, HeadTailProperties DEF WorkerOK
  <1>4. raw.body[Head(art.batch)] \in Events
    BY <1>2, <1>3, ElementOfSeq DEF StreamOK, Entries
  <1>5. ready' = ready \/ \E c \in AddCuts(ready, MaxLen) :
                             ready' = Add(ready, raw.body[Head(art.batch)], c)
    BY DEF ArtistForward
  <1>6. /\ StreamOK(ready') /\ Entries(ready) \subseteq Entries(ready')
        /\ \A i \in Entries(ready) : ready'.body[i] = ready.body[i]
    BY <1>2, <1>4, <1>5, AddTyped, SignalsAssumption
  <1>7. WorkerOK([art EXCEPT !.pc = "ack"], raw) /\ WorkerOK(Rest(art), raw)
    <2>1. WorkerOK([art EXCEPT !.pc = "ack"], raw)
      BY <1>2 DEF WorkerOK
    <2> QED BY <1>2, <2>1, RestTyped
  <1>8. WorkerOK(art', raw)
    BY <1>7 DEF ArtistForward
  <1> QED BY <1>1, <1>2, <1>6, <1>8, BackgroundStep

LEMMA ArtistElseStep ==
  ASSUME SigInv, ArtistAck \/ ArtistCrash \/ ArtistStart
  PROVE  SigInv'
  <1>1. UNCHANGED <<ready, seen, sent, sum, msg, forgot, cut>>
    BY DEF ArtistAck, ArtistCrash, ArtistStart
  <1>2. StreamOK(raw) /\ WorkerOK(art, raw) /\ StreamOK(ready)
    BY DEF SigInv, SignalsTypeOK
  <1>3. Same(raw, raw')
    BY <1>2, AckTyped DEF ArtistAck, ArtistCrash, ArtistStart
  <1>4. WorkerOK(art', raw)
    <2>1. art.pc = "ack" => art.batch # <<>>
      BY <1>2 DEF WorkerOK
    <2>2. CASE ArtistAck
      BY <1>2, <2>1, <2>2, RestTyped DEF ArtistAck
    <2>3. CASE ArtistCrash \/ ArtistStart
      <3>1. \A n : WorkerOK(Fresh(n), raw) /\ WorkerOK([Fresh(n) EXCEPT !.pc = "down"], raw)
        BY <1>2, FreshTyped
      <3> QED BY <2>3, <3>1 DEF ArtistCrash, ArtistStart
    <2> QED BY <2>2, <2>3
  <1>5. WorkerOK(art', raw')
    BY <1>3, <1>4, WorkerKept DEF Same, Entries
  <1> QED BY <1>1, <1>2, <1>3, <1>5, BackgroundStep DEF Same

LEMMA ClockStep == ASSUME SigInv, BrainCools \/ Ages \/ EmptyPoll PROVE SigInv'
  <1>1. UNCHANGED <<art, seen, sent, sum, msg, forgot, cut>>
    BY DEF BrainCools, Ages, EmptyPoll, sigVars
  <1>2. StreamOK(raw) /\ WorkerOK(art, raw) /\ StreamOK(ready)
    BY DEF SigInv, SignalsTypeOK
  <1>3. Same(raw, raw') /\ Same(ready, ready')
    BY <1>2, AckTyped DEF BrainCools, Ages, EmptyPoll, sigVars
  <1>4. WorkerOK(art', raw')
    BY <1>1, <1>2, <1>3, WorkerKept DEF Same, Entries
  <1> QED BY <1>1, <1>2, <1>3, <1>4, BackgroundStep DEF Same, Entries

-----------------------------------------------------------------------------
(* The messenger. *)

\* A step of the messenger that leaves raw, artist, sums and alerts alone.
LEMMA MessengerTyped ==
  ASSUME SigInv, UNCHANGED <<raw, art, sum>>, Same(ready, ready'), WorkerOK(msg', ready),
         Sending' \/ msg'.prep = {},
         seen' \in [Targets -> SUBSET History], sent' \in [Targets -> Seq(Events)]
  PROVE  SignalsTypeOK'
  <1>1. WorkerOK(msg', ready')
    BY WorkerKept DEF Same, Entries
  <1>2. StreamOK(ready')
    BY DEF Same
  <1> QED BY <1>1, <1>2 DEF SigInv, SignalsTypeOK, Sending

LEMMA MessengerFetchStep == ASSUME SigInv, MessengerFetch PROVE SigInv'
  <1>1. UNCHANGED <<raw, art, seen, sent, sum, forgot, cut>> /\ msg.pc = "fetch"
    BY DEF MessengerFetch
  <1>2. StreamOK(ready) /\ WorkerOK(msg, ready) /\ msg.prep = {}
        /\ seen \in [Targets -> SUBSET History] /\ sent \in [Targets -> Seq(Events)]
    BY <1>1 DEF SigInv, SignalsTypeOK, Sending
  <1>3. Same(ready, ready') /\ WorkerOK(msg', ready) /\ msg'.prep = {}
        /\ msg'.pc \in {"head", "fetch"}
    <2>1. CASE \E q \in Ordered(ReadGroup(ready, msg.name, Count).got) :
                 ready' = ReadGroup(ready, msg.name, Count).stream /\ msg' = Took(msg, q)
      <3>1. PICK q \in Ordered(ReadGroup(ready, msg.name, Count).got) :
              ready' = ReadGroup(ready, msg.name, Count).stream /\ msg' = Took(msg, q)
        BY <2>1
      <3>2. Same(ready, ready') /\ q \in Seq(Entries(ready))
        BY <1>2, <3>1, ReadTyped, OrderedTyped, SignalsAssumption
      <3> QED BY <1>2, <3>1, <3>2, TookTyped
    <2>2. CASE ready' \in FailedReads(ready, msg.name, Count) /\ msg' = msg
      BY <1>1, <1>2, <2>2, FailedTyped, SignalsAssumption
    <2> QED BY <2>1, <2>2 DEF MessengerFetch
  <1>4. ~Sending'
    BY <1>3 DEF Sending
  <1> QED BY <1>1, <1>2, <1>3, <1>4, MessengerTyped, IdleKeeps DEF SigInv

\* The messenger is through with the head of its batch, or dies.
LEMMA MessengerEndsStep ==
  ASSUME SigInv, MessengerAck \/ MessengerCrash \/ MessengerStart \/
                 (MessengerBegin /\ msg' = Rest(msg))
  PROVE  SigInv'
  <1>1. UNCHANGED <<raw, art, seen, sent, sum, forgot>>
    BY DEF MessengerAck, MessengerCrash, MessengerStart, MessengerBegin
  <1>2. StreamOK(ready) /\ WorkerOK(msg, ready) /\ (Sending \/ msg.prep = {})
        /\ seen \in [Targets -> SUBSET History] /\ sent \in [Targets -> Seq(Events)]
    BY <1>1 DEF SigInv, SignalsTypeOK
  <1>3. Same(ready, ready')
    <2>1. ready' = ready \/ ready' = Ack(ready, Head(msg.batch))
      BY DEF MessengerAck, MessengerCrash, MessengerStart, MessengerBegin
    <2> QED BY <1>2, <2>1, AckTyped
  <1>4. WorkerOK(msg', ready) /\ msg'.prep = {} /\ msg'.pc \in {"head", "fetch", "down"}
    <2>1. msg.pc \in {"head", "filter"} => msg.batch # <<>>
      BY <1>2 DEF WorkerOK
    <2>2. CASE MessengerAck \/ (MessengerBegin /\ msg' = Rest(msg))
      BY <1>2, <2>1, <2>2, RestTyped DEF MessengerAck, MessengerBegin
    <2>3. CASE MessengerCrash \/ MessengerStart
      <3>1. \A n : /\ WorkerOK(Fresh(n), ready) /\ Fresh(n).prep = {} /\ Fresh(n).pc = "fetch"
                   /\ WorkerOK([Fresh(n) EXCEPT !.pc = "down"], ready)
                   /\ [Fresh(n) EXCEPT !.pc = "down"].prep = {}
                   /\ [Fresh(n) EXCEPT !.pc = "down"].pc = "down"
        BY <1>2, FreshTyped
      <3> QED BY <2>3, <3>1 DEF MessengerCrash, MessengerStart
    <2> QED BY <2>2, <2>3
  <1>5. ~Sending'
    BY <1>4 DEF Sending
  <1>6. (msg.prep = {} /\ cut' = cut) \/ cut' = TRUE
    BY <1>2 DEF MessengerAck, MessengerCrash, MessengerStart, MessengerBegin, Sending
  <1> QED BY <1>1, <1>2, <1>3, <1>4, <1>5, <1>6, MessengerTyped, IdleKeeps DEF SigInv

LEMMA MessengerBeginStep == ASSUME SigInv, MessengerBegin PROVE SigInv'
  <1>1. CASE msg' = Rest(msg)
    BY <1>1, MessengerEndsStep
  <1>2. CASE msg' = [msg EXCEPT !.pc = "filter", !.todo = TargetSeq]
    <2>1. UNCHANGED <<raw, ready, art, seen, sent, sum, forgot, cut>> /\ msg.pc = "head"
      BY DEF MessengerBegin
    <2>2. StreamOK(ready) /\ WorkerOK(msg, ready) /\ msg.prep = {}
          /\ seen \in [Targets -> SUBSET History] /\ sent \in [Targets -> Seq(Events)]
      BY <2>1 DEF SigInv, SignalsTypeOK, Sending
    <2>3. WorkerOK(msg', ready) /\ msg'.prep = {} /\ msg'.pc = "filter"
      BY <1>2, <2>1, <2>2 DEF WorkerOK
    <2>4. Same(ready, ready')
      BY <2>1, <2>2, AckTyped
    <2>5. SignalsTypeOK'
      BY <2>1, <2>2, <2>3, <2>4, MessengerTyped
    <2>6. Escalation'
      BY <2>1, <2>3 DEF SigInv, Escalation, Escalates, Covered, Prepared, Accepted
    <2>7. HistoryBacked'
      BY <2>1, <2>2 DEF SigInv, HistoryBacked
    <2> QED BY <2>5, <2>6, <2>7 DEF SigInv
  <1> QED BY <1>1, <1>2 DEF MessengerBegin

\* What stays so while the messenger works on one signal.
LEMMA WorkingOn ==
  ASSUME SigInv, Sending, UNCHANGED ready, msg'.batch = msg.batch
  PROVE  Now' = Now /\ Now \in Events
  BY NowTyped DEF SigInv, Now

\* 2a >= 3b says more than a >= b.
LEMMA GrownIsMore ==
  ASSUME NEW a \in Nat \ {0}, NEW b \in Nat, NEW c \in Nat, Grown(a, b), c <= b
  PROVE  c <= a /\ Grown(a, c)
  BY DEF Grown

LEMMA SumsTyped ==
  ASSUME SigInv
  PROVE  /\ \A e \in Events : sum[e] \in Nat \ {0}
         /\ \A t \in Targets : \A i \in DOMAIN sent[t] : sent[t][i] \in Events
         /\ \A t \in Targets : \A h \in seen[t] : h.sum \in Nat
  <1>1. \A t \in Targets : \A i \in DOMAIN sent[t] : sent[t][i] \in Events
    BY ElementOfSeq DEF SigInv, SignalsTypeOK
  <1> QED BY <1>1 DEF SigInv, SignalsTypeOK, History

LEMMA ReadSeenStep == ASSUME SigInv, ReadSeen PROVE SigInv'
  <1> DEFINE u == Head(msg.todo)
  <1>1. /\ UNCHANGED <<raw, ready, art, seen, sent, sum, cut>> /\ msg.pc = "filter"
        /\ forgot \subseteq forgot' /\ Sending
    BY DEF ReadSeen, Sending
  <1>2. StreamOK(ready) /\ WorkerOK(msg, ready)
        /\ seen \in [Targets -> SUBSET History] /\ sent \in [Targets -> Seq(Events)]
    BY DEF SigInv, SignalsTypeOK
  <1>3. \/ msg' = [msg EXCEPT !.todo = Tail(@)]
        \/ /\ msg' = [msg EXCEPT !.pc = "remember"]
           /\ ~Spammy(seen[u], sum[Now]) \/ u \in forgot'
    BY DEF ReadSeen
  <1>4. /\ msg'.prep = msg.prep /\ msg'.batch = msg.batch /\ WorkerOK(msg', ready)
        /\ msg'.pc = "filter" \/ (msg'.pc = "remember" /\ msg'.todo = msg.todo)
    BY <1>1, <1>2, <1>3 DEF WorkerOK
  <1>5. Sending' /\ Same(ready, ready')
    BY <1>1, <1>2, <1>4, AckTyped DEF Sending
  <1>6. Now' = Now /\ Now \in Events
    BY <1>1, <1>4, WorkingOn
  <1>7. SignalsTypeOK'
    BY <1>1, <1>2, <1>4, <1>5, MessengerTyped
  <1>8. ASSUME NEW t \in Targets \ forgot', msg'.pc = "remember", Head(msg'.todo) = t
        PROVE  Outgrown(t)
    <2>1. msg' = [msg EXCEPT !.pc = "remember"] /\ t = u
      BY <1>1, <1>2, <1>3, <1>4, <1>8 DEF WorkerOK
    <2>2. \A h \in seen[t] : Grown(sum[Now], h.sum)
      <3>1. ~Spammy(seen[u], sum[Now])
        BY <1>1, <1>2, <1>3, <1>8, <2>1 DEF WorkerOK
      <3> QED BY <2>1, <3>1 DEF Spammy
    <2>3. \A i \in DOMAIN sent[t] : \E h \in seen[t] : sum[sent[t][i]] <= h.sum
      BY <1>1 DEF SigInv, Escalation, Covered
    <2> QED BY <1>6, <2>2, <2>3, SumsTyped, GrownIsMore DEF Outgrown
  <1>9. Escalation'
    <2> SUFFICES ASSUME NEW t \in Targets \ forgot'
                 PROVE  Escalates(t)' /\ Covered(t)' /\ Prepared(t)' /\ Accepted(t)'
      BY DEF Escalation
    <2>1. Escalates(t) /\ Covered(t) /\ Prepared(t)
      BY <1>1 DEF SigInv, Escalation
    <2>2. Escalates(t)' /\ Covered(t)'
      BY <1>1, <2>1 DEF Escalates, Covered
    <2>3. Prepared(t)'
      BY <1>1, <1>4, <1>6, <2>1 DEF Prepared, Outgrown
    <2>4. Accepted(t)'
      BY <1>1, <1>6, <1>8 DEF Accepted, Outgrown
    <2> QED BY <2>2, <2>3, <2>4
  <1>10. HistoryBacked'
    BY <1>1, <1>4, <1>6 DEF SigInv, HistoryBacked
  <1> QED BY <1>7, <1>9, <1>10 DEF SigInv

LEMMA RememberSeenStep == ASSUME SigInv, RememberSeen PROVE SigInv'
  <1> DEFINE u == Head(msg.todo)
             new == [sum |-> sum[Now], hot |-> TRUE, of |-> Now]
  <1>1. /\ UNCHANGED <<raw, ready, art, sent, sum, cut>> /\ msg.pc = "remember" /\ Sending
        /\ forgot \subseteq forgot'
    BY DEF RememberSeen, Sending
  <1>2. StreamOK(ready) /\ WorkerOK(msg, ready)
        /\ seen \in [Targets -> SUBSET History] /\ sent \in [Targets -> Seq(Events)]
    BY DEF SigInv, SignalsTypeOK
  <1>3. seen' = [seen EXCEPT ![u] = {new}] \/ (seen' = seen /\ u \in forgot')
    BY DEF RememberSeen
  <1>4. /\ \/ msg' = [msg EXCEPT !.pc = "filter", !.todo = Tail(@), !.prep = @ \cup {u}]
           \/ msg' = [msg EXCEPT !.pc = "filter", !.todo = Tail(@), !.prep = @] /\ u \notin Vip
    BY DEF RememberSeen
  <1>5. /\ msg'.batch = msg.batch /\ msg'.pc = "filter" /\ WorkerOK(msg', ready)
        /\ msg.prep \subseteq msg'.prep /\ msg'.prep \subseteq msg.prep \cup {u}
        /\ u \in Vip => u \in msg'.prep
    <2>1. msg.batch # <<>>
      BY <1>1, <1>2 DEF WorkerOK
    <2> QED BY <1>2, <1>4, <2>1 DEF WorkerOK
  <1>6. Now' = Now /\ Now \in Events /\ Sending' /\ Same(ready, ready')
    BY <1>1, <1>2, <1>5, WorkingOn, AckTyped DEF Sending
  <1>7. new \in History /\ new.sum = sum[Now] /\ new.of = Now
    BY <1>6, SumsTyped DEF History
  <1> HIDE DEF u, new
  <1>8. seen' \in [Targets -> SUBSET History]
    BY <1>2, <1>3, <1>7
  <1>9. \A t \in Targets \ {u} : seen'[t] = seen[t]
    BY <1>2, <1>3
  <1>10. u \in Targets /\ u \notin forgot' => seen'[u] = {new}
    BY <1>2, <1>3
  <1>11. SignalsTypeOK'
    BY <1>1, <1>2, <1>5, <1>6, <1>8, MessengerTyped
  <1>12. Escalation'
    <2> SUFFICES ASSUME NEW t \in Targets \ forgot'
                 PROVE  Escalates(t)' /\ Covered(t)' /\ Prepared(t)' /\ Accepted(t)'
      BY DEF Escalation
    <2>1. Escalates(t) /\ Covered(t) /\ Prepared(t) /\ Accepted(t)
      BY <1>1 DEF SigInv, Escalation
    <2>2. Escalates(t)' /\ Accepted(t)'
      BY <1>1, <1>5, <2>1 DEF Escalates, Accepted
    <2>3. CASE t # u
      <3>1. Covered(t)'
        BY <1>1, <1>9, <2>1, <2>3 DEF Covered
      <3>2. Prepared(t)'
        BY <1>1, <1>5, <1>6, <1>9, <2>1, <2>3 DEF Prepared, Outgrown
      <3> QED BY <2>2, <3>1, <3>2
    <2>4. CASE t = u
      <3>1. Outgrown(t) /\ seen'[t] = {new}
        BY <1>1, <1>10, <2>1, <2>4 DEF Accepted, u
      <3>2. \A i \in DOMAIN sent[t] : sum[sent[t][i]] <= sum[Now]
        BY <1>6, <3>1, SumsTyped, GrownIsMore DEF Outgrown
      <3>3. Covered(t)'
        BY <1>1, <1>7, <3>1, <3>2 DEF Covered
      <3>4. Prepared(t)'
        BY <1>1, <1>6, <1>7, <3>1 DEF Prepared, Outgrown
      <3> QED BY <2>2, <3>3, <3>4
    <2> QED BY <2>3, <2>4
  <1>13. HistoryBacked'
    <2> SUFFICES ASSUME NEW t \in Vip, NEW h \in seen'[t], ~cut
                 PROVE  \/ \E i \in DOMAIN sent[t] : sent[t][i] = h.of
                        \/ t \in msg'.prep /\ Now = h.of
      BY <1>1, <1>5, <1>6 DEF HistoryBacked
    <2>1. CASE h \in seen[t]
      BY <1>1, <1>5, <2>1 DEF SigInv, HistoryBacked
    <2>2. CASE h \notin seen[t]
      <3>1. t \in Targets
        BY SignalsAssumption
      <3>2. t = u /\ h = new
        BY <1>2, <1>3, <1>9, <2>2, <3>1
      <3> QED BY <1>5, <1>7, <3>2
    <2> QED BY <2>1, <2>2
  <1> QED BY <1>11, <1>12, <1>13 DEF SigInv

LEMMA DispatchStep == ASSUME SigInv, NEW u \in Targets, Dispatch(u) PROVE SigInv'
  <1> DEFINE n == Len(sent[u]) + 1
  <1>1. /\ UNCHANGED <<raw, ready, art, seen, sum, cut, forgot>> /\ msg.pc = "filter" /\ Sending
        /\ u \in msg.prep
        /\ sent' = [sent EXCEPT ![u] = Append(sent[u], Now)]
        /\ msg' = [msg EXCEPT !.prep = msg.prep \ {u}]
    BY DEF Dispatch, Sending
  <1>2. StreamOK(ready) /\ WorkerOK(msg, ready)
        /\ seen \in [Targets -> SUBSET History] /\ sent \in [Targets -> Seq(Events)]
    BY DEF SigInv, SignalsTypeOK
  <1>3. /\ msg'.batch = msg.batch /\ msg'.pc = "filter" /\ WorkerOK(msg', ready)
        /\ msg'.prep = msg.prep \ {u}
    BY <1>1, <1>2 DEF WorkerOK
  <1>4. Now' = Now /\ Now \in Events /\ Sending' /\ Same(ready, ready')
    BY <1>1, <1>2, <1>3, WorkingOn, AckTyped DEF Sending
  <1>5. /\ sent' \in [Targets -> Seq(Events)] /\ sent'[u] = Append(sent[u], Now)
        /\ \A t \in Targets \ {u} : sent'[t] = sent[t]
    BY <1>1, <1>2, <1>4, AppendProperties
  <1>6. /\ sent'[u] \in Seq(Events) /\ Len(sent'[u]) = n
        /\ \A i \in 1 .. Len(sent[u]) : sent'[u][i] = sent[u][i]
        /\ sent'[u][n] = Now /\ Len(sent[u]) \in Nat
    BY <1>2, <1>4, <1>5, AppendProperties
  <1>7. /\ DOMAIN sent[u] = 1 .. Len(sent[u]) /\ DOMAIN sent'[u] = 1 .. n
    BY <1>2, <1>6
  <1>8. SignalsTypeOK'
    BY <1>1, <1>2, <1>3, <1>4, <1>5, MessengerTyped
  <1>9. ASSUME u \notin forgot
        PROVE  Escalates(u)' /\ Covered(u)'
    <2>1. Escalates(u) /\ Covered(u) /\ Outgrown(u) /\ \E h \in seen[u] : h.sum = sum[Now]
      BY <1>1, <1>9 DEF SigInv, Escalation, Prepared
    <2>2. Escalates(u)'
      <3> SUFFICES ASSUME NEW i \in 1 .. n, NEW j \in 1 .. n, i < j
                   PROVE  Grown(sum[sent'[u][j]], sum[sent'[u][i]])
        BY <1>1, <1>7 DEF Escalates
      <3>1. i \in 1 .. Len(sent[u])
        BY <1>6
      <3>2. CASE j = n
        BY <1>6, <1>7, <2>1, <3>1, <3>2 DEF Outgrown
      <3>3. CASE j # n
        <4>1. j \in 1 .. Len(sent[u])
          BY <1>6, <3>3
        <4> QED BY <1>6, <1>7, <2>1, <3>1, <4>1 DEF Escalates
      <3> QED BY <3>2, <3>3
    <2>3. Covered(u)'
      <3> SUFFICES ASSUME NEW i \in 1 .. n
                   PROVE  \E h \in seen[u] : sum[sent'[u][i]] <= h.sum
        BY <1>1, <1>7, <2>1 DEF Covered
      <3>1. CASE i = n
        <4>1. sum[Now] \in Nat
          BY <1>4, SumsTyped
        <4> QED BY <1>6, <2>1, <3>1, <4>1
      <3>2. CASE i # n
        <4>1. i \in 1 .. Len(sent[u])
          BY <1>6, <3>2
        <4> QED BY <1>6, <1>7, <2>1, <4>1 DEF Covered
      <3> QED BY <3>1, <3>2
    <2> QED BY <2>2, <2>3
  <1>10. Escalation'
    <2> SUFFICES ASSUME NEW t \in Targets \ forgot'
                 PROVE  Escalates(t)' /\ Covered(t)' /\ Prepared(t)' /\ Accepted(t)'
      BY DEF Escalation
    <2>1. CASE t = u
      <3>1. Prepared(t)' /\ Accepted(t)'
        BY <1>3, <2>1 DEF Prepared, Accepted
      <3> QED BY <1>1, <1>9, <2>1, <3>1
    <2>2. CASE t # u
      BY <1>1, <1>3, <1>4, <1>5, <2>2
      DEF SigInv, Escalation, Escalates, Covered, Prepared, Accepted, Outgrown
    <2> QED BY <2>1, <2>2
  <1>11. HistoryBacked'
    <2> SUFFICES ASSUME NEW t \in Vip, NEW h \in seen[t], ~cut
                 PROVE  \/ \E i \in DOMAIN sent'[t] : sent'[t][i] = h.of
                        \/ t \in msg'.prep /\ Now = h.of
      BY <1>1, <1>3, <1>4 DEF HistoryBacked
    <2>1. t \in Targets
      BY SignalsAssumption
    <2>2. (\E i \in DOMAIN sent[t] : sent[t][i] = h.of) \/ (t \in msg.prep /\ Now = h.of)
      BY DEF SigInv, HistoryBacked
    <2>3. CASE t # u
      BY <1>3, <1>5, <2>1, <2>2, <2>3
    <2>4. CASE t = u
      <3>1. n \in DOMAIN sent'[u] /\ DOMAIN sent[u] \subseteq DOMAIN sent'[u]
        BY <1>6, <1>7
      <3> QED BY <1>6, <1>7, <2>2, <2>4, <3>1
    <2> QED BY <2>3, <2>4
  <1> QED BY <1>8, <1>10, <1>11 DEF SigInv

LEMMA SeenCoolsStep == ASSUME SigInv, NEW u \in Targets, SeenCools(u) PROVE SigInv'
  <1>1. /\ UNCHANGED <<raw, ready, art, msg, sent, sum, forgot, cut>>
        /\ seen' = [seen EXCEPT ![u] = Cool(seen[u])]
    BY DEF SeenCools
  <1>2. seen \in [Targets -> SUBSET History]
    BY DEF SigInv, SignalsTypeOK
  <1>3. /\ \A h \in seen[u] : \E k \in Cool(seen[u]) : k.sum = h.sum /\ k.of = h.of
        /\ \A k \in Cool(seen[u]) : \E h \in seen[u] : k = [h EXCEPT !.hot = FALSE]
    <2>1. \A h \in seen[u] : [h EXCEPT !.hot = FALSE] \in Cool(seen[u])
      BY DEF Cool
    <2>2. \A h \in seen[u] : /\ [h EXCEPT !.hot = FALSE].sum = h.sum
                            /\ [h EXCEPT !.hot = FALSE].of = h.of
      BY <1>2 DEF History
    <2>3. \A k \in Cool(seen[u]) : \E h \in seen[u] : k = [h EXCEPT !.hot = FALSE]
      BY DEF Cool
    <2> QED BY <2>1, <2>2, <2>3
  <1>4. \A h \in History : [h EXCEPT !.hot = FALSE] \in History
                            /\ [h EXCEPT !.hot = FALSE].of = h.of
    BY DEF History
  <1>5. Cool(seen[u]) \in SUBSET History
    BY <1>2, <1>3, <1>4
  <1>6. SignalsTypeOK'
    BY <1>1, <1>2, <1>5 DEF SigInv, SignalsTypeOK, Sending
  <1>7. seen'[u] = Cool(seen[u]) /\ \A t \in Targets \ {u} : seen'[t] = seen[t]
    BY <1>1, <1>2
  <1>8. Now' = Now
    BY <1>1 DEF Now
  <1>9. Escalation'
    <2> SUFFICES ASSUME NEW t \in Targets \ forgot'
                 PROVE  Escalates(t)' /\ Covered(t)' /\ Prepared(t)' /\ Accepted(t)'
      BY DEF Escalation
    <2>1. Escalates(t) /\ Covered(t) /\ Prepared(t) /\ Accepted(t)
      BY <1>1 DEF SigInv, Escalation
    <2>2. /\ \A h, k \in seen'[t] : h = k
          /\ \A h \in seen[t] : \E k \in seen'[t] : k.sum = h.sum
      <3>1. \A h, k \in seen[t] : h = k
        BY <2>1 DEF Covered
      <3>2. CASE t = u
        <4>1. \A h, k \in Cool(seen[u]) : h = k
          BY <1>3, <3>1, <3>2
        <4>2. \A h \in seen[u] : \E k \in Cool(seen[u]) : k.sum = h.sum
          BY <1>3
        <4> QED BY <1>7, <3>2, <4>1, <4>2
      <3>3. CASE t # u
        BY <1>7, <3>1, <3>3
      <3> QED BY <3>2, <3>3
    <2>3. Escalates(t)' /\ Accepted(t)'
      BY <1>1, <1>8, <2>1 DEF Escalates, Accepted, Outgrown
    <2>4. Covered(t)'
      BY <1>1, <2>1, <2>2 DEF Covered
    <2>5. Prepared(t)'
      BY <1>1, <1>8, <2>1, <2>2 DEF Prepared, Outgrown, Sending
    <2> QED BY <2>3, <2>4, <2>5
  <1>10. HistoryBacked'
    <2> SUFFICES ASSUME NEW t \in Vip, NEW k \in seen'[t], ~cut
                 PROVE  \/ \E i \in DOMAIN sent[t] : sent[t][i] = k.of
                        \/ Sending /\ t \in msg.prep /\ Now = k.of
      BY <1>1, <1>8 DEF HistoryBacked, Sending
    <2>1. t \in Targets
      BY SignalsAssumption
    <2>2. \E h \in seen[t] : k.of = h.of
      <3>1. CASE t = u
        <4>1. PICK h \in seen[u] : k = [h EXCEPT !.hot = FALSE]
          BY <1>3, <1>7, <3>1
        <4>2. h \in History
          BY <1>2
        <4> QED BY <1>4, <3>1, <4>1, <4>2
      <3>2. CASE t # u
        BY <1>7, <2>1, <3>2
      <3> QED BY <3>1, <3>2
    <2> QED BY <2>2 DEF SigInv, HistoryBacked, Sending
  <1> QED BY <1>6, <1>9, <1>10 DEF SigInv

-----------------------------------------------------------------------------
LEMMA SigInit == SignalsInit => SigInv
  <1> SUFFICES ASSUME SignalsInit PROVE SigInv
    OBVIOUS
  <1>1. StreamOK(EmptyStream)
    BY EmptySeq DEF StreamOK, EmptyStream
  <1>2. PICK n \in Names : art = Fresh(n) /\ msg = Fresh(n)
    BY DEF SignalsInit
  <1>3. StreamOK(raw) /\ StreamOK(ready) /\ WorkerOK(art, raw) /\ WorkerOK(msg, ready)
        /\ msg.prep = {} /\ ~Sending
    BY <1>1, <1>2, FreshTyped DEF SignalsInit, Sending
  <1>4. sum \in [Events -> Nat \ {0}] /\ seen \in [Targets -> SUBSET History]
    BY SignalsAssumption DEF SignalsInit
  <1>5. sent \in [Targets -> Seq(Events)] /\ \A t \in Targets : DOMAIN sent[t] = {}
    BY EmptySeq DEF SignalsInit
  <1>6. SignalsTypeOK
    BY <1>3, <1>4, <1>5 DEF SignalsTypeOK
  <1>7. \A t \in Targets : seen[t] = {}
    BY DEF SignalsInit
  <1>8. Escalation
    BY <1>3, <1>5, <1>7 DEF Escalation, Escalates, Covered, Prepared, Accepted, Sending
  <1>9. HistoryBacked
    BY <1>7, SignalsAssumption DEF HistoryBacked
  <1> QED BY <1>6, <1>8, <1>9 DEF SigInv

LEMMA SigStep == SigInv /\ [SignalsNext]_sigVars => SigInv'
  <1> SUFFICES ASSUME SigInv, [SignalsNext]_sigVars PROVE SigInv'
    OBVIOUS
  <1>1. CASE UNCHANGED sigVars
    <2>1. UNCHANGED <<raw, ready, art, seen, sent, sum, msg, forgot, cut>>
      BY <1>1 DEF sigVars
    <2> QED BY <2>1, BackgroundStep DEF SigInv, SignalsTypeOK
  <1>2. CASE Analyzer
    BY <1>2, AnalyzerStep DEF Analyzer
  <1>3. CASE Artist \/ ArtistCrash
    BY <1>3, ArtistFetchStep, ArtistForwardStep, ArtistElseStep DEF Artist
  <1>4. CASE Messenger \/ MessengerCrash
    BY <1>4, MessengerFetchStep, MessengerBeginStep, ReadSeenStep, RememberSeenStep, DispatchStep,
       MessengerEndsStep DEF Messenger
  <1>5. CASE Clock
    BY <1>5, ClockStep, SeenCoolsStep DEF Clock
  <1> QED BY <1>1, <1>2, <1>3, <1>4, <1>5 DEF SignalsNext

LEMMA SigHolds == SignalsSpec => []SigInv
  BY SigInit, SigStep, PTL DEF SignalsSpec

\* Each alert sent to a user reports a sum half as large again as all before,
\* as long as his key was not lost: no signal twice, whatever is redelivered.
THEOREM AlertsGrow == SignalsSpec => []AlertsEscalate
  <1>1. SigInv => AlertsEscalate
    BY DEF SigInv, Escalation, Escalates, AlertsEscalate
  <1> QED BY <1>1, SigHolds, PTL

\* No subscriber's key stands for an alert that is not sent, unless the
\* messenger died in between.
THEOREM HistoryIsBacked == SignalsSpec => []HistoryBacked
  <1>1. SigInv => HistoryBacked
    BY DEF SigInv
  <1> QED BY <1>1, SigHolds, PTL
-----------------------------------------------------------------------------
(* The refinement: where a published signal is at every moment. *)

Bodies(s) == {s.body[i] : i \in Entries(s)}

\* What was delivered from s is pending, dropped, or has come to D.
Settled(s, D) == \A i \in 1 .. s.next : i <= s.trim \/ i \in Pending(s) \/ s.body[i] \in D

\* The raw stream's signals go over to the ready stream, whose go over to
\* handled, and none is acknowledged before it has.
FeedInv ==
  /\ Settled(raw, Bodies(ready)) /\ Settled(ready, handled)
  /\ handled \subseteq Bodies(ready) /\ Bodies(ready) \subseteq Bodies(raw)
  /\ art.pc = "ack" => raw.body[Head(art.batch)] \in Bodies(ready)

\* t is s after reads: more may be delivered, and what is no longer pending was
\* dropped.
Read(s, t) ==
  /\ Same(s, t) /\ t.trim = s.trim
  /\ \A i \in 1 .. t.next : i <= s.trim \/ i \in Pending(t) \/ (i <= s.next /\ i \notin Pending(s))

LEMMA ReadSettles ==
  ASSUME NEW s, NEW t, NEW D, StreamOK(s), Read(s, t), Settled(s, D)
  PROVE  Settled(t, D) /\ Bodies(t) = Bodies(s)
  BY DEF Read, Same, Settled, Bodies, Entries, StreamOK

LEMMA ReadTwice ==
  ASSUME NEW s, NEW t, NEW u, StreamOK(s), Read(s, t), Read(t, u)
  PROVE  Read(s, u)
  BY DEF Read, Same, StreamOK

LEMMA ClaimReads ==
  ASSUME NEW s, StreamOK(s), NEW c, NEW n \in Nat PROVE Read(s, Claim(s, c, n).stream)
  <1> DEFINE ids == Lowest(s.idle, n)
             own == ids \cap Stored(s)
             pel == [i \in (Pending(s) \ ids) \cup own |-> IF i \in own THEN c ELSE s.pel[i]]
             rest == s.idle \ ids
             t == [s EXCEPT !.pel = pel, !.idle = rest]
  <1>1. Claim(s, c, n).stream = t
    BY DEF Claim
  <1>2. DOMAIN pel = (Pending(s) \ ids) \cup own
    OBVIOUS
  <1>3. \A i \in 1 .. s.next : i <= s.trim \/ i \in DOMAIN pel \/ i \notin Pending(s)
    BY <1>2 DEF Stored, StreamOK
  <1> HIDE DEF pel, rest
  <1>4. t.pel = pel /\ t.trim = s.trim /\ t.next = s.next
    BY DEF StreamOK
  <1>5. Same(s, t)
    BY <1>1, ClaimTyped
  <1> HIDE DEF t
  <1> QED BY <1>1, <1>3, <1>4, <1>5 DEF Read, Pending, StreamOK

LEMMA ReadOwnReads ==
  ASSUME NEW s, StreamOK(s), NEW c, NEW n \in Nat PROVE Read(s, ReadOwn(s, c, n).stream)
  <1> DEFINE rest == s.idle \ Lowest({i \in Pending(s) : s.pel[i] = c}, n)
             t == [s EXCEPT !.idle = rest]
  <1>1. ReadOwn(s, c, n).stream = t
    BY DEF ReadOwn
  <1> HIDE DEF rest
  <1>2. t.pel = s.pel /\ t.trim = s.trim /\ t.next = s.next
    BY DEF StreamOK
  <1>3. Same(s, t)
    BY <1>1, ReadOwnTyped
  <1> HIDE DEF t
  <1> QED BY <1>1, <1>2, <1>3 DEF Read, Pending, StreamOK

LEMMA ReadNewReads ==
  ASSUME NEW s, StreamOK(s), NEW c, NEW n \in Nat PROVE Read(s, ReadNew(s, c, n).stream)
  <1> DEFINE from == IF s.trim > s.next THEN s.trim ELSE s.next
             to   == IF Len(s.body) < from + n THEN Len(s.body) ELSE from + n
             ids  == (from + 1) .. to
             pel  == [i \in Pending(s) \cup ids |-> IF i \in ids THEN c ELSE s.pel[i]]
             t    == [s EXCEPT !.next = to, !.pel = pel]
  <1>1. ReadNew(s, c, n).stream = IF ids = {} THEN s ELSE t
    BY DEF ReadNew
  <1>2. Same(s, ReadNew(s, c, n).stream) /\ Same(s, s)
    BY ReadNewTyped, AckTyped
  <1>3. CASE ids = {}
    <2>1. ReadNew(s, c, n).stream = s
      BY <1>1, <1>3
    <2>2. Read(s, s)
      BY <1>2 DEF Read, StreamOK
    <2> QED BY <2>1, <2>2
  <1>4. CASE ids # {}
    <2>1. DOMAIN pel = Pending(s) \cup ids
      OBVIOUS
    <2>2. s.next \in Nat /\ s.trim \in Nat /\ to \in Nat
      BY DEF StreamOK
    <2>3. \A i \in 1 .. to : i <= s.trim \/ i \in DOMAIN pel \/ (i <= s.next /\ i \notin Pending(s))
      BY <2>1, <2>2
    <2> HIDE DEF pel, from, to
    <2>4. t.pel = pel /\ t.trim = s.trim /\ t.next = to
      BY DEF StreamOK
    <2>5. ReadNew(s, c, n).stream = t
      BY <1>1, <1>4
    <2> HIDE DEF t
    <2> QED BY <1>2, <2>3, <2>4, <2>5 DEF Read, Pending
  <1> QED BY <1>3, <1>4

LEMMA ReadGroupReads ==
  ASSUME NEW s, StreamOK(s), NEW c, NEW n \in Nat
  PROVE  Read(s, ReadGroup(s, c, n).stream) /\ \A t \in FailedReads(s, c, n) : Read(s, t)
  <1> DEFINE a == Claim(s, c, n)
             b == ReadOwn(a.stream, c, n)
             d == ReadNew(b.stream, c, n)
  <1>1. Read(s, a.stream) /\ StreamOK(a.stream)
    BY ClaimReads DEF Read, Same
  <1>2. Read(a.stream, b.stream) /\ StreamOK(b.stream)
    BY <1>1, ReadOwnReads DEF Read, Same
  <1>3. Read(b.stream, d.stream) /\ StreamOK(d.stream)
    BY <1>2, ReadNewReads DEF Read, Same
  <1>4. ReadGroup(s, c, n) \in {a, b, d}
    BY DEF ReadGroup
  <1>5. FailedReads(s, c, n) = {s, a.stream, ReadGroup(s, c, n).stream}
    BY DEF FailedReads
  <1>6. Read(s, s)
    BY AckTyped DEF Read, StreamOK
  <1> HIDE DEF a, b, d
  <1>7. Read(s, b.stream)
    BY <1>1, <1>2, ReadTwice
  <1>8. Read(s, d.stream)
    BY <1>3, <1>7, ReadTwice
  <1> QED BY <1>1, <1>4, <1>5, <1>6, <1>7, <1>8

\* An entry is acknowledged when its signal has gone over to D.
LEMMA AckSettles ==
  ASSUME NEW s, NEW D, StreamOK(s), Settled(s, D), NEW i \in Entries(s), s.body[i] \in D
  PROVE  Settled(Ack(s, i), D) /\ Bodies(Ack(s, i)) = Bodies(s)
  <1> DEFINE pel == [j \in Pending(s) \ {i} |-> s.pel[j]]
             rest == s.idle \ {i}
             t == [s EXCEPT !.pel = pel, !.idle = rest]
  <1>1. Ack(s, i) = t
    BY DEF Ack
  <1>2. DOMAIN pel = Pending(s) \ {i}
    OBVIOUS
  <1> HIDE DEF pel, rest
  <1>3. t.pel = pel /\ t.trim = s.trim /\ t.next = s.next /\ t.body = s.body
    BY DEF StreamOK
  <1> HIDE DEF t
  <1> QED BY <1>1, <1>2, <1>3 DEF Settled, Bodies, Entries, Pending

\* A signal added to s is in it, and settles nothing.
LEMMA AddSettles ==
  ASSUME NEW s, StreamOK(s), NEW m \in Events, NEW n \in Nat \ {0}, NEW c \in AddCuts(s, n)
  PROVE  /\ Bodies(Add(s, m, c)) = Bodies(s) \cup {m}
         /\ \A D : Settled(s, D) => Settled(Add(s, m, c), D)
         /\ Reachable(Add(s, m, c), m)
  <1> DEFINE t == Add(s, m, c)
  <1>1. /\ t.body = Append(s.body, m) /\ t.trim = c /\ t.next = s.next /\ t.pel = s.pel
    BY DEF StreamOK, Add
  <1>2. /\ Len(t.body) = Len(s.body) + 1 /\ Len(s.body) \in Nat
        /\ \A i \in 1 .. Len(s.body) : t.body[i] = s.body[i]
        /\ t.body[Len(s.body) + 1] = m
    BY <1>1, AppendProperties DEF StreamOK
  <1>3. s.trim \in 0 .. Len(s.body) /\ s.next \in 0 .. Len(s.body)
    BY DEF StreamOK
  <1>4. c \in Nat /\ s.trim <= c /\ c <= Len(s.body)
    BY <1>2, <1>3 DEF AddCuts
  <1> HIDE DEF t
  <1>5. Bodies(t) = Bodies(s) \cup {m}
    <2>1. 1 .. Len(s.body) + 1 = 1 .. Len(s.body) \cup {Len(s.body) + 1}
      BY <1>2
    <2> QED BY <1>2, <2>1 DEF Bodies, Entries
  <1>6. ASSUME NEW D, Settled(s, D) PROVE Settled(t, D)
    BY <1>1, <1>2, <1>3, <1>4, <1>6 DEF Settled, Pending
  <1>7. Reachable(t, m)
    <2>1. Len(s.body) + 1 \in Stored(t) /\ Len(s.body) + 1 > t.next
      BY <1>1, <1>2, <1>3, <1>4 DEF Stored
    <2> QED BY <1>2, <2>1 DEF Reachable
  <1> QED BY <1>5, <1>6, <1>7 DEF t

LEMMA SettledMore ==
  ASSUME NEW s, NEW D, NEW E, Settled(s, D), D \subseteq E
  PROVE  Settled(s, E)
  BY DEF Settled

\* Nothing handled or published is forgotten, and a new signal waits in raw.
Onward ==
  /\ handled \subseteq handled' /\ Bodies(raw) \subseteq Bodies(raw')
  /\ \A e \in Bodies(raw') \ Bodies(raw) : Reachable(raw', e) /\ handled' = handled

\* A step after which both streams hold what they held.
LEMMA FeedKept ==
  ASSUME SigInv, FeedInv, Bodies(raw') = Bodies(raw), Bodies(ready') = Bodies(ready),
         Settled(raw', Bodies(ready)), Settled(ready', handled'),
         handled \subseteq handled', handled' \subseteq Bodies(ready),
         art'.pc = "ack" => raw'.body[Head(art'.batch)] \in Bodies(ready)
  PROVE  FeedInv' /\ Onward
  BY DEF FeedInv, Onward

LEMMA AnalyzerFeeds ==
  ASSUME SigInv, FeedInv, NEW e \in Events, ReadBrain(e) \/ PublishRaw(e) \/ RememberBrain(e)
  PROVE  FeedInv' /\ Onward
  <1>1. UNCHANGED <<ready, art, handled>>
    BY DEF ReadBrain, PublishRaw, RememberBrain
  <1>2. raw' = raw \/ \E c \in AddCuts(raw, MaxLen) : raw' = Add(raw, e, c)
    BY DEF ReadBrain, PublishRaw, RememberBrain
  <1>3. CASE raw' = raw
    BY <1>1, <1>3, FeedKept DEF FeedInv
  <1>4. CASE \E c \in AddCuts(raw, MaxLen) : raw' = Add(raw, e, c)
    <2>1. PICK c \in AddCuts(raw, MaxLen) : raw' = Add(raw, e, c)
      BY <1>4
    <2>2. StreamOK(raw) /\ MaxLen \in Nat \ {0}
      BY SignalsAssumption DEF SigInv, SignalsTypeOK
    <2>3. Bodies(raw') = Bodies(raw) \cup {e} /\ Reachable(raw', e)
          /\ \A D : Settled(raw, D) => Settled(raw', D)
      BY <2>1, <2>2, AddSettles
    <2>4. \A i \in Entries(raw) : raw'.body[i] = raw.body[i]
      BY <2>1, <2>2, AddTyped
    <2>5. art.pc = "ack" => Head(art.batch) \in Entries(raw)
      BY HeadTailProperties DEF SigInv, SignalsTypeOK, WorkerOK
    <2> QED BY <1>1, <2>3, <2>4, <2>5 DEF FeedInv, Onward
  <1> QED BY <1>2, <1>3, <1>4

LEMMA ArtistFetchFeeds == ASSUME SigInv, FeedInv, ArtistFetch PROVE FeedInv' /\ Onward
  <1>1. UNCHANGED <<ready, handled>> /\ art.pc = "fetch"
    BY DEF ArtistFetch
  <1>2. StreamOK(raw) /\ WorkerOK(art, raw) /\ Count \in Nat
    BY SignalsAssumption DEF SigInv, SignalsTypeOK
  <1>3. Read(raw, raw')
    BY <1>2, ReadGroupReads DEF ArtistFetch
  <1>4. Settled(raw', Bodies(ready)) /\ Bodies(raw') = Bodies(raw)
    BY <1>2, <1>3, ReadSettles DEF FeedInv
  <1>5. art'.pc # "ack"
    <2>1. \A q : Took(art, q).pc # "ack"
      BY <1>2 DEF Took, WorkerOK
    <2> QED BY <1>1, <2>1 DEF ArtistFetch
  <1> QED BY <1>1, <1>4, <1>5, FeedKept DEF FeedInv

LEMMA ArtistForwardFeeds == ASSUME SigInv, FeedInv, ArtistForward PROVE FeedInv' /\ Onward
  <1>1. UNCHANGED <<raw, handled>> /\ art.pc = "head"
    BY DEF ArtistForward
  <1>2. StreamOK(raw) /\ StreamOK(ready) /\ WorkerOK(art, raw) /\ art.batch # <<>>
        /\ MaxLen \in Nat \ {0}
    BY <1>1, SignalsAssumption DEF SigInv, SignalsTypeOK, WorkerOK
  <1> DEFINE m == raw.body[Head(art.batch)]
  <1>3. Head(art.batch) \in Entries(raw)
    BY <1>2, HeadTailProperties DEF WorkerOK
  <1>4. m \in Events /\ m \in Bodies(raw)
    BY <1>2, <1>3, ElementOfSeq DEF StreamOK, Entries, Bodies
  <1>5. CASE \E c \in AddCuts(ready, MaxLen) :
               ready' = Add(ready, m, c) /\ art' = [art EXCEPT !.pc = "ack"]
    <2>1. PICK c \in AddCuts(ready, MaxLen) :
            ready' = Add(ready, m, c) /\ art' = [art EXCEPT !.pc = "ack"]
      BY <1>5
    <2> HIDE DEF m
    <2>2. Bodies(ready') = Bodies(ready) \cup {m} /\ \A D : Settled(ready, D) => Settled(ready', D)
      BY <1>2, <1>4, <2>1, AddSettles
    <2>3. Settled(raw, Bodies(ready'))
      BY <2>2, SettledMore DEF FeedInv
    <2>4. art'.batch = art.batch
      BY <1>2, <2>1 DEF WorkerOK
    <2>5. m = raw'.body[Head(art'.batch)]
      BY <1>1, <2>4 DEF m
    <2> QED BY <1>1, <1>4, <2>2, <2>3, <2>5 DEF FeedInv, Onward
  <1>6. CASE ready' = ready /\ art' = Rest(art)
    <2>1. art'.pc # "ack"
      BY <1>2, <1>6, RestTyped
    <2> QED BY <1>1, <1>6, <2>1, FeedKept DEF FeedInv
  <1> QED BY <1>5, <1>6 DEF ArtistForward

LEMMA ArtistElseFeeds ==
  ASSUME SigInv, FeedInv, ArtistAck \/ ArtistCrash \/ ArtistStart
  PROVE  FeedInv' /\ Onward
  <1>1. UNCHANGED <<ready, handled>>
    BY DEF ArtistAck, ArtistCrash, ArtistStart
  <1>2. StreamOK(raw) /\ WorkerOK(art, raw)
    BY DEF SigInv, SignalsTypeOK
  <1>3. art'.pc # "ack"
    <2>1. art.pc = "ack" => art.batch # <<>>
      BY <1>2 DEF WorkerOK
    <2>2. CASE ArtistAck
      BY <1>2, <2>1, <2>2, RestTyped DEF ArtistAck
    <2>3. CASE ArtistCrash \/ ArtistStart
      BY <1>2, <2>3, FreshTyped DEF ArtistCrash, ArtistStart
    <2> QED BY <2>2, <2>3
  <1>4. CASE raw' = raw
    BY <1>1, <1>3, <1>4, FeedKept DEF FeedInv
  <1>5. CASE ArtistAck /\ raw' = Ack(raw, Head(art.batch))
    <2>1. Head(art.batch) \in Entries(raw) /\ raw.body[Head(art.batch)] \in Bodies(ready)
      BY <1>2, <1>5, HeadTailProperties DEF WorkerOK, ArtistAck, FeedInv
    <2>2. Settled(raw', Bodies(ready)) /\ Bodies(raw') = Bodies(raw)
      BY <1>2, <1>5, <2>1, AckSettles DEF FeedInv
    <2> QED BY <1>1, <1>3, <2>2, FeedKept DEF FeedInv
  <1> QED BY <1>4, <1>5 DEF ArtistAck, ArtistCrash, ArtistStart

LEMMA MessengerFetchFeeds == ASSUME SigInv, FeedInv, MessengerFetch PROVE FeedInv' /\ Onward
  <1>1. UNCHANGED <<raw, art, handled>>
    BY DEF MessengerFetch
  <1>2. StreamOK(ready) /\ Count \in Nat
    BY SignalsAssumption DEF SigInv, SignalsTypeOK
  <1>3. Read(ready, ready')
    BY <1>2, ReadGroupReads DEF MessengerFetch
  <1>4. Settled(ready', handled) /\ Bodies(ready') = Bodies(ready)
    BY <1>2, <1>3, ReadSettles DEF FeedInv
  <1> QED BY <1>1, <1>4, FeedKept DEF FeedInv

LEMMA MessengerAckFeeds == ASSUME SigInv, FeedInv, MessengerAck PROVE FeedInv' /\ Onward
  <1>1. UNCHANGED <<raw, art>> /\ Sending /\ handled' = handled \cup {Now}
    BY DEF MessengerAck, Sending
  <1>2. StreamOK(ready)
    BY DEF SigInv, SignalsTypeOK
  <1>3. Now \in Events /\ Head(msg.batch) \in Entries(ready)
    BY <1>1, NowTyped DEF SigInv
  <1>4. Now \in Bodies(ready)
    BY <1>3 DEF Now, Bodies
  <1>5. Settled(ready, handled')
    BY <1>1, SettledMore DEF FeedInv
  <1>6. Settled(ready', handled') /\ Bodies(ready') = Bodies(ready)
    <2>1. CASE ready' = ready
      BY <1>5, <2>1
    <2>2. CASE ready' = Ack(ready, Head(msg.batch))
      <3>1. ready.body[Head(msg.batch)] \in handled'
        BY <1>1 DEF Now
      <3> QED BY <1>2, <1>3, <1>5, <2>2, <3>1, AckSettles
    <2> QED BY <2>1, <2>2 DEF MessengerAck
  <1> QED BY <1>1, <1>4, <1>6, FeedKept DEF FeedInv

LEMMA AgesFeeds == ASSUME SigInv, FeedInv, Ages PROVE FeedInv' /\ Onward
  <1>1. UNCHANGED <<art, handled>>
    BY DEF Ages
  <1>2. ASSUME NEW s, StreamOK(s), NEW i
        PROVE  Read(s, Age(s, i))
    <2>1. Age(s, i).trim = s.trim /\ Age(s, i).next = s.next /\ Age(s, i).pel = s.pel
      BY <1>2 DEF Age, StreamOK
    <2> QED BY <1>2, <2>1, AckTyped DEF Read, Pending, StreamOK
  <1>3. ASSUME NEW s, StreamOK(s) PROVE Read(s, s)
    BY <1>3, AckTyped DEF Read, StreamOK
  <1>4. Read(raw, raw') /\ Read(ready, ready')
    BY <1>2, <1>3 DEF Ages, SigInv, SignalsTypeOK
  <1>5. Settled(raw', Bodies(ready)) /\ Bodies(raw') = Bodies(raw)
        /\ Settled(ready', handled) /\ Bodies(ready') = Bodies(ready)
    BY <1>4, ReadSettles DEF FeedInv, SigInv, SignalsTypeOK
  <1>6. raw'.body = raw.body
    BY <1>4 DEF Read, Same
  <1> QED BY <1>1, <1>5, <1>6, FeedKept DEF FeedInv

LEMMA FeedStep == SigInv /\ FeedInv /\ [SignalsNext]_sigVars => FeedInv' /\ Onward
  <1> SUFFICES ASSUME SigInv, FeedInv, [SignalsNext]_sigVars PROVE FeedInv' /\ Onward
    OBVIOUS
  <1>1. ASSUME UNCHANGED <<raw, ready, art, handled>> PROVE FeedInv' /\ Onward
    BY <1>1, FeedKept DEF FeedInv
  <1>2. CASE UNCHANGED sigVars \/ EmptyPoll
    BY <1>1, <1>2 DEF sigVars, EmptyPoll
  <1>3. CASE Analyzer
    BY <1>3, AnalyzerFeeds DEF Analyzer
  <1>4. CASE Artist \/ ArtistCrash
    BY <1>4, ArtistFetchFeeds, ArtistForwardFeeds, ArtistElseFeeds DEF Artist
  <1>5. CASE Messenger \/ MessengerCrash
    <2>1. CASE MessengerFetch \/ MessengerAck
      BY <2>1, MessengerFetchFeeds, MessengerAckFeeds
    <2>2. CASE \/ MessengerBegin \/ ReadSeen \/ RememberSeen \/ MessengerStart \/ MessengerCrash
               \/ \E t \in Targets : Dispatch(t)
      BY <1>1, <2>2
      DEF MessengerBegin, ReadSeen, RememberSeen, MessengerStart, MessengerCrash, Dispatch
    <2> QED BY <1>5, <2>1, <2>2 DEF Messenger
  <1>6. CASE BrainCools \/ \E t \in Targets : SeenCools(t)
    BY <1>1, <1>6 DEF BrainCools, SeenCools
  <1>7. CASE Ages
    BY <1>7, AgesFeeds
  <1> QED BY <1>2, <1>3, <1>4, <1>5, <1>6, <1>7 DEF SignalsNext, Clock

LEMMA FeedStarts == SignalsInit => FeedInv
  <1> SUFFICES ASSUME SignalsInit PROVE FeedInv
    OBVIOUS
  <1>1. raw = EmptyStream /\ ready = EmptyStream /\ handled = {} /\ \E n : art = Fresh(n)
    BY DEF SignalsInit
  <1>2. EmptyStream.next = 0 /\ EmptyStream.body = <<>>
    BY DEF EmptyStream
  <1>3. \A D : Settled(EmptyStream, D)
    BY <1>2 DEF Settled
  <1>4. art.pc # "ack"
    BY <1>1 DEF Fresh
  <1> QED BY <1>1, <1>3, <1>4 DEF FeedInv

\* A signal is published when raw has held it; until it is handled it can be
\* read, or the length bound has dropped it.
StageFits(e) ==
  /\ e \in Bodies(raw) => Stage[e] \in {"handled", "queued", "trimmed"}
  /\ e \notin Bodies(raw) => Stage[e] = "none"
  /\ Stage[e] = "handled" <=> e \in handled
  /\ e \notin handled /\ Reachable(raw, e) => Stage[e] = "queued"

StagesFit == \A e \in Events : StageFits(e)

LEMMA WhereItIs ==
  ASSUME SigInv, FeedInv, NEW e \in Bodies(raw)
  PROVE  \/ e \in handled
         \/ Reachable(raw, e) \/ Reachable(ready, e)
         \/ Trimmed(raw, e) \/ Trimmed(ready, e)
  <1>1. StreamOK(raw) /\ StreamOK(ready)
    BY DEF SigInv, SignalsTypeOK
  <1>2. ASSUME NEW s, StreamOK(s), NEW D, Settled(s, D), e \in Bodies(s)
        PROVE  Reachable(s, e) \/ Trimmed(s, e) \/ e \in D
    <2>1. PICK i \in Entries(s) : s.body[i] = e
      BY <1>2 DEF Bodies
    <2>2. i \in 1 .. Len(s.body) /\ s.next \in Nat /\ s.trim \in Nat
      BY <1>2, <2>1 DEF Entries, StreamOK
    <2>3. CASE i <= s.trim
      BY <2>1, <2>2, <2>3 DEF Trimmed
    <2>4. CASE i > s.trim /\ (i > s.next \/ i \in Pending(s))
      <3>1. i \in Stored(s)
        BY <2>2, <2>4 DEF Stored
      <3> QED BY <2>1, <2>4, <3>1 DEF Reachable
    <2>5. CASE i > s.trim /\ i <= s.next /\ i \notin Pending(s)
      BY <1>2, <2>1, <2>2, <2>5 DEF Settled
    <2> QED BY <2>2, <2>3, <2>4, <2>5
  <1> QED BY <1>1, <1>2 DEF FeedInv

LEMMA StageOf == SigInv /\ FeedInv => StagesFit
  <1> SUFFICES ASSUME SigInv, FeedInv, NEW e \in Events PROVE StageFits(e)
    BY DEF StagesFit
  <1>1. StreamOK(raw) /\ StreamOK(ready)
    BY DEF SigInv, SignalsTypeOK
  <1>2. ASSUME NEW s, StreamOK(s), e \notin Bodies(s)
        PROVE  ~Reachable(s, e) /\ ~Trimmed(s, e) /\ \A i \in DOMAIN s.body : s.body[i] # e
    <2>1. /\ Stored(s) \subseteq Entries(s) /\ 1 .. s.trim \subseteq Entries(s)
          /\ DOMAIN s.body = Entries(s)
      BY <1>2 DEF Stored, Entries, StreamOK
    <2> QED BY <1>2, <2>1 DEF Bodies, Reachable, Trimmed
  <1>3. Stage[e] = IF e \in handled THEN "handled"
                   ELSE IF Reachable(raw, e) \/ Reachable(ready, e) THEN "queued"
                   ELSE IF Trimmed(raw, e) \/ Trimmed(ready, e) THEN "trimmed"
                   ELSE IF \E i \in DOMAIN raw.body : raw.body[i] = e THEN "vanished"
                   ELSE "none"
    BY DEF Stage
  <1>4. e \in Bodies(raw) => \/ e \in handled
                             \/ Reachable(raw, e) \/ Reachable(ready, e)
                             \/ Trimmed(raw, e) \/ Trimmed(ready, e)
    BY WhereItIs
  <1>5. e \notin Bodies(raw) =>
          /\ e \notin handled
          /\ ~(Reachable(raw, e) \/ Reachable(ready, e))
          /\ ~(Trimmed(raw, e) \/ Trimmed(ready, e))
          /\ ~\E i \in DOMAIN raw.body : raw.body[i] = e
    BY <1>1, <1>2 DEF FeedInv
  <1> QED BY <1>3, <1>4, <1>5 DEF StageFits

\* Every step moves each signal as the feed allows, or not at all.
LEMMA FeedMoves ==
  SigInv /\ FeedInv /\ StagesFit /\ StagesFit' /\ [SignalsNext]_sigVars
    => [Feed!Move(Stage, Stage')]_Stage
  <1> SUFFICES ASSUME SigInv, FeedInv, StagesFit, StagesFit', [SignalsNext]_sigVars,
                      NEW e \in Events
               PROVE  Stage[e] = Stage'[e] \/ <<Stage[e], Stage'[e]>> \in Feed!Moves
    BY DEF Feed!Move
  <1>1. Onward
    BY FeedStep
  <1>2. StageFits(e) /\ StageFits(e)'
    BY DEF StagesFit
  <1>3. CASE e \in Bodies(raw)
    BY <1>1, <1>2, <1>3 DEF Onward, Feed!Moves, StageFits
  <1>4. CASE e \notin Bodies(raw)
    <2>1. e \notin handled
      BY <1>4 DEF FeedInv
    <2> QED BY <1>1, <1>2, <1>4, <2>1 DEF Onward, Feed!Moves, StageFits
  <1> QED BY <1>3, <1>4

\* The two streams and their two processes move a signal as SignalFeed
\* promises: once published it stays queued until a messenger has handled it,
\* through crashes, failed acknowledgements and claims; only the length bound
\* of a stream drops it.
THEOREM SignalsMoveAsPromised == SignalsSpec => Feed!FeedSafety
  <1>1. SignalsInit => Feed!FeedInit
    <2> SUFFICES ASSUME SignalsInit PROVE Stage = [e \in Events |-> "none"]
      BY DEF Feed!FeedInit
    <2>1. SigInv /\ FeedInv
      BY SigInit, FeedStarts
    <2>2. StagesFit /\ Bodies(raw) = {}
      <3>1. raw.body = <<>>
        BY DEF SignalsInit, EmptyStream
      <3> QED BY <2>1, <3>1, StageOf DEF Bodies, Entries
    <2>3. \A e \in Events : Stage[e] = "none"
      BY <2>2 DEF StagesFit, StageFits
    <2>4. Stage = [e \in Events |-> Stage[e]]
      BY DEF Stage
    <2> QED BY <2>3, <2>4
  <1>2. SignalsSpec => [](SigInv /\ FeedInv)
    BY SigInit, SigStep, FeedStarts, FeedStep, PTL DEF SignalsSpec
  <1>3. SignalsSpec => []StagesFit
    BY <1>2, StageOf, PTL
  <1>4. SignalsSpec => [][Feed!Move(Stage, Stage')]_Stage
    BY <1>2, <1>3, FeedMoves, PTL DEF SignalsSpec
  <1> QED BY <1>1, <1>4, PTL DEF SignalsSpec, Feed!FeedSafety

-----------------------------------------------------------------------------
(* What the length bound may drop. *)

\* MAXLEN keeps the newest entries.
KeepsNewest(s) == s.trim = 0 \/ s.trim + MaxLen <= Len(s.body)

\* A signal one of whose entries has MaxLen newer ones after it.
Overtaken(s, e) == \E i \in Entries(s) : s.body[i] = e /\ i + MaxLen <= Len(s.body)

\* A published signal that is neither handled nor to be read has been overtaken.
LostOnlyByLength ==
  \A e \in Bodies(raw) : \/ e \in handled \/ Reachable(raw, e) \/ Reachable(ready, e)
                         \/ Overtaken(raw, e) \/ Overtaken(ready, e)

\* t is s with an entry added, or with nothing added or dropped.
Grows(s, t) ==
  \/ t.trim = s.trim /\ t.body = s.body
  \/ \E m \in Events, c \in AddCuts(s, MaxLen) : t = Add(s, m, c)

LEMMA AckGrows ==
  ASSUME NEW s, StreamOK(s), NEW i
  PROVE  Grows(s, s) /\ Grows(s, Ack(s, i)) /\ Grows(s, Age(s, i))
  <1>1. Ack(s, i).trim = s.trim /\ Age(s, i).trim = s.trim
    BY DEF StreamOK, Ack, Age
  <1>2. Ack(s, i).body = s.body /\ Age(s, i).body = s.body
    BY AckTyped DEF Same
  <1> QED BY <1>1, <1>2 DEF Grows

LEMMA ReadGrows ==
  ASSUME NEW s, StreamOK(s), NEW c
  PROVE  /\ Grows(s, ReadGroup(s, c, Count).stream)
         /\ \A t \in FailedReads(s, c, Count) : Grows(s, t)
  <1>1. Count \in Nat
    BY SignalsAssumption
  <1>2. \A t : Read(s, t) => Grows(s, t)
    BY DEF Read, Same, Grows
  <1> QED BY <1>1, <1>2, ReadGroupReads

LEMMA StreamsGrow ==
  SigInv /\ [SignalsNext]_sigVars => Grows(raw, raw') /\ Grows(ready, ready')
  <1> SUFFICES ASSUME SigInv, [SignalsNext]_sigVars
               PROVE  Grows(raw, raw') /\ Grows(ready, ready')
    OBVIOUS
  <1>1. StreamOK(raw) /\ StreamOK(ready)
    BY DEF SigInv, SignalsTypeOK
  <1>2. Grows(raw, raw) /\ Grows(ready, ready)
    BY <1>1, AckGrows
  <1>3. CASE Analyzer
    <2>1. PICK e \in Events : ReadBrain(e) \/ PublishRaw(e) \/ RememberBrain(e)
      BY <1>3 DEF Analyzer
    <2>2. raw' = raw \/ \E c \in AddCuts(raw, MaxLen) : raw' = Add(raw, e, c)
      BY <2>1 DEF ReadBrain, PublishRaw, RememberBrain
    <2>3. ready' = ready
      BY <2>1 DEF ReadBrain, PublishRaw, RememberBrain
    <2> QED BY <1>2, <2>2, <2>3 DEF Grows
  <1>4. CASE ArtistFetch
    BY <1>1, <1>2, <1>4, ReadGrows DEF ArtistFetch
  <1>5. CASE ArtistForward
    <2>1. art.batch \in Seq(Entries(raw)) /\ art.batch # <<>>
      BY <1>5 DEF ArtistForward, SigInv, SignalsTypeOK, WorkerOK
    <2>2. Head(art.batch) \in Entries(raw)
      BY <2>1, HeadTailProperties
    <2>3. raw.body[Head(art.batch)] \in Events
      BY <1>1, <2>2, ElementOfSeq DEF StreamOK, Entries
    <2>4. raw' = raw /\ (ready' = ready \/ \E c \in AddCuts(ready, MaxLen) :
                                               ready' = Add(ready, raw.body[Head(art.batch)], c))
      BY <1>5 DEF ArtistForward
    <2> QED BY <1>2, <2>3, <2>4 DEF Grows
  <1>6. CASE ArtistAck \/ ArtistStart \/ ArtistCrash
    BY <1>1, <1>2, <1>6, AckGrows DEF ArtistAck, ArtistStart, ArtistCrash
  <1>7. CASE MessengerFetch
    BY <1>1, <1>2, <1>7, ReadGrows DEF MessengerFetch
  <1>8. CASE MessengerAck
    BY <1>1, <1>2, <1>8, AckGrows DEF MessengerAck
  <1>9. CASE \/ MessengerBegin \/ ReadSeen \/ RememberSeen \/ MessengerStart \/ MessengerCrash
             \/ \E t \in Targets : Dispatch(t)
    BY <1>2, <1>9
    DEF MessengerBegin, ReadSeen, RememberSeen, MessengerStart, MessengerCrash, Dispatch
  <1>10. CASE BrainCools \/ (\E t \in Targets : SeenCools(t)) \/ EmptyPoll \/ UNCHANGED sigVars
    BY <1>2, <1>10 DEF BrainCools, SeenCools, EmptyPoll, sigVars
  <1>11. CASE Ages
    BY <1>1, <1>2, <1>11, AckGrows DEF Ages
  <1> QED
    BY <1>3, <1>4, <1>5, <1>6, <1>7, <1>8, <1>9, <1>10, <1>11
    DEF SignalsNext, Artist, Messenger, Clock

LEMMA NewestKept ==
  ASSUME NEW s, NEW t, StreamOK(s), KeepsNewest(s), Grows(s, t)
  PROVE  KeepsNewest(t)
  <1>1. CASE t.trim = s.trim /\ t.body = s.body
    BY <1>1 DEF KeepsNewest
  <1>2. ASSUME NEW m \in Events, NEW c \in AddCuts(s, MaxLen), t = Add(s, m, c)
        PROVE  KeepsNewest(t)
    <2>1. t.body = Append(s.body, m) /\ t.trim = c
      BY <1>2 DEF StreamOK, Add
    <2>2. Len(t.body) = Len(s.body) + 1 /\ Len(s.body) \in Nat /\ s.trim \in Nat
      BY <2>1, AppendProperties DEF StreamOK
    <2>3. c = s.trim \/ c + MaxLen <= Len(s.body) + 1
      BY <2>2, SignalsAssumption DEF AddCuts
    <2> QED BY <2>1, <2>2, <2>3, SignalsAssumption DEF KeepsNewest
  <1> QED BY <1>1, <1>2 DEF Grows

LEMMA TrimmedOvertaken ==
  ASSUME NEW s, StreamOK(s), KeepsNewest(s), NEW e, Trimmed(s, e)
  PROVE  Overtaken(s, e)
  <1>1. PICK i \in 1 .. s.trim : s.body[i] = e
    BY DEF Trimmed
  <1>2. s.trim \in Nat /\ Len(s.body) \in Nat /\ s.trim <= Len(s.body)
    BY DEF StreamOK
  <1>3. i \in Entries(s) /\ i + MaxLen <= Len(s.body)
    BY <1>1, <1>2, SignalsAssumption DEF KeepsNewest, Entries
  <1> QED BY <1>1, <1>3 DEF Overtaken

\* A published signal is lost only when MaxLen newer entries were added to a
\* stream behind one of its own, although Redis trims when it likes.
THEOREM LossNeedsBacklog == SignalsSpec => []LostOnlyByLength
  <1> DEFINE Newest == KeepsNewest(raw) /\ KeepsNewest(ready)
  <1>1. SignalsInit => Newest
    BY DEF SignalsInit, EmptyStream, KeepsNewest
  <1>2. SigInv /\ Newest /\ [SignalsNext]_sigVars => Newest'
    <2> SUFFICES ASSUME SigInv, Newest, [SignalsNext]_sigVars PROVE Newest'
      OBVIOUS
    <2>1. Grows(raw, raw') /\ Grows(ready, ready')
      BY StreamsGrow
    <2> QED BY <2>1, NewestKept DEF SigInv, SignalsTypeOK
  <1>3. SigInv /\ FeedInv /\ Newest => LostOnlyByLength
    <2> SUFFICES ASSUME SigInv, FeedInv, Newest, NEW e \in Bodies(raw), e \notin handled,
                        ~Reachable(raw, e), ~Reachable(ready, e)
                 PROVE  Overtaken(raw, e) \/ Overtaken(ready, e)
      BY DEF LostOnlyByLength
    <2>1. StreamOK(raw) /\ StreamOK(ready) /\ e \in Events
      BY ElementOfSeq DEF SigInv, SignalsTypeOK, StreamOK, Bodies, Entries
    <2>2. Trimmed(raw, e) \/ Trimmed(ready, e)
      BY <2>1, WhereItIs
    <2> QED BY <2>1, <2>2, TrimmedOvertaken
  <1>4. SignalsSpec => [](SigInv /\ FeedInv)
    BY SigInit, SigStep, FeedStarts, FeedStep, PTL DEF SignalsSpec
  <1> HIDE DEF Newest
  <1>5. SignalsSpec => []Newest
    BY <1>1, <1>2, <1>4, PTL DEF SignalsSpec
  <1> QED BY <1>3, <1>4, <1>5, PTL
=============================================================================
