------------------------- MODULE Services_proofs -------------------------
(***************************************************************************)
(* The services around the alert, each for every value of its constants:   *)
(* the feeds of the exchange listener, the sums over the liquidation       *)
(* memory, the settings a subscription pays for.                           *)
(***************************************************************************)
EXTENDS Listener, Liquidations, Audience, FiniteSetTheorems, SequenceTheorems, TLAPS

-----------------------------------------------------------------------------
(* Listener: which socket may carry which symbol's feed.                     *)

Symbols  == AtStart \cup Later
Somehow  == Sockets \cup {Nowhere}

ListenerTypeOK ==
  /\ open \in SUBSET Sockets
  /\ feeds \in [Sockets -> SUBSET Symbols] /\ ws_map \in [Sockets -> SUBSET Symbols]
  /\ targets \in SUBSET Symbols /\ listed \in SUBSET Symbols /\ booted \in 0 .. Len(Chunks)
  /\ dog \in [scan : SUBSET Sockets, ws : Somehow, done : SUBSET Symbols]
  /\ sync \in [todo : SUBSET Symbols, ws : Somehow, own : BOOLEAN]

\* The pool gives every symbol one socket, and what the sync has still to do
\* is in nobody's hands.
Disjoint ==
  /\ \A w, x \in Sockets : w # x => ws_map[w] \cap ws_map[x] = {}
  /\ AtStart \subseteq targets /\ \A w \in Sockets : ws_map[w] \subseteq targets
  /\ sync.todo \cap targets = {}

\* While start() runs, nothing else does, and its later chunks are untouched.
Starting ==
  ~Booted => /\ dog = DogSleeps /\ sync = SyncSleeps
             /\ \A w \in Sockets : ws_map[w] \subseteq UNION {Chunks[i] : i \in 1 .. booted}

\* The symbol the sync is adding to w.
Joining(w) == IF sync.ws = w THEN {NextSymbol} ELSE {}

\* A connected socket carries what the pool says, and what is joining it; one
\* the sync joined has been closed when it is no longer in the pool.
Carried ==
  /\ \A w \in open : feeds[w] \subseteq ws_map[w] \cup Joining(w)
  /\ sync.ws # Nowhere => sync.todo # {}
  /\ sync.ws \in open /\ ~sync.own => sync.ws \in Pool

ListenerInv == ListenerTypeOK /\ Disjoint /\ Starting /\ Carried

LEMMA ListenerConstants ==
    /\ Nowhere \notin Sockets /\ Len(Chunks) \in Nat /\ DOMAIN Chunks = 1 .. Len(Chunks)
    /\ \A i \in DOMAIN Chunks : Chunks[i] \subseteq AtStart
    /\ \A i, j \in DOMAIN Chunks : i # j => Chunks[i] \cap Chunks[j] = {}
  BY ListenerAssumption DEF Nowhere, AtStart

LEMMA NewSocketIsNew ==
    ASSUME Constructible
    PROVE  /\ NewSocket \in Sockets /\ NewSocket \notin open /\ ws_map[NewSocket] = {}
           /\ NewSocket \notin dog.scan /\ NewSocket # dog.ws /\ NewSocket # sync.ws
  <1>1. NewSocket \in Unused
    BY DEF Constructible, NewSocket
  <1> QED BY <1>1 DEF Unused, Pool

\* The property, out of the invariant.
LEMMA FeedsAreDisjoint == ASSUME ListenerInv PROVE OneFeedPerSymbol
  <1> SUFFICES ASSUME NEW w \in open, NEW x \in open, w # x,
                      NEW s \in feeds[w] \cap feeds[x]
               PROVE  FALSE
    BY DEF OneFeedPerSymbol
  <1>1. w \in Sockets /\ x \in Sockets
    BY DEF ListenerInv, ListenerTypeOK
  <1>2. ws_map[w] \cap ws_map[x] = {} /\ ws_map[w] \subseteq targets /\ ws_map[x] \subseteq targets
    BY <1>1 DEF ListenerInv, Disjoint
  <1>3. s \in ws_map[w] \cup Joining(w) /\ s \in ws_map[x] \cup Joining(x)
    BY DEF ListenerInv, Carried
  <1>4. Joining(w) = {} \/ Joining(x) = {}
    BY DEF Joining
  <1>5. sync.ws # Nowhere => NextSymbol \notin targets
    BY DEF ListenerInv, Carried, Disjoint, NextSymbol
  <1>6. \A y \in Sockets : Joining(y) \cap targets = {}
    BY <1>5, ListenerConstants DEF Joining
  <1> QED BY <1>1, <1>2, <1>3, <1>4, <1>6

LEMMA ListenerStarts == ListenerInit => ListenerInv
  <1> SUFFICES ASSUME ListenerInit PROVE ListenerInv
    OBVIOUS
  <1>1. ListenerTypeOK
    BY ListenerConstants DEF ListenerInit, ListenerTypeOK, Symbols, Somehow, DogSleeps, SyncSleeps
  <1>2. Disjoint /\ Starting /\ Carried
    BY DEF ListenerInit, Disjoint, Starting, Carried, DogSleeps, SyncSleeps
  <1> QED BY <1>1, <1>2 DEF ListenerInv

\* The parts of the state that ListenerInv is about.
LEMMA ListenerFrame ==
    ASSUME ListenerInv, UNCHANGED <<open, feeds, ws_map, targets, booted, dog, sync>>,
           listed' \in SUBSET Symbols
    PROVE  ListenerInv'
  BY DEF ListenerInv, ListenerTypeOK, Disjoint, Starting, Carried, Joining, NextSymbol, Booted, Pool

LEMMA ConnectKeeps == ASSUME ListenerInv, ConnectChunk PROVE ListenerInv'
  <1> DEFINE n == NewSocket
  <1> DEFINE c == Chunks[booted + 1]
  <1>1. ListenerTypeOK /\ Disjoint /\ Starting /\ Carried
    BY DEF ListenerInv
  <1>2. n \in Sockets /\ n \notin open /\ ws_map[n] = {} /\ n # sync.ws
    BY NewSocketIsNew DEF ConnectChunk
  <1>3. /\ open' = open \cup {n} /\ ws_map' = [ws_map EXCEPT ![n] = c]
        /\ feeds' = [feeds EXCEPT ![n] = c] /\ booted' = booted + 1
        /\ UNCHANGED <<targets, listed, dog, sync>>
    BY DEF ConnectChunk
  <1>4. /\ booted + 1 \in DOMAIN Chunks /\ booted' \in 0 .. Len(Chunks)
        /\ 1 .. booted \subseteq DOMAIN Chunks /\ booted + 1 \notin 1 .. booted /\ ~Booted
    <2>1. booted \in 0 .. Len(Chunks) /\ booted < Len(Chunks)
      BY <1>1 DEF ConnectChunk, ListenerTypeOK
    <2>2. booted \in Nat /\ Len(Chunks) \in Nat /\ booted' = booted + 1
      BY <1>3, <2>1, ListenerConstants
    <2>3. booted + 1 \in 1 .. Len(Chunks) /\ 1 .. booted \subseteq 1 .. Len(Chunks)
      BY <2>1, <2>2
    <2>4. booted' \in 0 .. Len(Chunks) /\ booted + 1 \notin 1 .. booted /\ ~Booted
      BY <2>1, <2>2 DEF Booted
    <2> QED BY <2>3, <2>4, ListenerConstants
  <1>5. c \subseteq AtStart /\ c \subseteq targets /\ c \subseteq Symbols
    BY <1>1, <1>4, ListenerConstants DEF Disjoint, Symbols
  <1>6. \A w \in Sockets : ws_map[w] \cap c = {}
    <2> SUFFICES ASSUME NEW w \in Sockets, NEW s \in ws_map[w], s \in c PROVE FALSE
      OBVIOUS
    <2>1. PICK i \in 1 .. booted : s \in Chunks[i]
      BY <1>1, <1>4 DEF Starting
    <2> QED BY <1>4, <2>1, ListenerConstants
  <1>7. \A w \in Sockets : /\ ws_map'[w] = IF w = n THEN c ELSE ws_map[w]
                           /\ feeds'[w] = IF w = n THEN c ELSE feeds[w]
    BY <1>1, <1>3 DEF ListenerTypeOK
  <1>c. c \in SUBSET Symbols
    BY <1>5
  <1>d. c = Chunks[booted + 1]
    OBVIOUS
  <1> HIDE DEF n, c
  <1>8. ListenerTypeOK'
    BY <1>1, <1>2, <1>3, <1>4, <1>c DEF ListenerTypeOK
  <1>9. Disjoint'
    BY <1>1, <1>3, <1>5, <1>6, <1>7 DEF Disjoint
  <1>10. Starting'
    <2> SUFFICES ASSUME NEW w \in Sockets, NEW s \in ws_map'[w]
                 PROVE  \E i \in 1 .. booted + 1 : s \in Chunks[i]
      BY <1>1, <1>3, <1>4 DEF Starting, Booted
    <2>1. booted \in Nat /\ 1 .. booted \subseteq 1 .. booted + 1 /\ booted + 1 \in 1 .. booted + 1
      BY <1>1, ListenerConstants DEF ListenerTypeOK
    <2>2. CASE w = n
      BY <1>7, <1>d, <2>1, <2>2
    <2>3. CASE w # n
      <3>1. \E i \in 1 .. booted : s \in Chunks[i]
        BY <1>1, <1>4, <1>7, <2>3 DEF Starting
      <3> QED BY <2>1, <3>1
    <2> QED BY <2>2, <2>3
  <1>11. Carried'
    <2>1. sync = SyncSleeps
      BY <1>1, <1>4 DEF Starting
    <2>2. sync'.ws = Nowhere /\ Nowhere \notin open'
      BY <1>1, <1>2, <1>3, <2>1, ListenerConstants DEF SyncSleeps, ListenerTypeOK
    <2>3. \A w \in open' : feeds'[w] \subseteq ws_map'[w]
      BY <1>1, <1>2, <1>3, <1>7, <2>1, ListenerConstants DEF Carried, Joining, SyncSleeps, ListenerTypeOK
    <2> QED BY <2>2, <2>3 DEF Carried
  <1> QED BY <1>8, <1>9, <1>10, <1>11 DEF ListenerInv

\* The watchdog's steps that change only what it has left to do.
LEMMA DogOnlyKeeps ==
    ASSUME ListenerInv, DogWakes \/ DogDone \/ \E w \in Sockets : DogPasses(w) PROVE ListenerInv'
  <1>1. UNCHANGED <<open, feeds, ws_map, targets, listed, booted, sync>>
    BY DEF DogWakes, DogDone, DogPasses
  <1>2. dog' \in [scan : SUBSET Sockets, ws : Somehow, done : SUBSET Symbols]
    BY DEF ListenerInv, ListenerTypeOK, DogWakes, DogDone, DogPasses, Pool, Somehow
  <1>3. Booted
    BY ListenerConstants DEF ListenerInv, Starting, DogWakes, DogDone, DogPasses, DogSleeps
  <1>4. ListenerTypeOK' /\ Disjoint'
    BY <1>1, <1>2 DEF ListenerInv, ListenerTypeOK, Disjoint
  <1>5. Starting'
    BY <1>1, <1>3 DEF Starting, Booted
  <1>6. Carried'
    BY <1>1 DEF ListenerInv, Carried, Joining, NextSymbol, Pool
  <1> QED BY <1>4, <1>5, <1>6 DEF ListenerInv

\* A chunk moves as a whole, and its old socket is closed.
LEMMA DogReconnectsKeeps ==
    ASSUME ListenerInv, NEW w \in Sockets, DogReconnects(w) PROVE ListenerInv'
  <1> DEFINE n == NewSocket
  <1>1. ListenerTypeOK /\ Disjoint /\ Starting /\ Carried
    BY DEF ListenerInv
  <1>2. n \in Sockets /\ n \notin open /\ ws_map[n] = {} /\ n # sync.ws
    BY NewSocketIsNew DEF DogReconnects
  <1>3. /\ open' = (open \ {w}) \cup {n}
        /\ ws_map' = [ws_map EXCEPT ![w] = {}, ![n] = ws_map[w]]
        /\ feeds' = [feeds EXCEPT ![n] = {}]
        /\ dog' = [scan |-> dog.scan \ {w}, ws |-> n, done |-> {}]
        /\ w \in dog.scan /\ w \in Pool
        /\ UNCHANGED <<targets, listed, booted, sync>>
    BY DEF DogReconnects, Replace
  <1> HIDE DEF n
  <1>4. w # n
    BY <1>2, <1>3 DEF Pool
  <1>5. \A x \in Sockets : /\ ws_map'[x] = IF x = n THEN ws_map[w] ELSE IF x = w THEN {} ELSE ws_map[x]
                           /\ feeds'[x] = IF x = n THEN {} ELSE feeds[x]
    BY <1>1, <1>3, <1>4 DEF ListenerTypeOK
  <1>6. ListenerTypeOK'
    <2>1. ws_map' \in [Sockets -> SUBSET Symbols]
      BY <1>1, <1>2, <1>3 DEF ListenerTypeOK
    <2>2. feeds' \in [Sockets -> SUBSET Symbols] /\ open' \in SUBSET Sockets
      BY <1>1, <1>2, <1>3 DEF ListenerTypeOK
    <2>3. dog' \in [scan : SUBSET Sockets, ws : Somehow, done : SUBSET Symbols]
      BY <1>1, <1>2, <1>3 DEF ListenerTypeOK, Somehow
    <2> QED BY <1>1, <1>3, <2>1, <2>2, <2>3 DEF ListenerTypeOK
  <1>7. Disjoint'
    <2>1. ASSUME NEW x \in Sockets, NEW y \in Sockets, x # y PROVE ws_map'[x] \cap ws_map'[y] = {}
      <3>1. CASE x = n
        BY <1>1, <1>5, <2>1, <3>1 DEF Disjoint
      <3>2. CASE y = n
        BY <1>1, <1>5, <2>1, <3>2 DEF Disjoint
      <3>3. CASE x # n /\ y # n
        <4>1. ws_map'[x] \subseteq ws_map[x] /\ ws_map'[y] \subseteq ws_map[y]
          BY <1>5, <3>3
        <4> QED BY <1>1, <2>1, <4>1 DEF Disjoint
      <3> QED BY <3>1, <3>2, <3>3
    <2>2. ASSUME NEW x \in Sockets PROVE ws_map'[x] \subseteq targets
      <3>1. ws_map'[x] \in {{}, ws_map[w], ws_map[x]}
        BY <1>5
      <3>2. ws_map[w] \subseteq targets /\ ws_map[x] \subseteq targets
        BY <1>1 DEF Disjoint
      <3> QED BY <3>1, <3>2
    <2> QED BY <1>1, <1>3, <2>1, <2>2 DEF Disjoint
  <1>8. Starting'
    <2>1. Booted
      BY <1>1, <1>3 DEF Starting, DogSleeps
    <2> QED BY <1>3, <2>1 DEF Starting, Booted
  <1>9. Carried'
    <2>1. \A x \in open' : feeds'[x] \subseteq ws_map'[x] \cup Joining(x)
      BY <1>1, <1>2, <1>3, <1>4, <1>5 DEF Carried, ListenerTypeOK
    <2>2. \A x : Joining(x)' = Joining(x)
      BY <1>3 DEF Joining, NextSymbol
    <2>3. sync.ws \in open' /\ ~sync.own => sync.ws \in Pool'
      BY <1>1, <1>2, <1>3, <1>5 DEF Carried, Pool, ListenerTypeOK
    <2> QED BY <1>1, <1>3, <2>1, <2>2, <2>3 DEF Carried
  <1> QED BY <1>6, <1>7, <1>8, <1>9 DEF ListenerInv

LEMMA DogLosesKeeps ==
    ASSUME ListenerInv, NEW w \in Sockets, DogLosesChunk(w) PROVE ListenerInv'
  <1>1. ListenerTypeOK /\ Disjoint /\ Starting /\ Carried
    BY DEF ListenerInv
  <1>2. /\ open' = open \ {w} /\ ws_map' = [ws_map EXCEPT ![w] = {}] /\ dog' = DogSleeps
        /\ w \in dog.scan /\ UNCHANGED <<feeds, targets, listed, booted, sync>>
    BY DEF DogLosesChunk
  <1>3. \A x \in Sockets : ws_map'[x] = IF x = w THEN {} ELSE ws_map[x]
    BY <1>1, <1>2 DEF ListenerTypeOK
  <1>4. ListenerTypeOK'
    BY <1>1, <1>2 DEF ListenerTypeOK, DogSleeps, Somehow
  <1>5. Disjoint'
    BY <1>1, <1>2, <1>3 DEF Disjoint
  <1>6. Starting'
    <2>1. Booted
      BY <1>1, <1>2 DEF Starting, DogSleeps
    <2> QED BY <1>2, <2>1 DEF Starting, Booted
  <1>7. Carried'
    <2>1. \A x \in open' : feeds'[x] \subseteq ws_map'[x] \cup Joining(x)
      BY <1>1, <1>2, <1>3 DEF Carried, ListenerTypeOK
    <2>2. \A x : Joining(x)' = Joining(x)
      BY <1>2 DEF Joining, NextSymbol
    <2>3. sync.ws \in open' /\ ~sync.own => sync.ws \in Pool'
      BY <1>1, <1>2, <1>3 DEF Carried, Pool, ListenerTypeOK
    <2> QED BY <1>1, <1>2, <2>1, <2>2, <2>3 DEF Carried
  <1> QED BY <1>4, <1>5, <1>6, <1>7 DEF ListenerInv

\* What a subscription does to the feeds, made or failed.
LEMMA SubscribeKnown ==
    ASSUME NEW w, NEW s, Subscribe(w, s) PROVE feeds' \in {feeds, [feeds EXCEPT ![w] = @ \cup {s}]}
  BY DEF Subscribe

LEMMA DogSubscribesKeeps == ASSUME ListenerInv, DogSubscribes PROVE ListenerInv'
  <1>1. ListenerTypeOK /\ Disjoint /\ Starting /\ Carried
    BY DEF ListenerInv
  <1>2. PICK s \in ws_map[dog.ws] : /\ Subscribe(dog.ws, s)
                                    /\ dog' = [dog EXCEPT !.done = @ \cup {s}]
    BY DEF DogSubscribes
  <1>3. dog.ws \in Sockets /\ UNCHANGED <<open, ws_map, targets, listed, booted, sync>>
    BY <1>1 DEF DogSubscribes, ListenerTypeOK, Somehow
  <1>4. feeds' \in {feeds, [feeds EXCEPT ![dog.ws] = @ \cup {s}]}
    BY <1>2, SubscribeKnown
  <1>5. s \in Symbols
    BY <1>1, <1>3 DEF ListenerTypeOK
  <1>6. \A x \in Sockets : feeds'[x] \subseteq feeds[x] \cup ws_map[x]
    BY <1>1, <1>3, <1>4 DEF ListenerTypeOK
  <1>7. ListenerTypeOK'
    <2>1. feeds' \in [Sockets -> SUBSET Symbols]
      BY <1>1, <1>3, <1>4, <1>5 DEF ListenerTypeOK
    <2>2. dog' \in [scan : SUBSET Sockets, ws : Somehow, done : SUBSET Symbols]
      BY <1>1, <1>2, <1>5 DEF ListenerTypeOK
    <2> QED BY <1>1, <1>3, <2>1, <2>2 DEF ListenerTypeOK
  <1>8. Disjoint'
    BY <1>1, <1>3 DEF Disjoint
  <1>9. Starting'
    <2>1. Booted
      BY <1>1, ListenerConstants DEF DogSubscribes, Starting, DogSleeps
    <2> QED BY <1>3, <2>1 DEF Starting, Booted
  <1>10. Carried'
    <2>1. \A x \in open' : feeds'[x] \subseteq ws_map'[x] \cup Joining(x)
      BY <1>1, <1>3, <1>6 DEF Carried, ListenerTypeOK
    <2>2. \A x : Joining(x)' = Joining(x)
      BY <1>3 DEF Joining, NextSymbol
    <2>3. Pool' = Pool
      BY <1>3 DEF Pool
    <2> QED BY <1>1, <1>3, <2>1, <2>2, <2>3 DEF Carried
  <1> QED BY <1>7, <1>8, <1>9, <1>10 DEF ListenerInv

LEMMA SyncRestsKeeps == ASSUME ListenerInv, SyncFetches \/ SyncCannotOpen PROVE ListenerInv'
  <1>1. ListenerTypeOK /\ Disjoint /\ Starting /\ Carried
    BY DEF ListenerInv
  <1>2. /\ UNCHANGED <<open, feeds, ws_map, targets, listed, booted, dog>>
        /\ sync.ws = Nowhere /\ sync'.ws = Nowhere /\ sync'.todo \in {{}, listed \ targets}
    BY <1>1 DEF SyncFetches, SyncCannotOpen, SyncSleeps, ListenerTypeOK
  <1>3. sync' \in [todo : SUBSET Symbols, ws : Somehow, own : BOOLEAN]
    <2>1. CASE SyncFetches
      <3>1. sync' = [todo |-> listed \ targets, ws |-> Nowhere, own |-> FALSE]
        BY <2>1 DEF SyncFetches, SyncSleeps
      <3> QED BY <1>1, <3>1 DEF ListenerTypeOK, Somehow
    <2>2. CASE SyncCannotOpen
      BY <2>2 DEF SyncCannotOpen, SyncSleeps, Somehow
    <2> QED BY <2>1, <2>2
  <1>4. ListenerTypeOK' /\ Disjoint'
    BY <1>1, <1>2, <1>3 DEF ListenerTypeOK, Disjoint
  <1>5. Starting'
    <2>1. Booted
      BY <1>1 DEF SyncFetches, SyncCannotOpen, Starting, SyncSleeps
    <2> QED BY <1>2, <2>1 DEF Starting, Booted
  <1>6. Carried'
    <2>1. Nowhere \notin open
      BY <1>1, ListenerConstants DEF ListenerTypeOK
    <2>2. \A w \in open : feeds[w] \subseteq ws_map[w]
      BY <1>1, <1>2, <2>1 DEF Carried, Joining
    <2> QED BY <1>2, <2>1, <2>2 DEF Carried
  <1> QED BY <1>4, <1>5, <1>6 DEF ListenerInv

LEMMA SyncJoinsKeeps ==
    ASSUME ListenerInv, NEW w \in Sockets, SyncJoinsSocket(w) PROVE ListenerInv'
  <1> DEFINE s == NextSymbol
  <1>1. ListenerTypeOK /\ Disjoint /\ Starting /\ Carried
    BY DEF ListenerInv
  <1>2. /\ feeds' \in {feeds, [feeds EXCEPT ![w] = @ \cup {s}]} /\ sync' = [sync EXCEPT !.ws = w]
        /\ sync.todo # {} /\ sync.ws = Nowhere /\ w \in Pool
        /\ UNCHANGED <<open, ws_map, targets, listed, booted, dog>>
    BY SubscribeKnown DEF SyncJoinsSocket, Roomy
  <1>3. sync'.todo = sync.todo /\ sync'.ws = w
    BY <1>1, <1>2 DEF ListenerTypeOK
  <1>4. \A x : Joining(x)' = IF x = w THEN {s} ELSE {}
    BY <1>3 DEF Joining, NextSymbol
  <1>5. s \in sync.todo /\ s \in Symbols
    BY <1>1, <1>2 DEF NextSymbol, ListenerTypeOK
  <1> HIDE DEF s
  <1>6. \A x \in Sockets : feeds'[x] \subseteq feeds[x] \cup (IF x = w THEN {s} ELSE {})
    BY <1>1, <1>2 DEF ListenerTypeOK
  <1>7. ListenerTypeOK'
    <2>1. feeds' \in [Sockets -> SUBSET Symbols]
      BY <1>1, <1>2, <1>5 DEF ListenerTypeOK
    <2>2. sync' \in [todo : SUBSET Symbols, ws : Somehow, own : BOOLEAN]
      BY <1>1, <1>2 DEF ListenerTypeOK, Somehow
    <2> QED BY <1>1, <1>2, <2>1, <2>2 DEF ListenerTypeOK
  <1>8. Disjoint'
    BY <1>1, <1>2, <1>3 DEF Disjoint
  <1>9. Starting'
    <2>1. Booted
      BY <1>1, <1>2 DEF Starting, SyncSleeps
    <2> QED BY <1>2, <2>1 DEF Starting, Booted
  <1>10. Carried'
    <2>1. Nowhere \notin open /\ open \subseteq Sockets
      BY <1>1, ListenerConstants DEF ListenerTypeOK
    <2>2. \A x \in open : feeds[x] \subseteq ws_map[x]
      BY <1>1, <1>2, <2>1 DEF Carried, Joining
    <2>3. \A x \in open' : feeds'[x] \subseteq ws_map'[x] \cup (Joining(x))'
      BY <1>2, <1>4, <1>6, <2>1, <2>2
    <2>4. Pool' = Pool
      BY <1>2 DEF Pool
    <2> QED BY <1>2, <1>3, <2>3, <2>4 DEF Carried
  <1> QED BY <1>7, <1>8, <1>9, <1>10 DEF ListenerInv

LEMMA SyncOpensKeeps == ASSUME ListenerInv, SyncOpensSocket PROVE ListenerInv'
  <1> DEFINE s == NextSymbol
  <1> DEFINE n == NewSocket
  <1>1. ListenerTypeOK /\ Disjoint /\ Starting /\ Carried
    BY DEF ListenerInv
  <1>2. n \in Sockets /\ n \notin open /\ ws_map[n] = {} /\ n # sync.ws
    BY NewSocketIsNew DEF SyncOpensSocket
  <1>3. /\ open' = open \cup {n} /\ sync' = [sync EXCEPT !.ws = n, !.own = TRUE]
        /\ feeds' \in {[feeds EXCEPT ![n] = {s}], [feeds EXCEPT ![n] = {}]}
        /\ sync.todo # {} /\ sync.ws = Nowhere
        /\ UNCHANGED <<ws_map, targets, listed, booted, dog>>
    BY DEF SyncOpensSocket
  <1>4. sync'.todo = sync.todo /\ sync'.ws = n /\ sync'.own = TRUE
    BY <1>1, <1>3 DEF ListenerTypeOK
  <1>5. s \in sync.todo /\ s \in Symbols
    BY <1>1, <1>3 DEF NextSymbol, ListenerTypeOK
  <1>6. NextSymbol' = s
    BY <1>4 DEF NextSymbol
  <1> HIDE DEF s, n
  <1>7. \A x : Joining(x)' = IF x = n THEN {s} ELSE {}
    BY <1>4, <1>6 DEF Joining
  <1>8. \A x \in Sockets : feeds'[x] \subseteq IF x = n THEN {s} ELSE feeds[x]
    BY <1>1, <1>3 DEF ListenerTypeOK
  <1>9. ListenerTypeOK'
    <2>1. feeds' \in [Sockets -> SUBSET Symbols]
      BY <1>1, <1>3, <1>5 DEF ListenerTypeOK
    <2>2. sync' = [todo |-> sync.todo, ws |-> n, own |-> TRUE]
      BY <1>1, <1>3 DEF ListenerTypeOK
    <2>3. sync' \in [todo : SUBSET Symbols, ws : Somehow, own : BOOLEAN]
      BY <1>1, <1>2, <2>2 DEF ListenerTypeOK, Somehow
    <2> QED BY <1>1, <1>2, <1>3, <2>1, <2>3 DEF ListenerTypeOK
  <1>10. Disjoint'
    BY <1>1, <1>3, <1>4 DEF Disjoint
  <1>11. Starting'
    <2>1. Booted
      BY <1>1, <1>3 DEF Starting, SyncSleeps
    <2> QED BY <1>3, <2>1 DEF Starting, Booted
  <1>12. Carried'
    <2>1. Nowhere \notin open /\ open \subseteq Sockets
      BY <1>1, ListenerConstants DEF ListenerTypeOK
    <2>2. \A x \in open : feeds[x] \subseteq ws_map[x]
      BY <1>1, <1>3, <2>1 DEF Carried, Joining
    <2>3. \A x \in open' : feeds'[x] \subseteq ws_map'[x] \cup (Joining(x))'
      BY <1>2, <1>3, <1>7, <1>8, <2>1, <2>2
    <2> QED BY <1>3, <1>4, <2>3 DEF Carried
  <1> QED BY <1>9, <1>10, <1>11, <1>12 DEF ListenerInv

\* The joining symbol becomes the pool's, or its socket is closed already.
LEMMA SyncFinishesKeeps == ASSUME ListenerInv, SyncFinishes PROVE ListenerInv'
  <1> DEFINE s == NextSymbol
  <1>1. ListenerTypeOK /\ Disjoint /\ Starting /\ Carried
    BY DEF ListenerInv
  <1>2. sync.ws # Nowhere /\ sync.ws \in Sockets /\ UNCHANGED <<open, feeds, listed, booted, dog>>
    BY <1>1 DEF SyncFinishes, ListenerTypeOK, Somehow
  <1>3. s \in sync.todo /\ s \in Symbols /\ s \notin targets
    BY <1>1, <1>2 DEF NextSymbol, ListenerTypeOK, Carried, Disjoint
  <1>4. Nowhere \notin open /\ open \subseteq Sockets
    BY <1>1, ListenerConstants DEF ListenerTypeOK
  <1>5. \A x \in open : feeds[x] \subseteq ws_map[x] \cup (IF x = sync.ws THEN {s} ELSE {})
    BY <1>1 DEF Carried, Joining
  <1>6. Starting'
    <2>1. Booted
      BY <1>1, <1>2 DEF Starting, SyncSleeps
    <2> QED BY <1>2, <2>1 DEF Starting, Booted
  <1>7. CASE sync.own \/ sync.ws \in Pool
    <2>1. /\ ws_map' = [ws_map EXCEPT ![sync.ws] = @ \cup {s}] /\ targets' = targets \cup {s}
          /\ sync' = [todo |-> sync.todo \ {s}, ws |-> Nowhere, own |-> FALSE]
      BY <1>7 DEF SyncFinishes
    <2> HIDE DEF s
    <2>2. \A x \in Sockets : ws_map'[x] = ws_map[x] \cup (IF x = sync.ws THEN {s} ELSE {})
      BY <1>1, <2>1 DEF ListenerTypeOK
    <2>3. ListenerTypeOK'
      <3>1. ws_map' \in [Sockets -> SUBSET Symbols] /\ targets' \in SUBSET Symbols
        BY <1>1, <1>2, <1>3, <2>1 DEF ListenerTypeOK
      <3>2. sync' \in [todo : SUBSET Symbols, ws : Somehow, own : BOOLEAN]
        BY <1>1, <2>1 DEF ListenerTypeOK, Somehow
      <3> QED BY <1>1, <1>2, <3>1, <3>2 DEF ListenerTypeOK
    <2>4. Disjoint'
      <3>1. \A x \in Sockets : s \notin ws_map[x]
        BY <1>1, <1>3 DEF Disjoint
      <3>2. sync'.todo = sync.todo \ {s}
        BY <2>1
      <3> QED BY <1>1, <2>1, <2>2, <3>1, <3>2 DEF Disjoint
    <2>5. Carried'
      <3>1. \A x \in open' : feeds'[x] \subseteq ws_map'[x]
        BY <1>2, <1>4, <1>5, <2>2
      <3> QED BY <1>2, <1>4, <2>1, <3>1 DEF Carried
    <2> QED BY <1>6, <2>3, <2>4, <2>5 DEF ListenerInv
  <1>8. CASE ~sync.own /\ sync.ws \notin Pool
    <2>1. sync' = SyncSleeps /\ UNCHANGED <<ws_map, targets>>
      BY <1>8 DEF SyncFinishes
    <2>2. ListenerTypeOK' /\ Disjoint'
      BY <1>1, <1>2, <2>1 DEF ListenerTypeOK, Disjoint, SyncSleeps, Somehow
    <2>3. sync.ws \notin open
      BY <1>1, <1>8 DEF Carried
    <2>4. Carried'
      BY <1>2, <1>4, <1>5, <2>1, <2>3 DEF Carried, SyncSleeps
    <2> QED BY <1>6, <2>2, <2>4 DEF ListenerInv
  <1> QED BY <1>7, <1>8

LEMMA ListenerSteps == ASSUME ListenerInv, [ListenerNext]_lisVars PROVE ListenerInv'
  <1>1. CASE Watchdog
    BY <1>1, DogOnlyKeeps, DogReconnectsKeeps, DogLosesKeeps, DogSubscribesKeeps DEF Watchdog
  <1>2. CASE Sync
    BY <1>2, SyncRestsKeeps, SyncJoinsKeeps, SyncOpensKeeps, SyncFinishesKeeps DEF Sync
  <1>3. CASE \/ \E w \in Sockets : Message(w) \/ Silence(w)
             \/ \E s \in Later : ExchangeLists(s)
             \/ UNCHANGED lisVars
    <2>1. UNCHANGED <<open, feeds, ws_map, targets, booted, dog, sync>>
      BY <1>3 DEF Message, Silence, ExchangeLists, lisVars
    <2>2. listed' \in SUBSET Symbols
      BY <1>3 DEF Message, Silence, ExchangeLists, lisVars, ListenerInv, ListenerTypeOK, Symbols
    <2> QED BY <2>1, <2>2, ListenerFrame
  <1> QED BY <1>1, <1>2, <1>3, ConnectKeeps DEF ListenerNext

\* No symbol's liquidations arrive through two sockets, for any symbols, chunks
\* and sockets: although the watchdog moves a chunk while the listing sync is
\* adding a symbol to it.
THEOREM FeedsNeverDouble == ListenerSpec => []OneFeedPerSymbol
  BY ListenerStarts, ListenerSteps, FeedsAreDisjoint, PTL DEF ListenerSpec

-----------------------------------------------------------------------------
(* Liquidations: the order of the deque and what is in it.                   *)

LiquidationsTypeOK ==
  /\ handled \in 0 .. MaxHandled /\ what \in [Ids -> Sides] /\ memory \in Seq(Ids)
  /\ age \in [Ids -> 0 .. Old] /\ stored \in [Ids -> 0 .. NoRow]
  /\ saving \in SUBSET Ids /\ known \in SUBSET Ids

\* The memory holds no liquidation twice, and the older of two comes first.
Ordered == \A i, j \in DOMAIN memory :
             i < j => memory[i] # memory[j] /\ age[memory[i]] >= age[memory[j]]

\* It holds what is known of the last hour, and nothing unknown.
Complete ==
  /\ \A i \in DOMAIN memory : memory[i] \in known
  /\ \A e \in known : age[e] <= Hour => \E i \in DOMAIN memory : memory[i] = e

\* What was not handled yet is neither known nor in the table.
Handled ==
  /\ \A e \in saving \cup known : e <= handled
  /\ \A e \in Ids : stored[e] # NoRow => e <= handled

LiquidationsInv == LiquidationsTypeOK /\ Ordered /\ Complete /\ Handled

LEMMA LiquidationsStart == LiquidationsInit => LiquidationsInv
  <1> SUFFICES ASSUME LiquidationsInit PROVE LiquidationsInv
    OBVIOUS
  <1>1. memory = <<>> /\ DOMAIN memory = {}
    BY DEF LiquidationsInit
  <1>2. LiquidationsTypeOK
    BY <1>1, LiquidationsAssumption DEF LiquidationsInit, LiquidationsTypeOK, Sides, Old, NoRow
  <1> QED BY <1>1, <1>2 DEF LiquidationsInv, Ordered, Complete, Handled, LiquidationsInit

\* Windows and ages are whole, and Old is beyond every window.
LEMMA Windows ==
    /\ Cascade \in Nat /\ Squeeze \in Nat /\ Top \in Nat /\ Hour \in Nat
    /\ Cascade <= Hour /\ Squeeze <= Hour /\ Top <= Hour /\ Old = Hour + 1 /\ NoRow = Hour + 2
  BY LiquidationsAssumption DEF Old, NoRow

LEMMA HandleKeeps ==
    ASSUME LiquidationsInv, NEW side \in Sides, Handle(side) PROVE LiquidationsInv'
  <1>1. /\ LiquidationsTypeOK /\ Ordered /\ Complete /\ Handled /\ MaxHandled \in Nat
        /\ memory \in Seq(Ids)
    BY LiquidationsAssumption DEF LiquidationsInv, LiquidationsTypeOK
  <1>2. handled' \in Ids /\ handled' = handled + 1 /\ handled' \notin known
    BY <1>1 DEF Handle, LiquidationsTypeOK, Handled, Ids
  <1> DEFINE e == handled'
  <1>3. /\ memory' = Append(memory, e) /\ age' = [age EXCEPT ![e] = 0] /\ stored' = stored
        /\ what' = [what EXCEPT ![e] = side] /\ saving' = saving \cup {e} /\ known' = known \cup {e}
    BY DEF Handle
  <1>4. /\ memory' \in Seq(Ids) /\ DOMAIN memory' = 1 .. Len(memory) + 1 /\ Len(memory) \in Nat
        /\ DOMAIN memory = 1 .. Len(memory)
        /\ \A i \in 1 .. Len(memory) : memory'[i] = memory[i]
        /\ memory'[Len(memory) + 1] = e
    BY <1>1, <1>2, <1>3
  <1>5. \A d \in Ids : age'[d] = IF d = e THEN 0 ELSE age[d]
    BY <1>1, <1>3 DEF LiquidationsTypeOK
  <1>6. LiquidationsTypeOK'
    <2>1. handled' \in 0 .. MaxHandled /\ 0 \in 0 .. Old
      BY <1>1, <1>2, Windows DEF Ids
    <2>2. age' \in [Ids -> 0 .. Old] /\ what' \in [Ids -> Sides]
      BY <1>1, <1>2, <1>3, <2>1 DEF LiquidationsTypeOK
    <2>3. saving' \in SUBSET Ids /\ known' \in SUBSET Ids
      BY <1>1, <1>2, <1>3 DEF LiquidationsTypeOK
    <2> QED BY <1>1, <1>3, <1>4, <2>1, <2>2, <2>3 DEF LiquidationsTypeOK
  <1>7. \A i \in DOMAIN memory : memory[i] \in known /\ memory[i] # e /\ memory[i] \in Ids
    BY <1>1, <1>2 DEF Complete, LiquidationsTypeOK
  <1>8. Ordered'
    <2> SUFFICES ASSUME NEW i \in DOMAIN memory', NEW j \in DOMAIN memory', i < j
                 PROVE  memory'[i] # memory'[j] /\ age'[memory'[i]] >= age'[memory'[j]]
      BY DEF Ordered
    <2>1. i \in DOMAIN memory /\ memory'[i] = memory[i] /\ age'[memory'[i]] = age[memory[i]]
      BY <1>4, <1>5, <1>7
    <2>2. CASE j \in DOMAIN memory
      <3>1. memory'[j] = memory[j] /\ age'[memory'[j]] = age[memory[j]]
        BY <1>4, <1>5, <1>7, <2>2
      <3> QED BY <1>1, <2>1, <2>2, <3>1 DEF Ordered
    <2>3. CASE j = Len(memory) + 1
      <3>1. memory'[j] = e /\ age'[memory'[j]] = 0
        BY <1>2, <1>4, <1>5, <2>3
      <3>2. age[memory[i]] \in 0 .. Old
        BY <1>1, <1>7, <2>1 DEF LiquidationsTypeOK
      <3> QED BY <1>7, <2>1, <3>1, <3>2, Windows
    <2> QED BY <1>4, <2>2, <2>3
  <1>9. Complete'
    <2>1. \A i \in DOMAIN memory' : memory'[i] \in known'
      BY <1>3, <1>4, <1>7
    <2>2. ASSUME NEW d \in known', age'[d] <= Hour PROVE \E i \in DOMAIN memory' : memory'[i] = d
      <3>1. CASE d = e
        BY <1>4, <3>1
      <3>2. CASE d # e
        <4>1. d \in known /\ d \in Ids /\ age[d] <= Hour
          BY <1>1, <1>3, <1>5, <2>2, <3>2 DEF LiquidationsTypeOK
        <4>2. PICK i \in DOMAIN memory : memory[i] = d
          BY <1>1, <4>1 DEF Complete
        <4> QED BY <1>4, <4>2
      <3> QED BY <3>1, <3>2
    <2> QED BY <2>1, <2>2 DEF Complete
  <1>10. Handled'
    BY <1>1, <1>2, <1>3 DEF Handled, LiquidationsTypeOK, Ids
  <1> QED BY <1>6, <1>8, <1>9, <1>10 DEF LiquidationsInv

LEMMA CleanupKeeps == ASSUME LiquidationsInv, Cleanup PROVE LiquidationsInv'
  <1>1. LiquidationsTypeOK /\ Ordered /\ Complete /\ Handled /\ memory \in Seq(Ids)
    BY DEF LiquidationsInv, LiquidationsTypeOK
  <1>2. UNCHANGED <<handled, what, age, stored, saving, known>>
    BY DEF Cleanup
  <1>3. PICK n \in DOMAIN memory :
          /\ \A i \in 1 .. n : age[memory[i]] > Hour
          /\ memory' = SubSeq(memory, n + 1, Len(memory))
    BY DEF Cleanup
  <1>4. Len(memory) \in Nat /\ n \in 1 .. Len(memory) /\ DOMAIN memory = 1 .. Len(memory)
    BY <1>1, <1>3
  <1>5. /\ memory' \in Seq(Ids) /\ DOMAIN memory' = 1 .. Len(memory) - n
        /\ \A i \in 1 .. Len(memory) - n : memory'[i] = memory[n + i]
    <2>1. n + 1 \in 1 .. Len(memory) + 1 /\ Len(memory) \in n .. Len(memory)
      BY <1>4
    <2>2. memory' \in Seq(Ids) /\ Len(memory') = Len(memory) - n
          /\ \A i \in 1 .. Len(memory) - n : memory'[i] = memory[n + 1 + i - 1]
      BY <1>1, <1>3, <1>4, <2>1, SubSeqProperties
    <2> QED BY <1>4, <2>2
  <1>6. LiquidationsTypeOK'
    BY <1>1, <1>2, <1>5 DEF LiquidationsTypeOK
  <1>7. Ordered'
    <2> SUFFICES ASSUME NEW i \in DOMAIN memory', NEW j \in DOMAIN memory', i < j
                 PROVE  memory'[i] # memory'[j] /\ age'[memory'[i]] >= age'[memory'[j]]
      BY DEF Ordered
    <2>1. n + i \in DOMAIN memory /\ n + j \in DOMAIN memory /\ n + i < n + j
      BY <1>4, <1>5
    <2> QED BY <1>1, <1>2, <1>5, <2>1 DEF Ordered
  <1>8. Complete'
    <2>1. \A i \in DOMAIN memory' : memory'[i] \in known'
      <3> SUFFICES ASSUME NEW i \in DOMAIN memory' PROVE memory'[i] \in known
        BY <1>2
      <3>1. n + i \in DOMAIN memory
        BY <1>4, <1>5
      <3> QED BY <1>1, <1>5, <3>1 DEF Complete
    <2>2. ASSUME NEW d \in known', age'[d] <= Hour PROVE \E i \in DOMAIN memory' : memory'[i] = d
      <3>1. PICK i \in DOMAIN memory : memory[i] = d
        BY <1>1, <1>2, <2>2 DEF Complete
      <3>2. ~(age[d] > Hour)
        BY <1>1, <1>2, <2>2, Windows DEF LiquidationsTypeOK
      <3>3. i > n
        BY <1>3, <1>4, <3>1, <3>2
      <3>4. i - n \in DOMAIN memory' /\ memory'[i - n] = memory[i]
        BY <1>4, <1>5, <3>1, <3>3
      <3> QED BY <3>1, <3>4
    <2> QED BY <2>1, <2>2 DEF Complete
  <1>9. Handled'
    BY <1>1, <1>2 DEF Handled
  <1> QED BY <1>6, <1>7, <1>8, <1>9 DEF LiquidationsInv

\* A reading of the table has every recent row, once.
LEMMA ReadingsAreComplete ==
    ASSUME LiquidationsTypeOK, NEW q \in Readings
    PROVE  /\ q \in Seq(Ids) /\ Recent \in SUBSET Ids
           /\ \A i \in DOMAIN q : q[i] \in Recent
           /\ \A e \in Recent : \E i \in DOMAIN q : q[i] = e
  <1>1. Recent \in SUBSET Ids
    BY DEF Recent
  <1>2. IsFiniteSet(Recent)
    <2>1. IsFiniteSet(1 .. MaxHandled)
      BY LiquidationsAssumption, FS_Interval
    <2> QED BY <1>1, <2>1, FS_Subset DEF Ids
  <1> DEFINE n == Cardinality(Recent)
  <1>3. n \in Nat
    BY <1>2, FS_CardinalityType
  <1>4. IsFiniteSet(1 .. n) /\ Cardinality(1 .. n) = n
    <2>1. 1 \in Int /\ n \in Int
      BY <1>3
    <2>2. IsFiniteSet(1 .. n) /\ Cardinality(1 .. n) = IF 1 > n THEN 0 ELSE n - 1 + 1
      BY <2>1, FS_Interval
    <2> QED BY <1>3, <2>2
  <1>5. q \in [1 .. n -> Recent] /\ \A i, j \in 1 .. n : i < j => q[i] # q[j]
    BY DEF Readings
  <1> HIDE DEF n
  <1>6. \A i, j \in 1 .. n : q[i] = q[j] => i = j
    BY <1>3, <1>5
  <1>7. q \in Injection(1 .. n, Recent)
    BY <1>5, <1>6 DEF Injection, IsInjective
  <1>8. q \in Surjection(1 .. n, Recent)
    <2>1. Cardinality(1 .. n) = Cardinality(Recent)
      BY <1>4 DEF n
    <2> QED BY <1>2, <1>7, <2>1, FS_Injection
  <1>9. \A e \in Recent : \E i \in 1 .. n : q[i] = e
    BY <1>8 DEF Surjection
  <1>10. q \in Seq(Ids)
    BY <1>1, <1>3, <1>5
  <1> QED BY <1>1, <1>5, <1>9, <1>10

LEMMA RestartKeeps == ASSUME LiquidationsInv, Restart PROVE LiquidationsInv'
  <1>1. LiquidationsTypeOK /\ Handled
    BY DEF LiquidationsInv
  <1>2. /\ memory' \in Readings
        /\ \A i, j \in DOMAIN memory' : i < j => stored[memory'[i]] >= stored[memory'[j]]
        /\ \A i, j \in DOMAIN memory' : i < j => memory'[i] # memory'[j]
    BY DEF Restart, Loaded, Readings
  <1>3. /\ memory' \in Seq(Ids) /\ Recent \in SUBSET Ids
        /\ \A i \in DOMAIN memory' : memory'[i] \in Recent
        /\ \A e \in Recent : \E i \in DOMAIN memory' : memory'[i] = e
    BY <1>1, <1>2, ReadingsAreComplete
  <1>4. /\ age' = [e \in Ids |-> IF e \in Recent THEN stored[e] ELSE age[e]]
        /\ known' = Recent /\ saving' = {} /\ UNCHANGED <<handled, what, stored>>
    BY DEF Restart
  <1>5. \A e \in Recent : stored[e] \in 0 .. Hour /\ stored[e] # NoRow
    BY <1>1, Windows DEF Recent, LiquidationsTypeOK
  <1>6. \A e \in Recent : age'[e] = stored[e]
    BY <1>3, <1>4
  <1>7. LiquidationsTypeOK'
    <2>1. age' \in [Ids -> 0 .. Old]
      BY <1>1, <1>4, <1>5, Windows DEF LiquidationsTypeOK
    <2> QED BY <1>1, <1>3, <1>4, <2>1 DEF LiquidationsTypeOK
  <1>8. Ordered'
    BY <1>2, <1>3, <1>6 DEF Ordered
  <1>9. Complete'
    BY <1>3, <1>4 DEF Complete
  <1>10. Handled'
    BY <1>1, <1>3, <1>4, <1>5 DEF Handled
  <1> QED BY <1>7, <1>8, <1>9, <1>10 DEF LiquidationsInv

\* Time takes every age on, up to Old, and keeps their order.
LEMMA OlderKeepsOrder ==
    /\ \A a \in 0 .. Old : Older(a) \in 0 .. Old /\ (Older(a) <= Hour => a <= Hour)
    /\ \A a \in 0 .. NoRow : Older(a) \in 0 .. NoRow /\ (Older(a) # NoRow => a # NoRow)
    /\ \A a, b \in 0 .. Old : a >= b => Older(a) >= Older(b)
  BY Windows DEF Older

LEMMA LiqTickKeeps == ASSUME LiquidationsInv, LiqTick PROVE LiquidationsInv'
  <1>1. LiquidationsTypeOK /\ Ordered /\ Complete /\ Handled
    BY DEF LiquidationsInv
  <1>2. /\ age' = [e \in Ids |-> IF e \in known THEN Older(age[e]) ELSE age[e]]
        /\ stored' = [e \in Ids |-> Older(stored[e])]
        /\ UNCHANGED <<handled, what, memory, saving, known>>
    BY DEF LiqTick
  <1>3. \A e \in Ids : age[e] \in 0 .. Old /\ stored[e] \in 0 .. NoRow
    BY <1>1 DEF LiquidationsTypeOK
  <1>4. \A e \in known : age'[e] = Older(age[e]) /\ e \in Ids
    BY <1>1, <1>2 DEF LiquidationsTypeOK
  <1>5. LiquidationsTypeOK'
    <2>1. age' \in [Ids -> 0 .. Old] /\ stored' \in [Ids -> 0 .. NoRow]
      BY <1>2, <1>3, OlderKeepsOrder
    <2> QED BY <1>1, <1>2, <2>1 DEF LiquidationsTypeOK
  <1>6. Ordered'
    <2> SUFFICES ASSUME NEW i \in DOMAIN memory, NEW j \in DOMAIN memory, i < j
                 PROVE  memory[i] # memory[j] /\ age'[memory[i]] >= age'[memory[j]]
      BY <1>2 DEF Ordered
    <2>1. memory[i] \in known /\ memory[j] \in known
      BY <1>1 DEF Complete
    <2> QED BY <1>1, <1>3, <1>4, <2>1, OlderKeepsOrder DEF Ordered
  <1>7. Complete'
    BY <1>1, <1>2, <1>3, <1>4, OlderKeepsOrder DEF Complete
  <1>8. Handled'
    BY <1>1, <1>2, <1>3, OlderKeepsOrder DEF Handled
  <1> QED BY <1>5, <1>6, <1>7, <1>8 DEF LiquidationsInv

\* Saving and the retention change the table alone.
LEMMA TableKeeps ==
    ASSUME LiquidationsInv, (\E e \in Ids : Save(e)) \/ Retention \/ UNCHANGED liqVars
    PROVE  LiquidationsInv'
  <1>1. LiquidationsTypeOK /\ Ordered /\ Complete /\ Handled /\ stored \in [Ids -> 0 .. NoRow]
    BY DEF LiquidationsInv, LiquidationsTypeOK
  <1>2. UNCHANGED <<handled, what, memory, age, known>> /\ saving' \subseteq saving
    BY DEF Save, Retention, liqVars
  <1>3. /\ stored' \in [Ids -> 0 .. NoRow]
        /\ \A d \in Ids : stored'[d] # NoRow => stored[d] # NoRow \/ d \in saving
    <2>1. ASSUME NEW e \in Ids, Save(e) PROVE stored' \in {stored, [stored EXCEPT ![e] = 0]} /\ e \in saving
      BY <2>1 DEF Save
    <2>2. Retention => stored' = [e \in Ids |-> IF stored[e] = Old THEN NoRow ELSE stored[e]]
      BY DEF Retention
    <2>3. UNCHANGED liqVars => stored' = stored
      BY DEF liqVars
    <2> QED BY <1>1, <2>1, <2>2, <2>3, Windows
  <1>4. LiquidationsTypeOK'
    BY <1>1, <1>2, <1>3 DEF LiquidationsTypeOK
  <1>5. Ordered' /\ Complete'
    BY <1>1, <1>2 DEF Ordered, Complete
  <1>6. Handled'
    BY <1>1, <1>2, <1>3 DEF Handled
  <1> QED BY <1>4, <1>5, <1>6 DEF LiquidationsInv

LEMMA LiquidationsSteps ==
    ASSUME LiquidationsInv, [LiquidationsNext]_liqVars PROVE LiquidationsInv'
  BY HandleKeeps, CleanupKeeps, RestartKeeps, LiqTickKeeps, TableKeeps DEF LiquidationsNext

\* In an ordered memory a pass that stops at the first old entry misses none.
LEMMA PassesAreExact == ASSUME LiquidationsInv PROVE MetricsExact
  <1>1. LiquidationsTypeOK /\ Ordered /\ Complete /\ memory \in Seq(Ids)
    BY DEF LiquidationsInv, LiquidationsTypeOK
  <1>2. DOMAIN memory = 1 .. Len(memory) /\ Len(memory) \in Nat
    BY <1>1
  <1>3. \A e \in Ids : age[e] \in 0 .. Old
    BY <1>1 DEF LiquidationsTypeOK
  <1>4. \A i \in DOMAIN memory : memory[i] \in known /\ memory[i] \in Ids
    BY <1>1 DEF Complete
  <1>5. ASSUME NEW i \in DOMAIN memory, NEW j \in i .. Len(memory)
        PROVE  j \in DOMAIN memory /\ age[memory[j]] <= age[memory[i]]
    <2>1. j \in DOMAIN memory
      BY <1>2
    <2>2. CASE i = j
      BY <1>3, <1>4, <2>1, <2>2, Windows
    <2>3. CASE i < j
      BY <1>1, <1>3, <1>4, <2>1, <2>3, Windows DEF Ordered
    <2> QED BY <1>2, <2>1, <2>2, <2>3
  <1>6. ASSUME NEW i \in DOMAIN memory, NEW window \in Nat, age[memory[i]] <= window
        PROVE  \A j \in i .. Len(memory) : age[memory[j]] <= window
    <2> SUFFICES ASSUME NEW j \in i .. Len(memory) PROVE age[memory[j]] <= window
      OBVIOUS
    <2>1. j \in DOMAIN memory /\ age[memory[j]] <= age[memory[i]]
      BY <1>5
    <2>2. age[memory[j]] \in Int /\ age[memory[i]] \in Int
      BY <1>3, <1>4, <2>1, Windows
    <2> QED BY <1>6, <2>1, <2>2
  <1>7. ASSUME NEW e \in known, age[e] <= Hour PROVE \E i \in DOMAIN memory : memory[i] = e
    BY <1>1, <1>7 DEF Complete
  <1>8. ASSUME NEW side \in Sides, NEW window \in {Cascade, Squeeze, Hour}
        PROVE  Counted(Within(Visited(side), window)) = Truly(side, window)
    <2>0. window \in Nat /\ window <= Hour
      BY Windows
    <2>1. ASSUME NEW e \in Counted(Within(Visited(side), window)) PROVE e \in Truly(side, window)
      <3>1. PICK i \in DOMAIN memory : e = memory[i] /\ Side(i) = side /\ age[memory[i]] <= window
        BY <2>1 DEF Counted, Within, Visited
      <3> QED BY <1>4, <3>1 DEF Truly, Side
    <2>2. ASSUME NEW e \in Truly(side, window) PROVE e \in Counted(Within(Visited(side), window))
      <3>1. e \in known /\ what[e] = side /\ age[e] <= window /\ age[e] \in Int
        BY <1>1, <1>3, <2>2, Windows DEF Truly, LiquidationsTypeOK
      <3>2. PICK i \in DOMAIN memory : memory[i] = e
        BY <1>7, <2>0, <3>1, Windows
      <3>3. \A j \in i .. Len(memory) : age[memory[j]] <= Hour
        BY <1>6, <2>0, <3>1, <3>2, Windows
      <3>4. i \in Visited(side)
        BY <3>1, <3>2, <3>3 DEF Visited, Side
      <3> QED BY <3>1, <3>2, <3>4 DEF Counted, Within
    <2> QED BY <2>1, <2>2
  <1>9. ASSUME NEW side \in Sides
        PROVE  Counted({i \in VisitedForTop : Side(i) = side}) = Truly(side, Top)
    <2>1. ASSUME NEW e \in Counted({i \in VisitedForTop : Side(i) = side}) PROVE e \in Truly(side, Top)
      <3>1. PICK i \in VisitedForTop : e = memory[i] /\ Side(i) = side
        BY <2>1 DEF Counted
      <3>2. i \in DOMAIN memory /\ i \in i .. Len(memory)
        BY <1>2, <3>1 DEF VisitedForTop
      <3>3. age[memory[i]] <= Top
        BY <3>1, <3>2 DEF VisitedForTop
      <3> QED BY <1>4, <3>1, <3>2, <3>3 DEF Truly, Side
    <2>2. ASSUME NEW e \in Truly(side, Top) PROVE e \in Counted({i \in VisitedForTop : Side(i) = side})
      <3>1. e \in known /\ what[e] = side /\ age[e] <= Top /\ age[e] \in Int
        BY <1>1, <1>3, <2>2, Windows DEF Truly, LiquidationsTypeOK
      <3>2. PICK i \in DOMAIN memory : memory[i] = e
        BY <1>7, <3>1, Windows
      <3>3. \A j \in i .. Len(memory) : age[memory[j]] <= Top
        BY <1>6, <3>1, <3>2, Windows
      <3>4. i \in VisitedForTop /\ Side(i) = side
        BY <3>1, <3>2, <3>3 DEF VisitedForTop, Side
      <3> QED BY <3>2, <3>4 DEF Counted
    <2> QED BY <2>1, <2>2
  <1>10. \A i, j \in DOMAIN memory : memory[i] = memory[j] => i = j
    BY <1>1, <1>2 DEF Ordered
  <1> QED BY <1>8, <1>9, <1>10 DEF MetricsExact

\* The one pass over the memory counts exactly the liquidations known, in every
\* window and on each side, for any number of them: through the clean-up, the
\* saves that come late, the retention and any number of restarts.
THEOREM SumsAreExact == LiquidationsSpec => []MetricsExact
  BY LiquidationsStart, LiquidationsSteps, PassesAreExact, PTL DEF LiquidationsSpec

-----------------------------------------------------------------------------
(* Audience: what is left of a subscription that ended.                      *)

Written == {"toggle", "preset", "mute", "welcome", "answer"}

UserRow  == [paid : SUBSET Columns, on : BOOLEAN, end : Nat, blocked : BOOLEAN]
UserTask == [pc : {"idle", "write", "read", "publish"}, what : Written \cup {"none"},
             vip : BOOLEAN, had : SUBSET (Columns \cup {"on"})]

AudienceTypeOK ==
  /\ now \in Nat /\ row \in UserRow /\ excused \in BOOLEAN
  /\ task \in [Tasks -> UserTask] /\ dialog \in {"no", "vip"}

\* Whoever is about to write a setting that only a VIP may have was admitted
\* as one, or is the onboarding.
Admitted ==
  \A h \in Tasks : task[h].pc = "write" /\ task[h].what \notin {"mute", "welcome"} => task[h].vip

AudienceInv == AudienceTypeOK /\ Admitted /\ PaidSettingsEndWithVip

\* The parts of the state that AudienceInv is about.
LEMMA AudienceFrame ==
    ASSUME AudienceInv, UNCHANGED <<now, row, excused, task, dialog>> PROVE AudienceInv'
  BY DEF AudienceInv, AudienceTypeOK, Admitted, PaidSettingsEndWithVip

\* A task moves on without a write: it is at none afterwards.
LEMMA TaskMovesOn ==
    ASSUME AudienceTypeOK, Admitted, NEW h \in Tasks, NEW t \in UserTask, t.pc # "write",
           task' = [task EXCEPT ![h] = t]
    PROVE  task' \in [Tasks -> UserTask] /\ Admitted'
  BY DEF AudienceTypeOK, Admitted

LEMMA NoTaskTyped ==
    ASSUME NEW pc \in {"idle", "read"}, NEW w \in Written \cup {"none"}
    PROVE  /\ NoTask \in UserTask /\ NoTask.pc # "write"
           /\ [NoTask EXCEPT !.pc = pc, !.what = w] \in UserTask
           /\ [NoTask EXCEPT !.pc = pc, !.what = w].pc # "write"
           /\ [NoTask EXCEPT !.pc = pc] \in UserTask
           /\ [NoTask EXCEPT !.pc = pc].pc # "write"
  BY DEF NoTask, UserTask

LEMMA WritesKeep ==
    ASSUME AudienceInv, NEW h \in Tasks, NEW w \in Written, NEW had \in SUBSET (Columns \cup {"on"}),
           Writes(h, w, had), w \in {"mute", "welcome"} \/ Admits(row)
    PROVE  AudienceInv'
  <1> DEFINE t == [pc |-> "write", what |-> w, vip |-> IsVip(row), had |-> had]
  <1>1. AudienceTypeOK /\ Admitted /\ PaidSettingsEndWithVip
    BY DEF AudienceInv
  <1>2. IsVip(row) \in BOOLEAN
    BY DEF IsVip
  <1>3. t \in UserTask
    BY <1>2 DEF UserTask, Written
  <1>4. w \in {"mute", "welcome"} \/ t.vip
    BY DEF Admits
  <1>5. t.what = w
    OBVIOUS
  <1>6. task' = [task EXCEPT ![h] = t] /\ UNCHANGED <<now, row, excused, dialog>>
    BY DEF Writes, audVars
  <1> HIDE DEF t
  <1>7. AudienceTypeOK' /\ Admitted'
    BY <1>1, <1>3, <1>4, <1>5, <1>6 DEF AudienceTypeOK, Admitted
  <1>8. PaidSettingsEndWithVip'
    BY <1>1, <1>6 DEF PaidSettingsEndWithVip
  <1> QED BY <1>7, <1>8 DEF AudienceInv

\* The handlers up to their write.
LEMMA PressesKeep ==
    ASSUME AudienceInv, NEW h \in Tasks,
           PressToggle(h) \/ PressPreset(h) \/ PressMute(h) \/ PressWelcome(h)
    PROVE  AudienceInv'
  <1>1. row.paid \in SUBSET Columns /\ row.on \in BOOLEAN
    BY DEF AudienceInv, AudienceTypeOK, UserRow
  <1>2. CASE PressToggle(h)
    BY <1>1, <1>2, WritesKeep DEF PressToggle, Written
  <1>3. CASE PressPreset(h)
    BY <1>3, WritesKeep DEF PressPreset, Written
  <1>4. CASE PressMute(h)
    <2>1. (IF row.on THEN {"on"} ELSE {}) \in SUBSET (Columns \cup {"on"})
      OBVIOUS
    <2> QED BY <1>4, <2>1, WritesKeep DEF PressMute, Written
  <1>5. CASE PressWelcome(h)
    BY <1>5, WritesKeep DEF PressWelcome, Written
  <1> QED BY <1>2, <1>3, <1>4, <1>5

\* A dialogue opens for a VIP only, and its answer is taken as a VIP's.
LEMMA DialogsKeep ==
    ASSUME AudienceInv, OpenDialog \/ \E h \in Tasks : Answer(h) PROVE AudienceInv'
  <1>1. AudienceTypeOK /\ Admitted /\ PaidSettingsEndWithVip
    BY DEF AudienceInv
  <1>2. CASE OpenDialog
    BY <1>1, <1>2 DEF OpenDialog, Admits, AudienceInv, AudienceTypeOK, Admitted, PaidSettingsEndWithVip
  <1>3. ASSUME NEW h \in Tasks, Answer(h) PROVE AudienceInv'
    <2> DEFINE t == [pc |-> "write", what |-> "answer", vip |-> dialog = "vip", had |-> {}]
    <2>1. t \in UserTask /\ t.vip
      BY <1>1, <1>3 DEF Answer, UserTask, Written, AudienceTypeOK
    <2>2. task' = [task EXCEPT ![h] = t] /\ UNCHANGED <<now, row, excused, dialog>>
      BY <1>3 DEF Answer
    <2> HIDE DEF t
    <2>3. AudienceTypeOK' /\ Admitted'
      BY <1>1, <2>1, <2>2 DEF AudienceTypeOK, Admitted
    <2>4. PaidSettingsEndWithVip'
      BY <1>1, <2>2 DEF PaidSettingsEndWithVip
    <2> QED BY <2>3, <2>4 DEF AudienceInv
  <1> QED BY <1>2, <1>3

\* A write after the end of the subscription is one that excuses itself.
LEMMA WriteKeeps ==
    ASSUME AudienceInv, NEW h \in Tasks, Write(h) PROVE AudienceInv'
  <1>1. AudienceTypeOK /\ Admitted /\ PaidSettingsEndWithVip
    BY DEF AudienceInv
  <1>2. task[h] \in UserTask /\ row \in UserRow /\ task[h].pc = "write"
    BY <1>1 DEF Write, Does, AudienceTypeOK
  <1>3. task' \in [Tasks -> UserTask] /\ Admitted'
    <2> DEFINE w == IF task[h].what = "answer" THEN "answer" ELSE "none"
    <2> DEFINE t == [NoTask EXCEPT !.pc = "read", !.what = w]
    <2>1. w \in Written \cup {"none"}
      BY DEF Written
    <2>2. task' = [task EXCEPT ![h] = t]
      BY DEF Write
    <2> HIDE DEF w
    <2>3. t \in UserTask /\ t.pc # "write"
      BY <2>1, NoTaskTyped
    <2> HIDE DEF t
    <2> QED BY <1>1, <2>2, <2>3, TaskMovesOn
  <1>4. CASE task[h].what = "mute"
    <2>1. row' = [row EXCEPT !.on = "on" \notin task[h].had] /\ UNCHANGED <<excused, now, dialog>>
      BY <1>4 DEF Write
    <2> QED BY <1>1, <1>2, <1>3, <2>1 DEF AudienceInv, AudienceTypeOK, UserRow, PaidSettingsEndWithVip
  <1>5. CASE task[h].what # "mute"
    <2>1. PICK paid \in WrittenPaid(h) : row' = [row EXCEPT !.paid = paid]
      BY <1>5 DEF Write
    <2>2. paid \in SUBSET Columns
      BY <1>2 DEF WrittenPaid, UserRow
    <2>3. /\ excused' = (excused \/ (row.end <= now /\ (task[h].vip \/ task[h].what = "welcome")))
          /\ UNCHANGED <<now, dialog>>
      BY <1>5 DEF Write
    <2>4. row' \in UserRow /\ row'.end = row.end
      BY <1>2, <2>1, <2>2 DEF UserRow
    <2>5. task[h].vip \/ task[h].what = "welcome"
      BY <1>1, <1>2, <1>5 DEF Admitted
    <2>6. row.end = 0 => excused'
      <3>1. row.end = 0 => row.end <= now
        BY <1>1 DEF AudienceTypeOK
      <3> QED BY <2>3, <2>5, <3>1, Zenon
    <2>7. PaidSettingsEndWithVip'
      BY <2>4, <2>6 DEF PaidSettingsEndWithVip
    <2>8. excused' \in BOOLEAN
      BY <2>3
    <2> QED BY <1>1, <1>3, <2>3, <2>4, <2>7, <2>8 DEF AudienceInv, AudienceTypeOK
  <1> QED BY <1>4, <1>5

\* The write fails, or the handler ends: nothing of the row changes.
LEMMA TasksKeep ==
    ASSUME AudienceInv, NEW h \in Tasks,
           \/ WriteFails(h) \/ BandNotSaved(h) \/ Publish(h)
           \/ ReadUsers(h) \/ AssignUsers(h) \/ ReadUsersFails(h)
    PROVE  AudienceInv'
  <1>1. AudienceTypeOK /\ Admitted /\ PaidSettingsEndWithVip /\ task[h] \in UserTask
    BY DEF AudienceInv, AudienceTypeOK
  <1>2. UNCHANGED <<now, row, excused>> /\ dialog' \in {dialog, "no"}
    BY DEF WriteFails, BandNotSaved, Publish, ReadUsers, AssignUsers, ReadUsersFails, brnVars
  <1>3. (\E t \in UserTask : t.pc # "write" /\ task' = [task EXCEPT ![h] = t]) \/ task' = task
    <2>1. CASE WriteFails(h) \/ BandNotSaved(h) \/ Publish(h)
      <3>1. NoTask \in UserTask /\ NoTask.pc # "write"
        BY NoTaskTyped
      <3> QED BY <2>1, <3>1 DEF WriteFails, BandNotSaved, Publish
    <2>2. CASE ReadUsers(h)
      BY <1>1, <2>2 DEF ReadUsers
    <2>3. CASE Reloaded(h)
      <3> DEFINE t == [task[h] EXCEPT !.pc = "publish"]
      <3>1. t \in UserTask /\ t.pc # "write"
        BY <1>1 DEF UserTask
      <3>2. task' = [task EXCEPT ![h] = t] \/ task' = task
        BY <1>1, <2>3 DEF Reloaded, Then
      <3> HIDE DEF t
      <3> QED BY <3>1, <3>2
    <2> QED BY <2>1, <2>2, <2>3 DEF AssignUsers, ReadUsersFails
  <1>4. task' \in [Tasks -> UserTask] /\ Admitted'
    <2>1. CASE task' = task
      BY <1>1, <2>1 DEF AudienceTypeOK, Admitted
    <2> QED BY <1>1, <1>3, <2>1, TaskMovesOn
  <1> QED BY <1>1, <1>2, <1>4 DEF AudienceInv, AudienceTypeOK, PaidSettingsEndWithVip

\* What changes the subscription itself: bought, over, or set by an admin.
LEMMA SubscriptionsKeep ==
    ASSUME AudienceInv, (\E h \in Tasks : Buy(h) \/ Expire(h)) \/ AdminBlocks \/ AdminSetsDays \/ TimePasses
    PROVE  AudienceInv'
  <1>1. /\ AudienceTypeOK /\ Admitted /\ PaidSettingsEndWithVip
        /\ row \in UserRow /\ now \in Nat /\ row.end \in Nat
    BY DEF AudienceInv, AudienceTypeOK, UserRow
  <1>2. ASSUME NEW h \in Tasks, Buy(h) \/ Expire(h) PROVE AudienceInv'
    <2> DEFINE t == [NoTask EXCEPT !.pc = "read"]
    <2>1. t \in UserTask /\ t.pc # "write"
      BY NoTaskTyped
    <2>2. task' = [task EXCEPT ![h] = t] /\ UNCHANGED <<now, dialog>>
      BY <1>2 DEF Buy, Expire
    <2> HIDE DEF t
    <2>3. task' \in [Tasks -> UserTask] /\ Admitted'
      BY <1>1, <2>1, <2>2, TaskMovesOn
    <2>4. row' \in UserRow /\ excused' \in BOOLEAN /\ PaidSettingsEndWithVip'
      <3>1. CASE Buy(h)
        <4> DEFINE e == (IF row.end > now THEN row.end ELSE now) + 1
        <4>1. e \in Nat /\ e # 0
          BY <1>1
        <4>2. row' = [row EXCEPT !.end = e] /\ excused' = excused
          BY <3>1 DEF Buy
        <4> HIDE DEF e
        <4> QED BY <1>1, <4>1, <4>2 DEF UserRow, PaidSettingsEndWithVip, AudienceTypeOK
      <3>2. CASE Expire(h)
        BY <1>1, <3>2 DEF Expire, Degraded, UserRow, PaidSettingsEndWithVip
      <3> QED BY <1>2, <3>1, <3>2
    <2> QED BY <1>1, <2>2, <2>3, <2>4 DEF AudienceInv, AudienceTypeOK
  <1>3. CASE AdminBlocks
    BY <1>1, <1>3 DEF AdminBlocks, AudienceInv, AudienceTypeOK, UserRow, Admitted, PaidSettingsEndWithVip
  <1>4. CASE AdminSetsDays
    <2>1. UNCHANGED <<now, task, dialog>>
      BY <1>4 DEF AdminSetsDays
    <2>2. CASE row' = [row EXCEPT !.end = now + 1] /\ UNCHANGED excused
      BY <1>1, <2>1, <2>2 DEF AudienceInv, AudienceTypeOK, UserRow, Admitted, PaidSettingsEndWithVip
    <2>3. CASE row' = [row EXCEPT !.end = 0] /\ excused' = TRUE
      BY <1>1, <2>1, <2>3 DEF AudienceInv, AudienceTypeOK, UserRow, Admitted, PaidSettingsEndWithVip
    <2> QED BY <1>4, <2>2, <2>3 DEF AdminSetsDays
  <1>5. CASE TimePasses
    BY <1>1, <1>5 DEF TimePasses, AudienceInv, AudienceTypeOK, Admitted, PaidSettingsEndWithVip
  <1> QED BY <1>2, <1>3, <1>4, <1>5

LEMMA BotRestartKeeps == ASSUME AudienceInv, BotRestarts PROVE AudienceInv'
  <1>1. NoTask \in UserTask /\ NoTask.pc # "write"
    BY NoTaskTyped
  <1>2. /\ task' = [h \in Tasks |-> NoTask] /\ dialog' = "no"
        /\ UNCHANGED <<now, row, excused>>
    BY DEF BotRestarts
  <1>3. AudienceTypeOK' /\ Admitted'
    BY <1>1, <1>2 DEF AudienceInv, AudienceTypeOK, Admitted
  <1> QED BY <1>2, <1>3 DEF AudienceInv, PaidSettingsEndWithVip

LEMMA AudienceStarts == AudienceInit => AudienceInv
  <1>1. NoTask \in UserTask /\ NoTask.pc # "write"
    BY NoTaskTyped
  <1> SUFFICES ASSUME AudienceInit PROVE AudienceInv
    OBVIOUS
  <1>2. now = 0 /\ task = [h \in Tasks |-> NoTask] /\ dialog = "no" /\ excused = FALSE
    BY DEF AudienceInit
  <1>3. row \in UserRow /\ row.paid = {}
    BY DEF AudienceInit, UserRow
  <1> QED BY <1>1, <1>2, <1>3 DEF AudienceInv, AudienceTypeOK, Admitted, PaidSettingsEndWithVip

LEMMA AudienceSteps == ASSUME AudienceInv, [AudienceNext]_audVars PROVE AudienceInv'
  <1>1. CASE UNCHANGED audVars
    BY <1>1, AudienceFrame DEF audVars
  <1>2. CASE \/ BrainReloads \/ ReadUsersFails(Ticker) \/ MessengerReloads \/ LoadFails \/ Hear
             \/ HearFails \/ Refresh \/ Deafen \/ MessengerRestarts
    <2>1. UNCHANGED <<now, row, excused, task, dialog>>
      BY <1>2 DEF BrainReloads, ReadUsers, AssignUsers, ReadUsersFails, Reloaded, MessengerReloads,
         LoadReads, LoadAssigns, LoadFails, Hear, HearFails, Refresh, Deafen, MessengerRestarts
    <2> QED BY <2>1, AudienceFrame
  <1> QED BY <1>1, <1>2, PressesKeep, DialogsKeep, WriteKeeps, TasksKeep, SubscriptionsKeep, BotRestartKeeps
      DEF AudienceNext

\* Settings only a VIP may have end with the subscription, for any number of
\* tasks and any order of their reads and writes, unless a handler admitted
\* before the end or the onboarding's preset wrote them after it, or an
\* administrator annulled the subscription without the degradation.
THEOREM PaidSettingsEnd == AudienceSpec => []PaidSettingsEndWithVip
  <1>1. AudienceInv => PaidSettingsEndWithVip
    BY DEF AudienceInv
  <1> QED BY <1>1, AudienceStarts, AudienceSteps, PTL DEF AudienceSpec
=============================================================================
