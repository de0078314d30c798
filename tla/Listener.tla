------------------------------ MODULE Listener ------------------------------
(***************************************************************************)
(* BybitListener's pool of websockets and the two tasks that change it on  *)
(* one event loop: the watchdog, which replaces a silent socket, and the   *)
(* listing sync, which adds new symbols to a socket with room or to one of *)
(* their own.  Both suspend between the symbols they subscribe, and each   *)
(* may find the pool changed by the other.  start() ends before either     *)
(* task begins.  A socket's feed is its liquidation topic; exit() is taken *)
(* to close it.  The watchdog compares time.monotonic() with time.time(),  *)
(* so its test for a silence of the whole network never holds it back.     *)
(***************************************************************************)
EXTENDS Integers, FiniteSets, Sequences

CONSTANTS
  Chunks,      \* the symbols known at start, as the sets one socket serves
  Later,       \* symbols listed afterwards
  ChunkSize,   \* WS_CHUNK_SIZE
  Sockets,     \* identities, reused when nothing refers to them any more
  MaxTroubles  \* bound: silences, failed constructors and subscriptions

\* The chunks are slices of one list, which names no symbol twice.
ASSUME ListenerAssumption ==
  /\ Chunks \in Seq(SUBSET UNION {Chunks[i] : i \in DOMAIN Chunks})
  /\ \A i, j \in DOMAIN Chunks : i # j => Chunks[i] \cap Chunks[j] = {}
  /\ 0 \notin Sockets
  /\ ChunkSize \in Nat \ {0} /\ MaxTroubles \in Nat

VARIABLES
  open,        \* the sockets connected
  feeds,       \* feeds[w]: the symbols w is subscribed to
  ws_map,      \* ws_map[w]: the symbols of a socket in the pool, {} outside it
  quiet,       \* sockets without a message for 180 s, or since they were made
  targets,     \* target_symbols
  listed,      \* the exchange's symbols
  booted,      \* how many chunks start() has connected
  dog,         \* watchdog_task: what it has left of its round
  sync,        \* symbol_sync_worker: what it has left of its round
  troubles,
  lost,        \* history: symbols of a chunk whose new socket could not be made
  gaps         \* history: symbols whose last subscription failed

lisVars == <<open, feeds, ws_map, quiet, targets, listed, booted, dog, sync,
             troubles, lost, gaps>>

Nowhere == 0
Pool == {w \in Sockets : ws_map[w] # {}}
AtStart == UNION {Chunks[i] : i \in DOMAIN Chunks}
Unused == Sockets \ (open \cup Pool \cup dog.scan \cup {dog.ws, sync.ws})
NewSocket == CHOOSE w \in Unused : TRUE

\* A bound: as many sockets exist at a time as Sockets has identities.
Constructible == Unused # {}

DogSleeps  == [scan |-> {}, ws |-> Nowhere, done |-> {}]
SyncSleeps == [todo |-> {}, ws |-> Nowhere, own |-> FALSE]

ListenerInit ==
  /\ open = {} /\ quiet = Sockets
  /\ feeds = [w \in Sockets |-> {}] /\ ws_map = [w \in Sockets |-> {}]
  /\ targets = AtStart /\ listed = AtStart /\ booted = 0
  /\ dog = DogSleeps /\ sync = SyncSleeps
  /\ troubles = 0 /\ lost = {} /\ gaps = {}

Mishap == troubles < MaxTroubles /\ troubles' = troubles + 1

\* subscribe_to_symbol swallows its exceptions.
Subscribe(w, s) ==
  \/ feeds' = [feeds EXCEPT ![w] = @ \cup {s}] /\ gaps' = gaps \ {s} /\ UNCHANGED troubles
  \/ Mishap /\ gaps' = gaps \cup {s} /\ UNCHANGED feeds

-----------------------------------------------------------------------------
\* start(): one chunk after the other, nothing else running.
ConnectChunk ==
  /\ booted < Len(Chunks) /\ Constructible /\ booted' = booted + 1
  /\ LET w == NewSocket
     IN /\ open' = open \cup {w} /\ quiet' = quiet \cup {w}
        /\ ws_map' = [ws_map EXCEPT ![w] = Chunks[booted + 1]]
        /\ feeds' = [feeds EXCEPT ![w] = Chunks[booted + 1]]
  /\ UNCHANGED <<targets, listed, dog, sync, troubles, lost, gaps>>

Booted == booted = Len(Chunks)

\* on_message
Message(w) ==
  /\ w \in quiet /\ w \in open /\ feeds[w] # {} /\ quiet' = quiet \ {w}
  /\ UNCHANGED <<open, feeds, ws_map, targets, listed, booted, dog, sync, troubles, lost, gaps>>

Silence(w) ==
  /\ w \in open \ quiet /\ Mishap /\ quiet' = quiet \cup {w}
  /\ UNCHANGED <<open, feeds, ws_map, targets, listed, booted, dog, sync, lost, gaps>>

ExchangeLists(s) ==
  /\ s \in Later \ listed /\ listed' = listed \cup {s}
  /\ UNCHANGED <<open, feeds, ws_map, quiet, targets, booted, dog, sync, troubles, lost, gaps>>

-----------------------------------------------------------------------------
(* watchdog_task and reconnect_chunk.  Rounds that find nothing silent are *)
(* left out.                                                               *)
DogWakes ==
  /\ Booted /\ dog = DogSleeps /\ Pool \cap quiet # {}
  /\ dog' = [dog EXCEPT !.scan = Pool]
  /\ UNCHANGED <<open, feeds, ws_map, quiet, targets, listed, booted, sync, troubles, lost, gaps>>

\* w answered meanwhile, or is no longer in the pool.
DogPasses(w) ==
  /\ w \in dog.scan /\ dog.ws = Nowhere /\ w \notin Pool \cap quiet
  /\ dog' = [dog EXCEPT !.scan = @ \ {w}]
  /\ UNCHANGED <<open, feeds, ws_map, quiet, targets, listed, booted, sync, troubles, lost, gaps>>

\* Mutation: the old socket is left open.
ReplaceOpen(old, new) == open' = open \cup {new}

Replace(old, new) == open' = (open \ {old}) \cup {new}

\* The old socket goes out of the pool before the new one is made.
DogReconnects(w) ==
  /\ w \in dog.scan /\ dog.ws = Nowhere /\ w \in Pool \cap quiet /\ Constructible
  /\ LET n == NewSocket
     IN /\ Replace(w, n)
        /\ ws_map' = [ws_map EXCEPT ![w] = {}, ![n] = ws_map[w]]
        /\ feeds' = [feeds EXCEPT ![n] = {}] /\ quiet' = quiet \ {n}
        /\ dog' = [scan |-> dog.scan \ {w}, ws |-> n, done |-> {}]
  /\ UNCHANGED <<targets, listed, booted, sync, troubles, lost, gaps>>

\* The constructor raises: the exception ends the round.
DogLosesChunk(w) ==
  /\ w \in dog.scan /\ dog.ws = Nowhere /\ w \in Pool \cap quiet /\ Mishap
  /\ open' = open \ {w} /\ ws_map' = [ws_map EXCEPT ![w] = {}]
  /\ lost' = lost \cup ws_map[w] /\ dog' = DogSleeps
  /\ UNCHANGED <<feeds, quiet, targets, listed, booted, sync, gaps>>

\* The loop runs over the pool's own list, which the sync may append to.
DogSubscribes ==
  /\ dog.ws # Nowhere
  /\ \E s \in ws_map[dog.ws] \ dog.done :
       Subscribe(dog.ws, s) /\ dog' = [dog EXCEPT !.done = @ \cup {s}]
  /\ UNCHANGED <<open, ws_map, quiet, targets, listed, booted, sync, lost>>

DogDone ==
  /\ dog.ws # Nowhere /\ ws_map[dog.ws] \subseteq dog.done
  /\ dog' = [scan |-> dog.scan, ws |-> Nowhere, done |-> {}]
  /\ UNCHANGED <<open, feeds, ws_map, quiet, targets, listed, booted, sync, troubles, lost, gaps>>

-----------------------------------------------------------------------------
(* symbol_sync_worker and add_new_symbol.  Rounds without news, or whose   *)
(* request failed, are left out.                                           *)
SyncFetches ==
  /\ Booted /\ sync = SyncSleeps /\ listed \ targets # {}
  /\ sync' = [sync EXCEPT !.todo = listed \ targets]
  /\ UNCHANGED <<open, feeds, ws_map, quiet, targets, listed, booted, dog, troubles, lost, gaps>>

Roomy == {w \in Pool : Cardinality(ws_map[w]) < ChunkSize}
NextSymbol == CHOOSE s \in sync.todo : TRUE

\* The first socket with room (any one here), up to the first await.
SyncJoinsSocket(w) ==
  /\ sync.todo # {} /\ sync.ws = Nowhere /\ w \in Roomy
  /\ Subscribe(w, NextSymbol) /\ sync' = [sync EXCEPT !.ws = w]
  /\ UNCHANGED <<open, ws_map, quiet, targets, listed, booted, dog, lost>>

SyncOpensSocket ==
  /\ sync.todo # {} /\ sync.ws = Nowhere /\ Roomy = {} /\ Constructible
  /\ LET n == NewSocket
     IN /\ open' = open \cup {n} /\ quiet' = quiet \cup {n}
        /\ sync' = [sync EXCEPT !.ws = n, !.own = TRUE]
        /\ \/ feeds' = [feeds EXCEPT ![n] = {NextSymbol}] /\ UNCHANGED <<gaps, troubles>>
           \/ Mishap /\ gaps' = gaps \cup {NextSymbol} /\ feeds' = [feeds EXCEPT ![n] = {}]
  /\ UNCHANGED <<ws_map, targets, listed, booted, dog, lost>>

SyncCannotOpen ==
  /\ sync.todo # {} /\ sync.ws = Nowhere /\ Roomy = {} /\ Mishap /\ sync' = SyncSleeps
  /\ UNCHANGED <<open, feeds, ws_map, quiet, targets, listed, booted, dog, lost, gaps>>

\* Mutation: the symbol counts as added although its socket is gone.
SyncFinishesAnyway ==
  /\ sync.ws # Nowhere
  /\ sync' = [todo |-> sync.todo \ {NextSymbol}, ws |-> Nowhere, own |-> FALSE]
  /\ targets' = targets \cup {NextSymbol}
  /\ ws_map' = IF sync.own \/ sync.ws \in Pool
               THEN [ws_map EXCEPT ![sync.ws] = @ \cup {NextSymbol}] ELSE ws_map
  /\ UNCHANGED <<open, feeds, quiet, listed, booted, dog, troubles, lost, gaps>>

\* ws_map[target_ws] raises KeyError when the watchdog has replaced the
\* socket: the round is given up and the symbol stays new.
SyncFinishes ==
  /\ sync.ws # Nowhere
  /\ IF sync.own \/ sync.ws \in Pool
     THEN /\ ws_map' = [ws_map EXCEPT ![sync.ws] = @ \cup {NextSymbol}]
          /\ targets' = targets \cup {NextSymbol}
          /\ sync' = [todo |-> sync.todo \ {NextSymbol}, ws |-> Nowhere, own |-> FALSE]
     ELSE sync' = SyncSleeps /\ UNCHANGED <<ws_map, targets>>
  /\ UNCHANGED <<open, feeds, quiet, listed, booted, dog, troubles, lost, gaps>>

-----------------------------------------------------------------------------
Watchdog == \/ DogWakes \/ DogSubscribes \/ DogDone
            \/ \E w \in Sockets : DogPasses(w) \/ DogReconnects(w) \/ DogLosesChunk(w)
Sync     == \/ SyncFetches \/ SyncOpensSocket \/ SyncCannotOpen \/ SyncFinishes
            \/ \E w \in Sockets : SyncJoinsSocket(w)

ListenerNext ==
  \/ ConnectChunk \/ Watchdog \/ Sync
  \/ \E w \in Sockets : Message(w) \/ Silence(w)
  \/ \E s \in Later : ExchangeLists(s)

\* The event loop runs every task that is ready.
ListenerFairness == WF_lisVars(ConnectChunk \/ Watchdog \/ Sync)

ListenerSpec == ListenerInit /\ [][ListenerNext]_lisVars /\ ListenerFairness

-----------------------------------------------------------------------------
\* A liquidation is counted once: no symbol reaches the queue through two
\* sockets, although a chunk is moved while a symbol is being added to it.
OneFeedPerSymbol ==
  \A w, x \in open : w # x => feeds[w] \cap feeds[x] = {}

\* Every listed symbol is in the end served by a socket of the pool that is
\* subscribed to it, but for those whose chunk the watchdog lost and those
\* whose subscription failed.
ListingTracked ==
  <>[](\A s \in listed \ (lost \cup gaps) : \E w \in open : s \in ws_map[w] \cap feeds[w])
=============================================================================
