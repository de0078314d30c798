----------------------------- MODULE SupplySync -----------------------------
(***************************************************************************)
(* The circulating supply behind every capitalisation ratio: CoinGecko's   *)
(* figures, the table coin_fundamentals and the aggregator's memory, kept  *)
(* together by supply_sync_worker.  Symbols are normalised; a round reads  *)
(* the table, the two CoinGecko lists and then the figures chunk by chunk, *)
(* and every await may fail, or find what it read changed afterwards.      *)
(***************************************************************************)
EXTENDS Integers, FiniteSets

CONSTANTS
  Coins,       \* normalised Bybit symbols
  AtFirst,     \* those in the table from the start
  CgIds,       \* CoinGecko ids
  Supplies,    \* figures
  Chunk,       \* CHUNK_SIZE
  MaxNews,     \* bound: changes outside the worker
  MaxFailures  \* bound: failed requests and statements, restarts

ASSUME SupplyAssumption ==
  /\ AtFirst \subseteq Coins /\ Supplies \subseteq Nat \ {0}
  /\ Chunk \in Nat \ {0} /\ MaxNews \in Nat /\ MaxFailures \in Nat

VARIABLES
  table,       \* table[s]: cg_id and circulating_supply, NoFundamentals without a row
  memory_of,   \* memory_of[s]: circulating_supply in memory, Unknown without one
  remote,      \* remote[c]: CoinGecko's figure, Unknown when it gives none
  manual, top, fallback,   \* symbol to id: coin_mapping, top-250, coins/list
  round,       \* what supply_sync_worker holds
  news, failures

supVars == <<table, memory_of, remote, manual, top, fallback, round, news, failures>>

NoId    == "-"
Unknown == -1
NoFundamentals   == [cg |-> NoId, supply |-> Unknown]
Seeded  == [cg |-> NoId, supply |-> 0]
Rows    == {s \in Coins : table[s] # NoFundamentals}
Maps    == [Coins -> CgIds \cup {NoId}]
NoNames == [s \in Coins |-> NoId]
NoFigures == [s \in {} |-> 0]

Asleep == [pc |-> "asleep", targets |-> {}, manual |-> NoNames, top |-> NoNames,
           ids |-> NoNames, todo |-> {}, got |-> NoFigures]

SupplyInit ==
  /\ table = [s \in Coins |-> IF s \in AtFirst THEN Seeded ELSE NoFundamentals]
  /\ memory_of = [s \in Coins |-> IF s \in AtFirst THEN 0 ELSE Unknown]
  /\ remote \in [CgIds -> Supplies] /\ manual = NoNames /\ top = NoNames
  /\ fallback \in {f \in Maps : \A s \in Coins : f[s] # NoId}
  /\ round = Asleep /\ news = 0 /\ failures = 0

Failure == failures < MaxFailures /\ failures' = failures + 1
News    == news < MaxNews /\ news' = news + 1

Step(pc) == round' = [round EXCEPT !.pc = pc]

-----------------------------------------------------------------------------
\* A round begins, after the sleep: _load_target_symbols.
LoadTargets ==
  /\ round = Asleep /\ Rows # {}
  /\ round' = [Asleep EXCEPT !.pc = "top", !.targets = Rows]
  /\ UNCHANGED <<table, memory_of, remote, manual, top, fallback, news, failures>>

\* _load_manual_overrides, then the top-250 list.
FetchTop ==
  /\ round.pc = "top"
  /\ round' = [round EXCEPT !.pc = "list", !.manual = manual, !.top = top]
  /\ UNCHANGED <<table, memory_of, remote, manual, top, fallback, news, failures>>

\* _resolve_symbol_ids: override, then top market, then the whole list.
Resolve(s, byHand, byMarket, byList) ==
  IF byHand[s] # NoId THEN byHand[s] ELSE IF byMarket[s] # NoId THEN byMarket[s] ELSE byList[s]

FetchList ==
  /\ round.pc = "list"
  /\ LET ids == [s \in Coins |-> IF s \in round.targets
                                 THEN Resolve(s, round.manual, round.top, fallback) ELSE NoId]
     IN round' = IF ids = NoNames THEN Asleep
                 ELSE [round EXCEPT !.pc = "ids", !.ids = ids,
                                    !.todo = {ids[s] : s \in round.targets} \ {NoId}]
  /\ UNCHANGED <<table, memory_of, remote, manual, top, fallback, news, failures>>

\* _sync_resolved_cg_ids
WriteIds ==
  /\ round.pc = "ids" /\ Step("chunk")
  /\ table' = [s \in Coins |-> IF s \in Rows /\ round.ids[s] # NoId
                               THEN [table[s] EXCEPT !.cg = round.ids[s]] ELSE table[s]]
  /\ UNCHANGED <<memory_of, remote, manual, top, fallback, news, failures>>

\* The figures of the next chunk; the memory has them before the table.
FetchChunk ==
  /\ round.pc = "chunk" /\ round.todo # {}
  /\ \E C \in SUBSET round.todo :
       /\ Cardinality(C) = IF Cardinality(round.todo) < Chunk THEN Cardinality(round.todo) ELSE Chunk
       /\ LET told == {s \in Coins : round.ids[s] \in C /\ remote[round.ids[s]] # Unknown}
              got  == [s \in told |-> remote[round.ids[s]]]
          IN /\ memory_of' = [s \in Coins |-> IF s \in told THEN got[s] ELSE memory_of[s]]
             /\ round' = [round EXCEPT !.pc = "upsert", !.todo = @ \ C, !.got = got]
  /\ UNCHANGED <<table, remote, manual, top, fallback, news, failures>>

Upserted(S) ==
  /\ round.pc = "upsert" /\ round' = [round EXCEPT !.pc = "chunk", !.got = NoFigures]
  /\ table' = [s \in Coins |-> IF s \in S
                 THEN [cg |-> round.ids[s], supply |-> round.got[s]] ELSE table[s]]
  /\ UNCHANGED <<memory_of, remote, manual, top, fallback, news, failures>>

\* Mutation: ON CONFLICT DO NOTHING.
UpsertNew == Upserted(DOMAIN round.got \ Rows)

\* _upsert_fundamentals
Upsert == Upserted(DOMAIN round.got)

EndRound ==
  /\ round.pc = "chunk" /\ round.todo = {} /\ round' = Asleep
  /\ UNCHANGED <<table, memory_of, remote, manual, top, fallback, news, failures>>

\* A request for a list fails, or a statement raises: the round starts again.
\* A failed request for a chunk is repeated, which changes nothing here.
RoundFails ==
  /\ round.pc \in {"top", "list", "ids", "upsert"} /\ Failure /\ round' = Asleep
  /\ UNCHANGED <<table, memory_of, remote, manual, top, fallback, news>>

-----------------------------------------------------------------------------
\* sync_coin_fundamentals_list, for a new listing.
SeedCoin(s) ==
  /\ News /\ s \notin Rows /\ table' = [table EXCEPT ![s] = Seeded]
  /\ UNCHANGED <<memory_of, remote, manual, top, fallback, round, failures>>

\* MarketAggregator.cleanup_task: a ticker of this coin fell silent.
ForgetSupply(s) ==
  /\ News /\ memory_of[s] # Unknown /\ memory_of' = [memory_of EXCEPT ![s] = Unknown]
  /\ UNCHANGED <<table, remote, manual, top, fallback, round, failures>>

RemoteMoves ==
  /\ News
  /\ \/ \E c \in CgIds, x \in Supplies \cup {Unknown} : remote' = [remote EXCEPT ![c] = x]
                                                        /\ UNCHANGED <<manual, top>>
     \/ \E s \in Coins, c \in CgIds : top' = [top EXCEPT ![s] = c] /\ UNCHANGED <<remote, manual>>
     \/ \E s \in Coins, c \in CgIds : manual' = [manual EXCEPT ![s] = c] /\ UNCHANGED <<remote, top>>
  /\ UNCHANGED <<table, memory_of, fallback, round, failures>>

\* main: the table is loaded before anything else.
SupplyRestart ==
  /\ Failure /\ round' = Asleep
  /\ memory_of' = [s \in Coins |-> table[s].supply]
  /\ UNCHANGED <<table, remote, manual, top, fallback, news>>

Syncing == \/ LoadTargets \/ FetchTop \/ FetchList \/ WriteIds \/ FetchChunk \/ Upsert \/ EndRound

SupplyNext ==
  \/ Syncing \/ RoundFails \/ RemoteMoves \/ SupplyRestart
  \/ \E s \in Coins : SeedCoin(s) \/ ForgetSupply(s)

\* The worker's sleeps end and its requests are answered, with or without data.
SupplyFairness == WF_supVars(Syncing)

SupplySpec == SupplyInit /\ [][SupplyNext]_supVars /\ SupplyFairness

-----------------------------------------------------------------------------
Agrees(s) ==
  LET c == Resolve(s, manual, top, fallback)
  IN c # NoId /\ remote[c] # Unknown
       => memory_of[s] = remote[c] /\ table[s] = [cg |-> c, supply |-> remote[c]]

\* Once the world is still, memory and table both come to hold CoinGecko's
\* figure for every coin of the table it has one for, whatever failed on the
\* way: a lost statement, a stale resolution, a restart, a forgotten ticker.
SupplySynced == <>[](\A s \in Rows : Agrees(s))
=============================================================================
