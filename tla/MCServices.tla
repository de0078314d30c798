----------------------------- MODULE MCServices -----------------------------
(***************************************************************************)
(* One run for the services around the alerts: the exchange feeds, the     *)
(* liquidations' memory, the supply, the checkout and the caches of users. *)
(* They share no state at the granularity of their models, so a behaviour  *)
(* exercises one of them (part) and the others stay in their first state;  *)
(* fairness and the liveness properties are about the one exercised.       *)
(***************************************************************************)
EXTENDS Listener, Liquidations, SupplySync, Checkout, Audience

VARIABLE part

MCChunks == <<{"a", "b"}, {"c"}>>
MCPrice  == [plan \in Plans |-> 2]

others(p) ==
  /\ IF p = "listener"     THEN TRUE ELSE UNCHANGED lisVars
  /\ IF p = "liquidations" THEN TRUE ELSE UNCHANGED liqVars
  /\ IF p = "supply"       THEN TRUE ELSE UNCHANGED supVars
  /\ IF p = "checkout"     THEN TRUE ELSE UNCHANGED choVars
  /\ IF p = "audience"     THEN TRUE ELSE UNCHANGED audVars

\* What an idle component may start with does not matter.
MCIdle ==
  /\ part # "checkout" => balance = 0
  /\ part # "supply" => /\ remote = [c \in CgIds |-> CHOOSE n \in Supplies : TRUE]
                        /\ fallback = [s \in Coins |-> CHOOSE c \in CgIds : TRUE]

MCInit ==
  /\ part \in {"listener", "liquidations", "supply", "checkout", "audience"}
  /\ ListenerInit /\ LiquidationsInit /\ SupplyInit /\ CheckoutInit /\ AudienceInit
  /\ MCIdle

MCNext ==
  /\ part' = part
  /\ \/ part = "listener"     /\ ListenerNext     /\ others("listener")
     \/ part = "liquidations" /\ LiquidationsNext /\ others("liquidations")
     \/ part = "supply"       /\ SupplyNext       /\ others("supply")
     \/ part = "checkout"     /\ CheckoutNext     /\ others("checkout")
     \/ part = "audience"     /\ AudienceNext     /\ others("audience")

MCSpec ==
  /\ MCInit /\ [][MCNext]_<<part, lisVars, liqVars, supVars, choVars, audVars>>
  /\ WF_lisVars(part = "listener" /\ (ConnectChunk \/ Watchdog \/ Sync))
  /\ WF_supVars(part = "supply" /\ Syncing)
  /\ WF_audVars(part = "audience" /\ BrainReloads)
  /\ WF_audVars(part = "audience" /\ MessengerReloads)

\* Every listed symbol comes to be served, in a behaviour of the listener.
ListingTrackedHere == part = "listener" => ListingTracked

\* Memory and table come to hold CoinGecko's figures, in one of the supply.
SupplySyncedHere == part = "supply" => SupplySynced
=============================================================================
