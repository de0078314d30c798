----------------------------- MODULE MCPipeline -----------------------------
(***************************************************************************)
(* One run for the components between a liquidation and a user's alert.    *)
(* They share no state at the granularity of their models, so a behaviour  *)
(* exercises one of them (part) and the others stay in their first state,  *)
(* where none of their fair actions is enabled; the gate's are asked for   *)
(* only in its own behaviours.                                             *)
(***************************************************************************)
EXTENDS Signals, TriggerRules, ChartWorker, MediaResolve, Dispatch, Gatekeeper, TLC

CONSTANTS e1, e2, v, n1, n2

VARIABLE part

others(p) ==
  /\ IF p = "signals"  THEN TRUE ELSE UNCHANGED sigVars
  /\ IF p = "rules"    THEN TRUE ELSE UNCHANGED rulVars
  /\ IF p = "charts"   THEN TRUE ELSE UNCHANGED chtVars
  /\ IF p = "media"    THEN TRUE ELSE UNCHANGED medVars
  /\ IF p = "dispatch" THEN TRUE ELSE UNCHANGED disVars
  /\ IF p = "gate"     THEN TRUE ELSE UNCHANGED gatVars

\* A first event of 2 and a second of 3: the second has grown enough to be
\* reported after the first, the first is not after the second.
MCSums == sum = [e \in Events |-> IF e = e1 THEN 2 ELSE 3] /\ art.name = n1

\* Signals at, below and above the thresholds, each with its market data
\* present or absent; at most two users, of four kinds.
MCSignal ==
  {s \in Signal : /\ s.oi \in {{}, {"brain", "user"}} /\ s.cascade # 4
                  /\ s.capped \in {{}, {"five", "hour", "cascade"}}
                  /\ s.meets \in {{"side"}, {"side", "rsi"}} /\ (s.priced => s.meets = Filters)}
MCUsers ==
  {u \in User : /\ \/ u.asks = {}
                   \/ u.asks = {"rsi"} /\ u.types = AlertTypes /\ u.vol = u.cas
                /\ \/ u.mode = "USD" /\ u.on /\ u.types \in {AlertTypes, {"CASCADE", "VOLUME"}}
                   \/ u.types = AlertTypes /\ u.vol = u.cas /\ (u.on <=> u.mode = "PERCENT")}
MCPeople == {{u, w} : u, w \in MCUsers}

MCAsked == <<"news", "chat">>

MCInit ==
  /\ SignalsInit /\ MCSums /\ ChartInit /\ MediaInit /\ DispatchInit /\ GatekeeperInit
  /\ part \in {"signals", "rules", "charts", "media", "dispatch", "gate"}
  /\ part # "gate" => ~vip /\ inside = Resources
  /\ IF part = "rules" THEN sig \in MCSignal /\ people \in MCPeople
     ELSE sig = (CHOOSE s \in MCSignal : TRUE) /\ people = {}

MCNext ==
  /\ part' = part
  /\ \/ part = "signals"  /\ SignalsNext  /\ others("signals")
     \/ part = "rules"    /\ RulesNext    /\ others("rules")
     \/ part = "charts"   /\ ChartNext    /\ others("charts")
     \/ part = "media"    /\ MediaNext    /\ others("media")
     \/ part = "dispatch" /\ DispatchNext /\ others("dispatch")
     \/ part = "gate"     /\ GatekeeperNext /\ others("gate")

MCSpec ==
  /\ MCInit /\ [][MCNext]_<<part, sigVars, rulVars, chtVars, medVars, disVars, gatVars>>
  /\ SignalsFairness /\ MediaFairness /\ DispatchFairness
  /\ WF_gatVars(part = "gate" /\ ClockTicks) /\ WF_gatVars(part = "gate" /\ Delivers)
  /\ WF_gatVars(part = "gate" /\ Answers("bouncer")) /\ WF_gatVars(part = "gate" /\ Draws)

\* Members are served, in a behaviour of the gate.
MembersAreServedHere == part = "gate" => MembersAreServed
=============================================================================
