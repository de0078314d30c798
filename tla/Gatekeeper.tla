----------------------------- MODULE Gatekeeper -----------------------------
(***************************************************************************)
(* Who of the free users receives alerts: those who are in the news channel*)
(* and in the community chat.  The answer of Telegram is kept in Redis, in *)
(* csl:gate:{user_id}, for a while; three tasks ask and write it, each with*)
(* awaits between the question and the write, and nothing orders them: the *)
(* messenger when it finds no key, the bouncer when a subscription has     *)
(* ended, the handler of the button "check my subscription".  The messenger*)
(* and the main menu read it.                                              *)
(*                                                                         *)
(* One user, his trial used.  Being VIP is his row's word here; how late   *)
(* the messenger's cache learns it is in Audience.  The bonus that the     *)
(* button may also issue is in Subscription; it only delays the write.     *)
(***************************************************************************)
EXTENDS Integers, Sequences

CONSTANTS
  Asked,     \* the configured resources, in the order they are asked about
  GateTtl,   \* GATE_CACHE_TTL_SEC
  Slow,      \* the longest a check takes, by the HTTP client's timeouts
  MaxRare    \* bound: purchases, departures, errors of Telegram or Redis, deaths

ASSUME GatekeeperAssumption ==
  /\ Asked \in Seq(STRING) /\ GateTtl \in Nat \ {0} /\ Slow \in Nat /\ MaxRare \in Nat

Resources == {Asked[i] : i \in DOMAIN Asked}
Checkers  == {"messenger", "bouncer", "button"}

VARIABLES
  vip,       \* the user's tariff
  inside,    \* the resources he is a member of
  ago,       \* history: how long ago he last was in each
  gate,      \* the key's value ...
  left,      \* ... and the time it has left, 0 when there is none
  check,     \* check[c]: a checker's place, verdict so far and age
  word,      \* the last the messenger decided for him or the main menu told him
  rare

gatVars == <<vip, inside, ago, gate, left, check, word, rare>>

NoCheck == [pc |-> "idle", at |-> 1, ok |-> TRUE, took |-> 0, vip |-> FALSE]

GatekeeperInit ==
  /\ vip \in BOOLEAN /\ inside \in SUBSET Resources
  /\ ago = [r \in Resources |-> IF r \in inside THEN 0 ELSE GateTtl + Slow]
  /\ gate = FALSE /\ left = 0 /\ check = [c \in Checkers |-> NoCheck]
  /\ word = "none" /\ rare = 0

Rare == rare < MaxRare /\ rare' = rare + 1

Stands(c, pc) == check[c].pc = pc
To(c, place)  == check' = [check EXCEPT ![c] = place]
\* With nothing configured everyone is admitted.
Start(c)      == To(c, [NoCheck EXCEPT !.pc = IF Asked = <<>> THEN "write" ELSE "ask"])

-----------------------------------------------------------------------------
(* The user, and time. *)
Joins(r) ==
  /\ r \notin inside /\ inside' = inside \cup {r} /\ ago' = [ago EXCEPT ![r] = 0]
  /\ UNCHANGED <<vip, gate, left, check, word, rare>>

Quits(r) ==
  /\ r \in inside /\ Rare /\ inside' = inside \ {r}
  /\ UNCHANGED <<vip, ago, gate, left, check, word>>

Buys ==
  /\ ~vip /\ Rare /\ vip' = TRUE
  /\ UNCHANGED <<inside, ago, gate, left, check, word>>

Checking(c) == check[c].pc \in {"ask", "write"}
Older(n)    == IF n = GateTtl + Slow THEN n ELSE n + 1

ClockTicks ==
  /\ \A c \in Checkers : Checking(c) => check[c].took < Slow
  /\ check' = [c \in Checkers |->
                 IF Checking(c) THEN [check[c] EXCEPT !.took = @ + 1] ELSE check[c]]
  /\ left' = IF left > 0 THEN left - 1 ELSE 0
  /\ gate' = (gate /\ left > 1)
  /\ ago' = [r \in Resources |-> IF r \in inside THEN 0 ELSE Older(ago[r])]
  /\ UNCHANGED <<vip, inside, word, rare>>

-----------------------------------------------------------------------------
(* A check: check_user_channel_membership, _check_media_resources_membership
   and _verify_gate_resources_membership. *)

\* The first two return at the first resource he is not in, the button's asks
\* about both.
Early(c) == c # "button"

\* Mutation: the last resource decides.
VerdictOfLast(ok, yes) == yes

Verdict(ok, yes) == ok /\ yes

Told(c, ok) ==
  LET more == check[c].at < Len(Asked) /\ (ok \/ ~Early(c))
  IN  To(c, IF more THEN [check[c] EXCEPT !.at = @ + 1, !.ok = ok]
            ELSE [check[c] EXCEPT !.pc = "write", !.ok = ok])

Ask(c) ==
  /\ Stands(c, "ask")
  /\ Told(c, Verdict(check[c].ok, Asked[check[c].at] \in inside))
  /\ UNCHANGED <<vip, inside, ago, gate, left, word, rare>>

\* Telegram refuses or fails: not admitted.
AskFails(c) ==
  /\ Stands(c, "ask") /\ Rare /\ To(c, [check[c] EXCEPT !.pc = "write", !.ok = FALSE])
  /\ UNCHANGED <<vip, inside, ago, gate, left, word>>

SetGate(v) == gate' = v /\ left' = GateTtl

\* The messenger uses what it has checked, the button's handler answers and,
\* on the gate screen, draws the main menu for the user it had read.
MovesOn(c) ==
  \/ c = "messenger" /\ To(c, NoCheck) /\ word' = IF check[c].ok THEN "serve" ELSE "skip"
  \/ c = "bouncer" /\ To(c, NoCheck) /\ UNCHANGED word
  \/ c = "button" /\ To(c, NoCheck) /\ word' = "none"
  \/ c = "button" /\ To(c, [NoCheck EXCEPT !.pc = "menu", !.vip = vip]) /\ UNCHANGED word

Write(c) ==
  /\ Stands(c, "write") /\ SetGate(check[c].ok) /\ MovesOn(c)
  /\ UNCHANGED <<vip, inside, ago, rare>>

\* set_key catches Redis's error and returns False, which nobody looks at.
WriteFails(c) ==
  /\ Stands(c, "write") /\ Rare /\ MovesOn(c)
  /\ UNCHANGED <<vip, inside, ago, gate, left>>

\* The process dies, or the handler on a failed commit.
Dies(c) ==
  /\ ~Stands(c, "idle") /\ Rare /\ To(c, NoCheck) /\ word' = "none"
  /\ UNCHANGED <<vip, inside, ago, gate, left>>

-----------------------------------------------------------------------------
(* Who starts one. *)

\* _handle_subscription_expiry, after degrade_user_to_free_tier has committed.
Expires ==
  /\ vip /\ Stands("bouncer", "idle") /\ vip' = FALSE /\ Start("bouncer")
  /\ UNCHANGED <<inside, ago, gate, left, word, rare>>

\* process_verify_gate_subscription
PressVerify ==
  /\ Stands("button", "idle") /\ Start("button")
  /\ UNCHANGED <<vip, inside, ago, gate, left, word, rare>>

\* cmd_start, process_back_to_main: the user's row, then the gate.
OpenMenu ==
  /\ Stands("button", "idle") /\ To("button", [NoCheck EXCEPT !.pc = "menu", !.vip = vip])
  /\ UNCHANGED <<vip, inside, ago, gate, left, word, rare>>

\* render_main_menu with resolve_user_menu_state
DrawMenu ==
  /\ Stands("button", "menu") /\ To("button", NoCheck)
  /\ word' = IF check["button"].vip THEN "vip"
             ELSE IF left > 0 /\ gate THEN "active" ELSE "paused"
  /\ UNCHANGED <<vip, inside, ago, gate, left, rare>>

\* _get_user_gate_status without an answer from Redis.
DrawMenuBlind ==
  /\ Stands("button", "menu") /\ ~check["button"].vip /\ Rare /\ To("button", NoCheck)
  /\ word' = "paused"
  /\ UNCHANGED <<vip, inside, ago, gate, left>>

-----------------------------------------------------------------------------
(* The messenger: one signal that this user's settings want. *)
ServeVip ==
  /\ Stands("messenger", "idle") /\ vip /\ word' = "vip"
  /\ UNCHANGED <<vip, inside, ago, gate, left, check, rare>>

NewSignal ==
  /\ Stands("messenger", "idle") /\ ~vip /\ To("messenger", [NoCheck EXCEPT !.pc = "gate"])
  /\ UNCHANGED <<vip, inside, ago, gate, left, word, rare>>

\* What the key says.
Hit == To("messenger", NoCheck) /\ word' = IF gate THEN "serve" ELSE "skip"

\* Mutation: no key is a refusal, as it is for the menu.
ReadGateAsMenu ==
  /\ Stands("messenger", "gate") /\ To("messenger", NoCheck)
  /\ word' = IF left > 0 /\ gate THEN "serve" ELSE "skip"
  /\ UNCHANGED <<vip, inside, ago, gate, left, rare>>

ReadGate ==
  /\ Stands("messenger", "gate")
  /\ \/ left > 0 /\ Hit
     \/ left = 0 /\ Start("messenger") /\ UNCHANGED word
  /\ UNCHANGED <<vip, inside, ago, gate, left, rare>>

\* get_key catches Redis's error and returns None: a miss like any other.
ReadGateFails ==
  /\ Stands("messenger", "gate") /\ Rare /\ Start("messenger")
  /\ UNCHANGED <<vip, inside, ago, gate, left, word>>

-----------------------------------------------------------------------------
Answers(c) == Ask(c) \/ Write(c)
Delivers   == ServeVip \/ NewSignal \/ ReadGate \/ Answers("messenger")
Draws      == DrawMenu \/ Answers("button")

GatekeeperNext ==
  \/ \E r \in Resources : Joins(r) \/ Quits(r)
  \/ Buys \/ Expires \/ PressVerify \/ OpenMenu \/ ClockTicks
  \/ Delivers \/ Answers("bouncer") \/ Draws
  \/ \E c \in Checkers : AskFails(c) \/ WriteFails(c) \/ Dies(c)
  \/ ReadGateFails \/ DrawMenuBlind

\* Time passes, a started task gets its answers, and signals keep coming.
GatekeeperFairness ==
  /\ WF_gatVars(ClockTicks) /\ WF_gatVars(Delivers)
  /\ WF_gatVars(Answers("bouncer")) /\ WF_gatVars(Draws)

GatekeeperSpec == GatekeeperInit /\ [][GatekeeperNext]_gatVars /\ GatekeeperFairness

-----------------------------------------------------------------------------
\* Whoever writes last, though his answer may be the older one: a free user is
\* admitted, and told so by the menu, only if he was in every resource within
\* the last time to live and check.
LeaversAreStopped ==
  [][ \/ check["messenger"] # NoCheck /\ check'["messenger"] = NoCheck /\ word' = "serve"
      \/ check["button"] # NoCheck /\ check'["button"] = NoCheck /\ word' = "active"
      => \A r \in Resources : ago[r] < GateTtl + Slow ]_gatVars

\* A user who joined both and stays is admitted sooner or later, and again and
\* again, although a refusal older than his joining may have been written over
\* the approval his press of the button brought.
MembersAreServed ==
  <>[](inside = Resources) => []<>(word \in {"serve", "vip"})
=============================================================================
