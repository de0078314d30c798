------------------------------ MODULE Audience ------------------------------
(***************************************************************************)
(* One user as the three processes see them: the row of the table users,   *)
(* the brain's cache of alert targets and the messenger's.  Handlers, the  *)
(* bouncer and a purchase commit a change and then invalidate: they reload *)
(* the brain's cache themselves and publish the user's id, which the       *)
(* messenger may or may not be listening to.  Both processes also reload   *)
(* every 60 seconds.  A reload reads the table, and the row may change     *)
(* before the cache is assigned.                                           *)
(*                                                                         *)
(* The settings a VIP may change (thresholds, filters, mode) are the set   *)
(* of columns that differ from the free preset; the language is left out.  *)
(* How the bouncer decides that a subscription is over is in Subscription. *)
(***************************************************************************)
EXTENDS Integers, FiniteSets

CONSTANTS
  Tasks,       \* the bot's tasks that change the user and then invalidate
  Columns,     \* the settings
  MaxNow,      \* bound: the clock
  MaxEvents    \* bound: commits, database errors, lost connections, restarts

ASSUME AudienceAssumption ==
  /\ MaxNow \in Nat /\ MaxEvents \in Nat

VARIABLES
  now,
  row,         \* the user's row: paid, on, end, blocked
  brain,       \* the user's entry in analyzer._cached_users
  lastUsers,   \* _active_users_cache of the brain's process, as a row
  got,         \* got[r]: the row a reload of the brain has read, Nothing outside one
  task,        \* task[h]: what h's task has still to do
  dialog,      \* the FSM waits for a value: as what the user opened it, or "no"
  messenger,   \* the user's entry in the messenger's _cached_users
  msgUsers,    \* _active_users_cache of the messenger's process
  loaded,      \* what _cache_refresher_task has read
  fresh,       \* what the listener has read for the id it received
  heard,       \* ids published that the listener has not handled
  events,
  excused      \* history: a free user's settings were written all the same

brnVars == <<brain, lastUsers, got>>
msgVars == <<messenger, msgUsers, loaded, fresh, heard>>
audVars == <<now, row, brnVars, task, dialog, msgVars, events, excused>>

Ticker  == "user_cache_refresher_task"
Readers == Tasks \cup {Ticker}

Nothing == [paid |-> {}, on |-> FALSE, end |-> -1, blocked |-> TRUE]
NoUser  == [paid |-> {}, on |-> TRUE, end |-> 0, blocked |-> TRUE]
NoTask  == [pc |-> "idle", what |-> "none", vip |-> FALSE, had |-> {}]

IsVip(r) == r.end > now /\ ~r.blocked

\* _build_cached_target; a blocked user has no entry.
Absent == [paid |-> {}, on |-> FALSE, vip |-> FALSE]
Target(r) == IF r.blocked THEN Absent ELSE [paid |-> r.paid, on |-> r.on, vip |-> IsVip(r)]

AudienceInit ==
  /\ now = 0 /\ row = [paid |-> {}, on |-> TRUE, end |-> 1, blocked |-> FALSE]
  /\ brain = Target(row) /\ lastUsers = row /\ got = [r \in Readers |-> Nothing]
  /\ task = [h \in Tasks |-> NoTask] /\ dialog = "no"
  /\ messenger = Target(row) /\ msgUsers = row /\ loaded = Nothing /\ fresh = Nothing
  /\ heard = 0
  /\ events = 0 /\ excused = FALSE

Event  == events < MaxEvents /\ events' = events + 1

Does(h, pc) == task[h].pc = pc
Then(h, pc) == task' = [task EXCEPT ![h].pc = pc]

-----------------------------------------------------------------------------
(* The handlers up to their commit.                                        *)

\* The PAYWALL lines.
Admits(r) == IsVip(r)

\* The row is read, and what it says decides; then the write is awaited.
Writes(h, what, had) ==
  /\ Does(h, "idle")
  /\ task' = [task EXCEPT ![h] = [pc |-> "write", what |-> what, vip |-> IsVip(row), had |-> had]]
  /\ UNCHANGED <<now, row, brnVars, dialog, msgVars, events, excused>>

\* toggle_settings and toggle_threshold_mode_handler
PressToggle(h) == Admits(row) /\ Writes(h, "toggle", row.paid)

\* process_apply_setting_preset and apply_rsi_preset
PressPreset(h) == Admits(row) /\ Writes(h, "preset", {})

\* toggle_global_signals has no paywall, nor has the onboarding's preset.
PressMute(h)    == ~row.blocked /\ Writes(h, "mute", IF row.on THEN {"on"} ELSE {})
PressWelcome(h) == ~row.blocked /\ Writes(h, "welcome", {})

\* start_set_threshold and the other dialogues that ask for a value
OpenDialog ==
  /\ dialog = "no" /\ Admits(row) /\ dialog' = IF IsVip(row) THEN "vip" ELSE "free"
  /\ UNCHANGED <<now, row, brnVars, task, msgVars, events, excused>>

\* process_threshold and the others: the answer is not asked for a VIP again.
Answer(h) ==
  /\ Does(h, "idle") /\ dialog # "no"
  /\ task' = [task EXCEPT ![h] = [pc |-> "write", what |-> "answer",
                                  vip |-> dialog = "vip", had |-> {}]]
  /\ UNCHANGED <<now, row, brnVars, dialog, msgVars, events, excused>>

\* The columns after update_user_settings (a toggle inverts what it read) or
\* apply_user_setting_preset, which writes all of them.
WrittenPaid(h) ==
  IF task[h].what \in {"preset", "welcome"} THEN {Columns}
  ELSE IF task[h].what = "toggle"
       THEN {IF c \in task[h].had THEN row.paid \ {c} ELSE row.paid \cup {c} : c \in Columns}
       ELSE {row.paid \cup {c} : c \in Columns} \cup {row.paid \ {c} : c \in Columns}

Write(h) ==
  /\ Does(h, "write") /\ Event
  /\ task' = [task EXCEPT ![h] = [NoTask EXCEPT !.pc = "read", !.what =
                 IF task[h].what = "answer" THEN "answer" ELSE "none"]]
  /\ \/ /\ task[h].what = "mute" /\ row' = [row EXCEPT !.on = "on" \notin task[h].had]
        /\ UNCHANGED excused
     \/ /\ task[h].what # "mute"
        /\ \E paid \in WrittenPaid(h) : row' = [row EXCEPT !.paid = paid]
        /\ excused' = (excused \/ (row.end <= now /\ (task[h].vip \/ task[h].what = "welcome")))
  /\ UNCHANGED <<now, brnVars, dialog, msgVars>>

\* The commit fails: the handler says so and ends, a dialogue stays open ...
WriteFails(h) ==
  /\ Does(h, "write") /\ Event /\ task' = [task EXCEPT ![h] = NoTask]
  /\ UNCHANGED <<now, row, brnVars, dialog, msgVars, excused>>

\* ... but the one about the RSI band, which is closed all the same.
BandNotSaved(h) ==
  /\ Does(h, "write") /\ task[h].what = "answer" /\ Event
  /\ task' = [task EXCEPT ![h] = NoTask] /\ dialog' = "no"
  /\ UNCHANGED <<now, row, brnVars, msgVars, excused>>

\* A purchase, a bonus or a renewal commits.
Buy(h) ==
  /\ Does(h, "idle") /\ Event
  /\ row' = [row EXCEPT !.end = (IF @ > now THEN @ ELSE now) + 1]
  /\ task' = [task EXCEPT ![h] = [NoTask EXCEPT !.pc = "read"]]
  /\ UNCHANGED <<now, brnVars, dialog, msgVars, excused>>

\* Mutation: the settings survive the tariff.
DegradedKeepsSettings == row' = [row EXCEPT !.end = 0]

\* degrade_user_to_free_tier
Degraded == row' = [row EXCEPT !.end = 0, !.paid = {}]

\* _handle_subscription_expiry
Expire(h) ==
  /\ Does(h, "idle") /\ 0 < row.end /\ row.end <= now /\ Event
  /\ Degraded /\ excused' = FALSE
  /\ task' = [task EXCEPT ![h] = [NoTask EXCEPT !.pc = "read"]]
  /\ UNCHANGED <<now, brnVars, dialog, msgVars>>

\* process_admin_toggle_block and process_admin_subs_days do not invalidate.
AdminBlocks ==
  /\ Event /\ row' = [row EXCEPT !.blocked = ~@]
  /\ UNCHANGED <<now, brnVars, task, dialog, msgVars, excused>>

AdminSetsDays ==
  /\ Event
  /\ \/ row' = [row EXCEPT !.end = now + 1] /\ UNCHANGED excused
     \/ row' = [row EXCEPT !.end = 0] /\ excused' = TRUE
  /\ UNCHANGED <<now, brnVars, task, dialog, msgVars>>

TimePasses ==
  /\ now < MaxNow /\ now' = now + 1
  /\ UNCHANGED <<row, brnVars, task, dialog, msgVars, events, excused>>

-----------------------------------------------------------------------------
(* _update_cache_logic, in the ticker and in invalidate_user_cache.        *)
Reloads(r) == IF r = Ticker THEN TRUE ELSE Does(r, "read")
Reloaded(r) == IF r = Ticker THEN UNCHANGED task ELSE Then(r, "publish")

ReadUsers(r) ==
  /\ Reloads(r) /\ got[r] = Nothing /\ got' = [got EXCEPT ![r] = row]
  /\ UNCHANGED <<now, row, brain, lastUsers, task, dialog, msgVars, events, excused>>

AssignUsers(r) ==
  /\ got[r] # Nothing /\ got' = [got EXCEPT ![r] = Nothing]
  /\ lastUsers' = got[r] /\ brain' = Target(got[r]) /\ Reloaded(r)
  /\ UNCHANGED <<now, row, dialog, msgVars, events, excused>>

\* The query fails: get_active_users returns what it returned last.
ReadUsersFails(r) ==
  /\ Reloads(r) /\ got[r] = Nothing /\ Event /\ brain' = Target(lastUsers) /\ Reloaded(r)
  /\ UNCHANGED <<now, row, lastUsers, got, dialog, msgVars, excused>>

\* publish_cache_invalidation; Redis fails, or nobody is listening.  An
\* answer's dialogue is closed after it.
Publish(h) ==
  /\ Does(h, "publish") /\ task' = [task EXCEPT ![h] = NoTask]
  /\ (heard' = heard + 1 /\ UNCHANGED events) \/ (Event /\ UNCHANGED heard)
  /\ dialog' = IF task[h].what = "answer" THEN "no" ELSE dialog
  /\ UNCHANGED <<now, row, brnVars, messenger, msgUsers, loaded, fresh, excused>>

\* The main process stops and starts, loading its cache once before the rest.
BotRestarts ==
  /\ Event /\ got' = [r \in Readers |-> Nothing] /\ task' = [h \in Tasks |-> NoTask]
  /\ dialog' = "no"
  /\ \/ lastUsers' = row /\ brain' = Target(row)
     \/ lastUsers' = NoUser /\ brain' = Absent
  /\ UNCHANGED <<now, row, msgVars, excused>>

-----------------------------------------------------------------------------
(* The messenger: _load_cache, every 60 seconds ...                        *)
LoadReads ==
  /\ loaded = Nothing /\ loaded' = row
  /\ UNCHANGED <<now, row, brnVars, task, dialog, messenger, msgUsers, fresh, heard,
                 events, excused>>

\* Mutation: the cache is filled only when it is empty.
LoadAssignsOnce ==
  /\ loaded # Nothing /\ loaded' = Nothing /\ msgUsers' = loaded
  /\ messenger' = IF messenger = Absent THEN Target(loaded) ELSE messenger
  /\ UNCHANGED <<now, row, brnVars, task, dialog, fresh, heard, events, excused>>

LoadAssigns ==
  /\ loaded # Nothing /\ loaded' = Nothing /\ msgUsers' = loaded /\ messenger' = Target(loaded)
  /\ UNCHANGED <<now, row, brnVars, task, dialog, fresh, heard, events, excused>>

LoadFails ==
  /\ loaded = Nothing /\ Event /\ messenger' = Target(msgUsers)
  /\ UNCHANGED <<now, row, brnVars, task, dialog, msgUsers, loaded, fresh, heard, excused>>

\* ... and _cache_invalidation_listener with _refresh_single_target.
Hear ==
  /\ fresh = Nothing /\ heard > 0 /\ heard' = heard - 1 /\ fresh' = row
  /\ UNCHANGED <<now, row, brnVars, task, dialog, messenger, msgUsers, loaded,
                 events, excused>>

\* get_user_by_id fails and answers None: the user is taken out of the cache.
HearFails ==
  /\ fresh = Nothing /\ heard > 0 /\ heard' = heard - 1 /\ Event /\ messenger' = Absent
  /\ UNCHANGED <<now, row, brnVars, task, dialog, msgUsers, loaded, fresh, excused>>

Refresh ==
  /\ fresh # Nothing /\ fresh' = Nothing /\ messenger' = Target(fresh)
  /\ UNCHANGED <<now, row, brnVars, task, dialog, msgUsers, loaded, heard,
                 events, excused>>

\* The subscription breaks: what was published to it is gone.
Deafen ==
  /\ heard > 0 /\ Event /\ heard' = 0
  /\ UNCHANGED <<now, row, brnVars, task, dialog, messenger, msgUsers, loaded, fresh, excused>>

MessengerRestarts ==
  /\ Event /\ messenger' = Absent /\ msgUsers' = NoUser /\ loaded' = Nothing /\ fresh' = Nothing
  /\ heard' = 0
  /\ UNCHANGED <<now, row, brnVars, task, dialog, excused>>

-----------------------------------------------------------------------------
BrainReloads     == ReadUsers(Ticker) \/ AssignUsers(Ticker)
MessengerReloads == LoadReads \/ LoadAssigns

AudienceNext ==
  \/ \E h \in Tasks :
       \/ PressToggle(h) \/ PressPreset(h) \/ PressMute(h) \/ PressWelcome(h)
       \/ Answer(h) \/ Write(h) \/ WriteFails(h) \/ BandNotSaved(h) \/ Buy(h) \/ Expire(h) \/ Publish(h)
       \/ ReadUsers(h) \/ AssignUsers(h) \/ ReadUsersFails(h)
  \/ OpenDialog \/ AdminBlocks \/ AdminSetsDays \/ TimePasses
  \/ BrainReloads \/ ReadUsersFails(Ticker) \/ BotRestarts
  \/ MessengerReloads \/ LoadFails \/ Hear \/ HearFails \/ Refresh
  \/ Deafen \/ MessengerRestarts

\* Each process's periodic task runs for ever; nothing else is needed.
AudienceFairness == WF_audVars(BrainReloads) /\ WF_audVars(MessengerReloads)

AudienceSpec == AudienceInit /\ [][AudienceNext]_audVars /\ AudienceFairness

-----------------------------------------------------------------------------
\* When nothing changes any more, both processes come to see the user as the
\* row has them: blocked or not, VIP or not, with the settings last written,
\* although an invalidation was lost, made by nobody, or overtaken by a reload
\* that had read the row before it changed.
CachesCatchUp == <>[](brain = Target(row) /\ messenger = Target(row))

\* Settings only a VIP may have end with the subscription.  What survives was
\* written by a handler admitted before the end (a slow one, or a dialogue
\* answered after it), by the onboarding's preset button, or is left by an
\* administrator who annuls the subscription without the degradation.
PaidSettingsEndWithVip == row.end = 0 /\ ~excused => row.paid = {}
=============================================================================
