---------------------------- MODULE MediaResolve ----------------------------
(***************************************************************************)
(* How the messenger turns a message of the log channel into a file_id,    *)
(* and how the placeholder picture is kept alive in that channel.  The     *)
(* messenger resolves one message at a time, under a Redis lock per        *)
(* message; AssetManager.ensure_placeholder runs in the messenger, when    *)
(* the placeholder turns out to be deleted, and in the brain at start-up,  *)
(* under a Redis lock of its own.  Both locks live ten seconds.            *)
(***************************************************************************)
EXTENDS Integers, Sequences, FiniteSets

CONSTANTS
  MaxAnchors,  \* bound: placeholder messages ever posted
  Polls,       \* how often a process that found the asset lock busy looks
  MaxTrouble   \* bound: failed or slow calls, floods and crashes

ASSUME MediaAssumption == MaxAnchors \in Nat \ {0} /\ Polls \in Nat /\ MaxTrouble \in Nat

None == 0                          \* no message id
Anchors == 1 .. MaxAnchors         \* the placeholder's messages, as posted
Chart == MaxAnchors + 1            \* a signal's own chart
Procs == {"brain", "messenger"}    \* who may ensure the placeholder

VARIABLES
  log,         \* the messages in the log channel
  last,        \* how many placeholders were posted
  row,         \* SystemMetadata: the placeholder's id
  key,         \* csl:...placeholder_msg_id in Redis
  ram,         \* the messenger's placeholder_msg_id
  ids,         \* messages whose file_id is cached (in Redis, hence in RAM)
  held,        \* held[m]: the frame that owns the resolve lock of m, or 0
  asset,       \* who owns the asset lock: {} or one process
  frames,      \* the messenger's nested resolve calls: the messages they hold locks for
  res,         \* the messenger: where its resolve is, and for which message
  ens,         \* ens[p]: where p's ensure_placeholder is
  trouble      \* faults so far

medVars == <<log, last, row, key, ram, ids, held, asset, frames, res, ens, trouble>>

Idle(found) == [pc |-> "idle", orig |-> None, polls |-> 0, found |-> found]

MediaInit ==
  /\ log = {1, Chart} /\ last = 1 /\ row = 1 /\ key = 1 /\ ram = None
  /\ ids = {} /\ held = [m \in Anchors \cup {Chart} |-> 0] /\ asset = {}
  /\ frames = <<>> /\ res = [pc |-> "idle", of |-> None]
  /\ ens = [p \in Procs |-> Idle(None)] /\ trouble = 0

Trouble == trouble < MaxTrouble /\ trouble' = trouble + 1

---------------------------------------------------------------------------
(* ensure_placeholder in process p. *)

Starts(p) == [ens EXCEPT ![p] = [pc |-> "check", orig |-> row, polls |-> 0, found |-> None]]
Goes(p, pc) == ens' = [ens EXCEPT ![p].pc = pc]

\* p leaves with the id m, which it has written to Redis unless there is none.
Leaves(p, m) ==
  /\ ens' = [ens EXCEPT ![p] = [Idle(m) EXCEPT !.pc = "left"]]
  /\ key' = IF m = None THEN key ELSE m

\* _message_exists by forwarding it; any exception counts as missing.
Seen(m, yes) == IF yes THEN m \in log /\ UNCHANGED trouble
                ELSE IF m \in log THEN Trouble ELSE UNCHANGED trouble

Check(p) ==
  /\ ens[p].pc = "check"
  /\ \/ Seen(ens[p].orig, TRUE)  /\ Leaves(p, ens[p].orig)
     \/ Seen(ens[p].orig, FALSE) /\ Goes(p, "lock") /\ UNCHANGED key
  /\ UNCHANGED <<log, last, row, ram, ids, held, asset, frames, res>>

\* LockResult.ERROR is retried, BUSY means another process is at work.
LockAsset(p) ==
  /\ ens[p].pc = "lock"
  /\ IF asset = {} THEN asset' = {p} /\ Goes(p, "again")
                   ELSE Goes(p, "poll") /\ UNCHANGED asset
  /\ UNCHANGED <<log, last, row, key, ram, ids, held, frames, res, trouble>>

\* Mutation: a busy lock is waited for without an end.
PollForEver(p) ==
  /\ ens[p].pc = "poll"
  /\ row \notin {None, ens[p].orig} /\ Seen(row, TRUE) /\ Leaves(p, row)
  /\ UNCHANGED <<log, last, row, ram, ids, held, asset, frames, res>>

Poll(p) ==
  /\ ens[p].pc = "poll"
  /\ \/ /\ ens[p].polls < Polls /\ row \notin {None, ens[p].orig} /\ Seen(row, TRUE)
        /\ Leaves(p, row)
     \/ /\ ens[p].polls < Polls /\ (row \in {None, ens[p].orig} \/ row \notin log)
        /\ ens' = [ens EXCEPT ![p].polls = @ + 1] /\ UNCHANGED <<key, trouble>>
     \/ /\ ens[p].polls = Polls /\ Leaves(p, None) /\ UNCHANGED trouble
  /\ UNCHANGED <<log, last, row, ram, ids, held, asset, frames, res>>

\* Mutation: the new owner of the lock posts at once.
PostUnseen(p) ==
  /\ ens[p].pc = "again" /\ Goes(p, "post")
  /\ UNCHANGED <<log, last, row, key, ram, ids, held, asset, frames, res, trouble>>

\* The row is read again under the lock.
CheckAgain(p) ==
  /\ ens[p].pc = "again"
  /\ \/ /\ Seen(row, TRUE) /\ Leaves(p, row) /\ asset' = asset \ {p}
     \/ Seen(row, FALSE) /\ Goes(p, "post") /\ UNCHANGED <<key, asset>>
  /\ UNCHANGED <<log, last, row, ram, ids, held, frames, res>>

\* p's call raises: it leaves without an id, its lock given back.
Raises(p) == Leaves(p, None) /\ asset' = asset \ {p}

Post(p) ==
  /\ ens[p].pc = "post"
  /\ \/ /\ last < MaxAnchors
        /\ log' = log \cup {last + 1} /\ last' = last + 1
        /\ ens' = [ens EXCEPT ![p] = [@ EXCEPT !.pc = "commit", !.found = last + 1]]
        /\ UNCHANGED <<key, asset, trouble>>
     \/ /\ IF last = MaxAnchors THEN UNCHANGED trouble ELSE Trouble
        /\ Raises(p) /\ UNCHANGED <<log, last>>
  /\ UNCHANGED <<row, ram, ids, held, frames, res>>

\* The row is committed, Redis written, the lock released if still owned.
Commit(p) ==
  /\ ens[p].pc = "commit"
  /\ \/ /\ row' = ens[p].found /\ Leaves(p, ens[p].found) /\ asset' = asset \ {p}
        /\ UNCHANGED trouble
     \/ Trouble /\ Raises(p) /\ UNCHANGED row
  /\ UNCHANGED <<log, last, ram, ids, held, frames, res>>

BrainStarts ==
  /\ ens["brain"].pc \in {"idle", "left"} /\ ens' = Starts("brain")
  /\ UNCHANGED <<log, last, row, key, ram, ids, held, asset, frames, res, trouble>>

BrainCrash ==
  /\ ens["brain"].pc \notin {"idle", "left"} /\ Trouble
  /\ ens' = [ens EXCEPT !["brain"] = Idle(None)]
  /\ UNCHANGED <<log, last, row, key, ram, ids, held, asset, frames, res>>

---------------------------------------------------------------------------
(* The messenger's resolve. *)

\* A signal arrives; without a chart the placeholder is what is resolved,
\* found in RAM, in Redis or in the metadata row, in that order.
Wanted(own) == IF own THEN Chart ELSE IF ram # None THEN ram
                 ELSE IF key # None THEN key ELSE row

Want(own) ==
  /\ res.pc = "idle" /\ Wanted(own) # None
  /\ ram' = IF own THEN ram ELSE Wanted(FALSE)
  /\ key' = IF own \/ ram # None THEN key ELSE Wanted(FALSE)
  /\ res' = [pc |-> "cached", of |-> Wanted(own)]
  /\ UNCHANGED <<log, last, row, ids, held, asset, frames, ens, trouble>>

Enter(m) == res' = [pc |-> "cached", of |-> m]

\* Each level of the call gives back the lock it took, if that is still its own.
Return ==
  /\ res' = [pc |-> "idle", of |-> None] /\ frames' = <<>>
  /\ held' = [m \in DOMAIN held |->
                IF held[m] \in DOMAIN frames /\ frames[held[m]] = m THEN 0 ELSE held[m]]

\* RAM and Redis, before the lock and after each attempt to take it.
Cached ==
  /\ res.pc = "cached"
  /\ IF res.of \in ids THEN Return
     ELSE res' = [res EXCEPT !.pc = "lock"] /\ UNCHANGED <<frames, held>>
  /\ UNCHANGED <<log, last, row, key, ram, ids, asset, ens, trouble>>

\* BUSY is waited out, whoever holds the lock: a call that nested itself
\* after a flood waits for its own outer call's lock to expire.
LockMessage ==
  /\ res.pc = "lock" /\ held[res.of] = 0
  /\ frames' = Append(frames, res.of)
  /\ held' = [held EXCEPT ![res.of] = Len(frames) + 1]
  /\ res' = [res EXCEPT !.pc = "forward"]
  /\ UNCHANGED <<log, last, row, key, ram, ids, asset, ens, trouble>>

Resolve ==
  /\ res.pc = "forward"
  /\ \/ res.of \in log /\ ids' = ids \cup {res.of} /\ UNCHANGED trouble
     \/ Trouble /\ UNCHANGED ids                     \* any other exception
     \/ res.of \notin log /\ res.of # ram /\ UNCHANGED <<ids, trouble>>
  /\ Return
  /\ UNCHANGED <<log, last, row, key, ram, asset, ens>>

\* RetryAfter: sleep, then call again from within the try that holds the lock.
ResolveFlooded ==
  /\ res.pc = "forward" /\ Trouble /\ Enter(res.of)
  /\ UNCHANGED <<log, last, row, key, ram, ids, held, asset, frames, ens>>

\* The placeholder itself is gone: it is restored, and resolved in its turn.
Missing ==
  /\ res.pc = "forward" /\ res.of \notin log /\ res.of = ram
  /\ ram' = None /\ res' = [res EXCEPT !.pc = "restore"] /\ ens' = Starts("messenger")
  /\ UNCHANGED <<log, last, row, key, ids, held, asset, frames, trouble>>

Restored ==
  /\ res.pc = "restore" /\ ens["messenger"].pc = "left"
  /\ LET m == ens["messenger"].found
     IN  /\ ram' = IF m = None THEN ram ELSE m
         /\ IF m \notin {None, res.of} THEN Enter(m) /\ UNCHANGED <<frames, held>> ELSE Return
  /\ UNCHANGED <<log, last, row, key, ids, asset, ens, trouble>>

---------------------------------------------------------------------------
(* The environment. *)

\* Somebody deletes a message of the channel; a file_id cache entry expires.
Lose ==
  /\ \E m \in log \cap Anchors : log' = log \ {m}
  /\ UNCHANGED <<last, row, key, ram, ids, held, asset, frames, res, ens, trouble>>

Forget ==
  /\ res.pc = "idle" /\ \E m \in ids : ids' = ids \ {m}
  /\ UNCHANGED <<log, last, row, key, ram, held, asset, frames, res, ens, trouble>>

\* Ten seconds pass.  Nobody waits for a lock whose owner is quick; a slow
\* owner's lock expiring is a fault.
Expire(m) ==
  /\ held[m] # 0
  /\ IF res.pc = "lock" /\ res.of = m THEN UNCHANGED trouble ELSE Trouble
  /\ held' = [held EXCEPT ![m] = 0]
  /\ UNCHANGED <<log, last, row, key, ram, ids, asset, frames, res, ens>>

ExpireAsset ==
  /\ asset # {}
  /\ IF \E p \in asset : ens[p].pc \notin {"again", "post", "commit"}
     THEN UNCHANGED trouble ELSE Trouble
  /\ asset' = {}
  /\ UNCHANGED <<log, last, row, key, ram, ids, held, frames, res, ens>>

---------------------------------------------------------------------------
Ensuring(p) == Check(p) \/ LockAsset(p) \/ Poll(p) \/ CheckAgain(p) \/ Post(p) \/ Commit(p)
Resolving == Cached \/ LockMessage \/ Resolve \/ Missing \/ Restored
Expiring  == \E m \in Anchors \cup {Chart} : Expire(m)

MediaNext ==
  \/ \E p \in Procs : Ensuring(p)
  \/ BrainStarts \/ BrainCrash \/ (\E c \in BOOLEAN : Want(c))
  \/ Resolving \/ ResolveFlooded \/ Lose \/ Forget \/ Expiring \/ ExpireAsset

\* The event loops run on, and a lock in Redis does expire.
MediaFairness ==
  /\ WF_medVars(Ensuring("brain"))
  /\ WF_medVars(Resolving \/ Ensuring("messenger"))
  /\ WF_medVars(Expiring /\ trouble' = trouble)

MediaSpec == MediaInit /\ [][MediaNext]_medVars /\ MediaFairness

\* The two processes never leave two placeholders in the channel: the lock and
\* the second look at the row under it make a restoration happen once, as
\* long as no call failed and no lock expired under its owner.
OneAnchor == trouble = 0 => Cardinality(log \cap Anchors) <= 1

\* A signal is never stuck at its picture: the resolve always returns, even
\* when a flood makes it wait for a lock that its own outer call holds.
ResolveReturns == res.pc # "idle" ~> res.pc = "idle"
=============================================================================
