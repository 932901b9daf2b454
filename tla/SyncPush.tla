------------------------------ MODULE SyncPush ------------------------------
(***************************************************************************)
(* How one device's operations reach the server: the outbox and its sync   *)
(* cycle (frontend/src/lib/sync/engine.ts, rebase.ts, local/apply.ts) and  *)
(* the server's push with its records and its acknowledged mark            *)
(* (backend/src/sync/routes.rs).                                           *)
(*                                                                         *)
(* An operation is its device_seq.  What applying it does is the business  *)
(* of Cascade; here it is a verdict, "applied" or "rejected", that the     *)
(* server's state allows to be either.  The devices of a user share the    *)
(* server's rows but neither outbox, records nor mark, so one is enough.   *)
(*                                                                         *)
(* A tab has at most one request waiting.  A request whose answer a tab no *)
(* longer waits for (the fetch failed, the tab was closed, the pull after  *)
(* it was interrupted) is a stray: the server may still serve it, later    *)
(* than the resend, and more than once where several were alike.  A 503 is *)
(* a rollback followed by the very same request, so it is no step here.    *)
(***************************************************************************)
EXTENDS Integers, FiniteSets, FiniteSetsExt

CONSTANTS
  Tabs,      \* the tabs that run a sync engine: one, or without Web Locks more
  BATCH_OPS, \* operations in one request
  MaxOps     \* bound: operations the device makes

ASSUME PushAssumption == BATCH_OPS \in Nat \ {0} /\ MaxOps \in Nat

Ops == 1 .. MaxOps

\* cursor: move_cursor; result: finish, finish_segment and restore_quiz, whose
\* records carry results; plain: the others.
Kinds    == {"cursor", "plain", "result"}
Verdicts == {"applied", "rejected"}

VARIABLES
  outbox,           \* the pending operations
  next_device_seq,
  kind,             \* the operations' kinds
  cycle,            \* per tab: the request it waits on, and its results
  stray,            \* batches nobody waits for
  records,          \* sync_operations of this device
  acked_below,      \* sync_devices of this device
  fate,             \* history: the last verdict on each operation
  times             \* history: how often the server decided each operation

serverVars == <<records, acked_below, fate, times>>
device     == <<outbox, next_device_seq, kind>>
pushVars   == <<device, cycle, stray, serverVars>>

Idle    == [stage |-> "idle", batch |-> {}, results |-> [o \in {} |-> "none"]]
Made    == 1 .. next_device_seq - 1
Decided == {o \in Made : fate[o] # "none"}

PushInit ==
  /\ outbox = {}
  /\ next_device_seq = 1
  /\ kind = [o \in Ops |-> "plain"]
  /\ cycle = [t \in Tabs |-> Idle]
  /\ stray = {}
  /\ records = [o \in Ops |-> "none"]
  /\ acked_below = 1
  /\ fate = [o \in Ops |-> "none"]
  /\ times = [o \in Ops |-> 0]

-----------------------------------------------------------------------------
(* The device                                                              *)

\* applyLocally: of the cursor moves only the latest stays pending.  The one
\* it replaces may be in a request already.
Make(k) ==
  /\ next_device_seq \in Ops
  /\ next_device_seq' = next_device_seq + 1
  /\ kind' = [kind EXCEPT ![next_device_seq] = k]
  /\ outbox' = {o \in outbox : ~(k = "cursor" /\ kind[o] = "cursor")}
                 \cup {next_device_seq}
  /\ UNCHANGED <<cycle, stray, serverVars>>

\* The first entries of the outbox, in its order.
FirstEntries(n) == {o \in outbox : Cardinality({p \in outbox : p < o}) < n}

Send(t) ==
  /\ cycle[t] = Idle
  /\ outbox # {}
  /\ cycle' = [cycle EXCEPT ![t].stage = "sent",
                            ![t].batch = FirstEntries(BATCH_OPS)]
  /\ UNCHANGED <<device, stray, serverVars>>

\* The fetch fails, the answer is not one the engine takes, the pull that
\* follows is interrupted, or the tab is closed.
Abandon(t) ==
  /\ cycle[t] # Idle
  /\ stray' = stray \cup {cycle[t].batch}
  /\ cycle' = [cycle EXCEPT ![t] = Idle]
  /\ UNCHANGED <<device, serverVars>>

\* Mutants: only what was applied is dropped; the outbox is emptied.
DroppedIfApplied(t) ==
  {o \in outbox : o \in cycle[t].batch /\ cycle[t].results[o] = "applied"}
DroppedAll(t) == outbox

\* Every operation that has a result, applied or rejected.
Dropped(t) == outbox \cap cycle[t].batch

\* Step 1 of the rebase, in a transaction of its own.
Receive(t) ==
  /\ cycle[t].stage = "answered"
  /\ outbox' = outbox \ Dropped(t)
  /\ cycle' = [cycle EXCEPT ![t] = Idle]
  /\ UNCHANGED <<next_device_seq, kind, stray, serverVars>>

-----------------------------------------------------------------------------
(* The server                                                              *)

\* Mutant: an operation without a record is new.
FreshWithoutMark(o) == records[o] = "none"

\* Neither recorded nor below the mark: it is applied now.
Fresh(o) == records[o] = "none" /\ o >= acked_below

Result(o, v) ==
  IF records[o] # "none" THEN records[o]
  ELSE IF Fresh(o) THEN v[o] ELSE "applied"

\* Mutant: the batch itself counts as acknowledged.
MarkPastBatch(b) == IF Max(b) + 1 > acked_below THEN Max(b) + 1 ELSE acked_below

NewMark(b) == IF Min(b) > acked_below THEN Min(b) ELSE acked_below

\* One request's transaction, the operations in the order of their device_seq.
Push(b, v) ==
  LET new == {o \in b : Fresh(o)} IN
  /\ acked_below' = NewMark(b)
  /\ records' = [o \in Ops |->
       IF o < NewMark(b) /\ kind[o] # "result" THEN "none"
       ELSE IF o \in new THEN v[o] ELSE records[o]]
  /\ fate' = [o \in Ops |-> IF o \in new THEN v[o] ELSE fate[o]]
  /\ times' = [o \in Ops |-> IF o \in new THEN times[o] + 1 ELSE times[o]]

Serve(t) ==
  /\ cycle[t].stage = "sent"
  /\ \E v \in [Ops -> Verdicts] :
       /\ Push(cycle[t].batch, v)
       /\ cycle' = [cycle EXCEPT ![t].stage = "answered",
                                 ![t].results = [o \in cycle[t].batch |-> Result(o, v)]]
  /\ UNCHANGED <<device, stray>>

ServeStray ==
  /\ \E b \in stray, v \in [Ops -> Verdicts] : Push(b, v)
  /\ UNCHANGED <<device, cycle, stray>>

\* The purge task's prune of records past SYNC_RETENTION_DAYS.  Assumed: no
\* device is offline, and no request under way, for as long as that, so what
\* is pruned is in no outbox and no request.
Expire(o) ==
  /\ records[o] # "none"
  /\ o \notin outbox
  /\ \A t \in Tabs : o \notin cycle[t].batch
  /\ \A b \in stray : o \notin b
  /\ records' = [records EXCEPT ![o] = "none"]
  /\ UNCHANGED <<device, cycle, stray, acked_below, fate, times>>

-----------------------------------------------------------------------------
PushNext ==
  \/ \E k \in Kinds : Make(k)
  \/ \E t \in Tabs : Send(t) \/ Serve(t) \/ Receive(t) \/ Abandon(t)
  \/ ServeStray
  \/ \E o \in Ops : Expire(o)

PushSpec == PushInit /\ [][PushNext]_pushVars

\* A tab syncs every 30 seconds for as long as the app is open, and requests
\* do not fail for ever.
Fairness ==
  /\ WF_pushVars(\E t \in Tabs : Send(t))
  /\ SF_pushVars(\E t \in Tabs : Serve(t))
  /\ SF_pushVars(\E t \in Tabs : Receive(t))

FairSpec == PushSpec /\ Fairness

-----------------------------------------------------------------------------
(* Properties                                                              *)

Requests == [stage : {"idle", "sent", "answered"}, batch : SUBSET Ops,
             results : UNION {[B -> Verdicts] : B \in SUBSET Ops}]

\* The shape of the state.
PushTypeOK ==
  /\ outbox \subseteq Ops
  /\ next_device_seq \in 1 .. MaxOps + 1
  /\ kind \in [Ops -> Kinds]
  /\ cycle \in [Tabs -> Requests]
  /\ stray \subseteq SUBSET Ops
  /\ records \in [Ops -> Verdicts \cup {"none"}]
  /\ acked_below \in Nat
  /\ fate \in [Ops -> Verdicts \cup {"none"}]
  /\ times \in [Ops -> Nat]

\* Every operation is decided at most once, whatever is resent and whenever it
\* is served: a second tab's batch, a stray after its records were deleted.
DecidedAtMostOnce == \A o \in Ops : times[o] <= 1

\* Nothing the device made is lost: what is no longer pending was decided, or
\* was a cursor move replaced by a later one.
NothingLost ==
  \A o \in Made \ outbox :
    \/ fate[o] # "none"
    \/ kind[o] = "cursor" /\ \E p \in Made : p > o /\ kind[p] = "cursor"

\* The mark never passes an operation that is still pending, which would be
\* acknowledged as applied without ever having been.
MarkBelowOutbox == \A o \in outbox : acked_below <= o

\* What a tab is told of an operation it still has is the verdict on it.
AnswersAreTrue ==
  \A t \in Tabs : cycle[t].stage = "answered" =>
    \A o \in cycle[t].batch \cap outbox : cycle[t].results[o] = fate[o]

\* A device's own moves always apply in order (PLAN.md, conflicts table): a
\* cursor move is never decided after a later one.
MovesApplyInOrder ==
  [][\A o \in Decided' \ Decided, p \in Decided :
       kind[o] = "cursor" /\ kind[p] = "cursor" => p < o]_pushVars

\* Everything the device has made reaches the server and leaves the outbox.
OutboxDrains == \A o \in Ops : o \in outbox ~> o \notin outbox

Log == INSTANCE OnceLog WITH
  made     <- next_device_seq - 1,
  replaced <- {o \in Made : kind[o] = "cursor"},
  verdict  <- [o \in Decided |-> fate[o]]

\* The push decides each operation once, and all but the cursor moves in the
\* order they were made.
ImplementsOnceLog == Log!Spec
=============================================================================
