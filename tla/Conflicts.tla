----------------------------- MODULE Conflicts -----------------------------
(***************************************************************************)
(* What becomes of changes several devices of a user make to the same      *)
(* things: the latest-wins rules of the server (backend/src/sync/ops.rs),  *)
(* and on the device the base, the overlay and the rebase that brings them *)
(* together (frontend/src/lib/local/apply.ts, view.ts, preferences.ts,     *)
(* frontend/src/lib/sync/pull.ts, rebase.ts).                              *)
(*                                                                         *)
(* One quiz of one cascade, active and on one attempt throughout, and the  *)
(* user's preferences.  A value is the operation that wrote it, 0 when     *)
(* none did; operations are numbered in the order they are made.  All      *)
(* devices have pulled once.  A batch holds the whole outbox, a pull reads *)
(* one snapshot, and a request is served when it is sent or not at all:    *)
(* SyncPush and SyncPull are about what happens otherwise.                 *)
(***************************************************************************)
EXTENDS Integers, FiniteSets, Sequences

CONSTANTS
  Devices,
  Units,     \* of AllUnits, those the instance has
  SKEW,      \* how far ahead of the server a device's clock is believed
  MaxOps,    \* bound: operations made
  MaxSeq,    \* bound: requests served
  Breaks,    \* the stages of a sync cycle in which it may be interrupted
  Times,     \* what the devices' clocks may show
  MaxNow     \* bound: how long the server's clock runs

\* What two devices can both change: a question's grade, a quiz's cursor and
\* its options, the cascade's options, the preferences and the bindings.  Each
\* is one value, and a change sets all of it.
AllUnits == {"grade", "cursor", "options", "defaults", "preferences", "bindings"}

ASSUME ConflictsAssumption ==
  /\ Units \subseteq AllUnits
  /\ SKEW \in Nat /\ MaxOps \in Nat /\ MaxSeq \in Nat
  /\ Times \subseteq Nat /\ MaxNow \in Nat

Ops         == 1 .. MaxOps
CascadeRows == {"question", "quiz", "cascade"}
Rows        == CascadeRows \cup {"preferences"}

\* The row a unit is in.
RowOf(u) == CASE u = "grade" -> "question"
              [] u \in {"cursor", "options"} -> "quiz"
              [] u = "defaults" -> "cascade"
              [] OTHER -> "preferences"

UnitsIn(rows) == {u \in Units : RowOf(u) \in rows}
CascadeUnits  == UnitsIn(CascadeRows)
OptionUnits   == Units \cap {"options", "defaults"}

VARIABLES
  made,         \* the operations made: device, unit, device time, seen_seq;
                \* history: known, the base's value then
  outbox,       \* per device: its pending operations
  base,         \* per device: the value of each unit as the server sent it
  overlay,      \* per device: the values of the units in its overlay rows
  cursor,       \* per device: the sequence it has synced to
  cycle,        \* per device: its sync cycle
  held,         \* the server's value of each unit
  stamp,        \* the server's updated_seq of each row
  options_seq,  \* the sequence of the last change of options
  sync_seq,
  now,          \* the server's clock
  decided,      \* per operation: verdict and clamped time; history: the
                \* sequence of its request and the value it met
  torn          \* history: devices that lost a rejection (see Interrupt)

device == <<made, outbox, base, overlay, cursor, cycle, torn>>
server == <<held, stamp, options_seq, sync_seq, decided>>
vars   == <<device, server, now>>

Undecided == [verdict |-> "none", at |-> 0, seq |-> 0, met |-> 0]
Idle      == [stage |-> "idle", batch |-> {}, seq |-> 0, rows |-> {},
              page |-> [u \in {} |-> 0], foreign |-> FALSE]

Init ==
  /\ made = <<>>
  /\ outbox = [d \in Devices |-> {}]
  /\ base = [d \in Devices |-> [u \in Units |-> 0]]
  /\ overlay = [d \in Devices |-> [u \in {} |-> 0]]
  /\ cursor = [d \in Devices |-> 0]
  /\ cycle = [d \in Devices |-> Idle]
  /\ held = [u \in Units |-> 0]
  /\ stamp = [r \in Rows |-> 0]
  /\ options_seq = [u \in OptionUnits |-> 0]
  /\ sync_seq = 0
  /\ now = 0
  /\ decided = [o \in Ops |-> Undecided]
  /\ torn = {}

Highest(S) == CHOOSE n \in S : \A m \in S : m <= n

-----------------------------------------------------------------------------
(* The device: applying an operation and reading the view                  *)

\* A row is the overlay's version when there is one, else the base's.
Shown(ov, bs, u) == IF u \in DOMAIN ov THEN ov[u] ELSE bs[u]

\* The overlay rows applying an operation writes.
Writes(u) == CASE u = "grade" -> CascadeRows
               [] u \in {"cursor", "options"} -> {"quiz"}
               [] u = "defaults" -> {"cascade"}
               [] OTHER -> {}

\* Whole rows are written: the other units of a row are copied as shown.
applyOp(ov, bs, u, o) ==
  [v \in DOMAIN ov \cup UnitsIn(Writes(u)) |-> IF v = u THEN o ELSE Shown(ov, bs, v)]

PendingOn(d, u) == {o \in outbox[d] : made[o].unit = u}

\* Preferences have no overlay: what is pending is laid over the base row.
View(d, u) ==
  IF u \in CascadeUnits THEN Shown(overlay[d], base[d], u)
  ELSE IF PendingOn(d, u) = {} THEN base[d][u] ELSE Highest(PendingOn(d, u))

\* Of the cursor moves only the latest stays pending.
applyLocally(d, u, at) ==
  LET o == Len(made) + 1 IN
  /\ Len(made) < MaxOps
  /\ made' = Append(made, [device |-> d, unit |-> u, at |-> at, seen |-> cursor[d],
                           known |-> base[d][u]])
  /\ overlay' = [overlay EXCEPT ![d] = applyOp(@, base[d], u, o)]
  /\ outbox' = [outbox EXCEPT ![d] =
                  (IF u = "cursor" THEN @ \ PendingOn(d, u) ELSE @) \cup {o}]
  /\ UNCHANGED <<base, cursor, cycle, torn, server, now>>

-----------------------------------------------------------------------------
(* The server                                                              *)

\* A device time, at most SKEW ahead of the server's.
clamp(at, t) == IF at <= t + SKEW THEN at ELSE t + SKEW

\* The rows a change of a unit stamps: a grade moves the quiz's counters and
\* the cascade's last activity too.
Stamped(u) == IF u = "grade" THEN CascadeRows ELSE {RowOf(u)}

\* Mutant: the sequence of the user, which every request raises.
UserSeq(s, u) == sync_seq

\* What seen_seq is compared with: the sequence of the last change of the
\* options themselves, of everything else the row's.
CurrentSeq(s, u) == IF u \in OptionUnits THEN s.options_seq[u] ELSE s.stamp[RowOf(u)]

\* Mutant: the last change to arrive wins.
LastToArrive(s, o, t) == TRUE

\* Unset, this device's own, seen by it, or older than the change.
Wins(s, o, t) ==
  LET m == made[o]
      h == s.held[m.unit]
  IN  \/ h = 0
      \/ made[h].device = m.device
      \/ CurrentSeq(s, m.unit) <= m.seen
      \/ clamp(m.at, t) > s.decided[h].at

\* One operation of the request with sequence seq, whose transaction starts
\* at t.
Decide(s, o, seq, t) ==
  LET u == made[o].unit
      verdict(v) == [s.decided EXCEPT ![o] = [verdict |-> v, at |-> clamp(made[o].at, t),
                                              seq |-> seq, met |-> s.held[u]]]
  IN  IF Wins(s, o, t)
      THEN [held |-> [s.held EXCEPT ![u] = o],
            stamp |-> [r \in Rows |-> IF r \in Stamped(u) THEN seq ELSE s.stamp[r]],
            options_seq |-> [v \in OptionUnits |-> IF v = u THEN seq ELSE s.options_seq[v]],
            decided |-> verdict("applied")]
      ELSE [s EXCEPT !.decided = verdict("rejected")]

\* The server after a request, its operations decided in order.  What was
\* decided before is answered from its record.
Served(ops, seq, t) ==
  LET f[n \in 0 .. MaxOps] ==
        IF n = 0 THEN [held |-> held, stamp |-> stamp, options_seq |-> options_seq, decided |-> decided]
        ELSE IF n \in ops /\ decided[n].verdict = "none" THEN Decide(f[n - 1], n, seq, t)
        ELSE f[n - 1]
  IN  f[MaxOps]

\* The request, and the rows past the device's cursor that answer it.
Serve(d, t) ==
  /\ cycle[d].stage = "idle"
  /\ sync_seq < MaxSeq
  /\ sync_seq' = sync_seq + 1
  /\ now' = t
  /\ LET s    == Served(outbox[d], sync_seq + 1, t)
         rows == {r \in Rows : s.stamp[r] > cursor[d]}
     IN  /\ held' = s.held
         /\ stamp' = s.stamp
         /\ options_seq' = s.options_seq
         /\ decided' = s.decided
         /\ cycle' = [cycle EXCEPT ![d] =
              [stage |-> "answered", batch |-> outbox[d], seq |-> sync_seq + 1,
               rows |-> rows, page |-> [u \in UnitsIn(rows) |-> s.held[u]],
               foreign |-> \E r \in rows \cap CascadeRows : s.stamp[r] # sync_seq + 1]]
  /\ UNCHANGED <<made, outbox, base, overlay, cursor, torn>>

-----------------------------------------------------------------------------
(* The device: its pull and its rebase                                     *)

Pulled(d, rows) ==
  [u \in Units |-> IF u \in DOMAIN cycle[d].page /\ RowOf(u) \in rows
                   THEN cycle[d].page[u] ELSE base[d][u]]

\* Grades of an unchanged attempt go straight to the base.
writePage(d) ==
  /\ cycle[d].stage = "answered"
  /\ base' = [base EXCEPT ![d] = Pulled(d, {"question"})]
  /\ cycle' = [cycle EXCEPT ![d].stage = "written"]
  /\ UNCHANGED <<made, outbox, overlay, cursor, torn, server, now>>

\* Step 1 of the rebase, a transaction of its own.
Acknowledge(d) ==
  /\ cycle[d].stage = "written"
  /\ outbox' = [outbox EXCEPT ![d] = @ \ cycle[d].batch]
  /\ cycle' = [cycle EXCEPT ![d].stage = "acknowledged"]
  /\ UNCHANGED <<made, base, overlay, cursor, torn, server, now>>

OnCascade(ops) == {o \in ops : made[o].unit \in CascadeUnits}
Rejected(ops)  == {o \in ops : decided[o].verdict = "rejected"}

\* Mutant: other devices' rows are not looked for.
AllApplied(d) == Rejected(OnCascade(cycle[d].batch)) = {}

\* Every acknowledged operation applied, and no row another device stamped.
fast(d) == ~cycle[d].foreign /\ Rejected(OnCascade(cycle[d].batch)) = {}

\* The overlay rows something pending still holds.
HeldRows(d) ==
  LET pending == {made[o].unit : o \in OnCascade(outbox[d])} IN
  (IF pending # {} THEN {"cascade"} ELSE {})
    \cup (IF pending \cap {"grade", "cursor", "options"} # {} THEN {"quiz"} ELSE {})
    \cup (IF "grade" \in pending THEN {"question"} ELSE {})

\* The rows the acknowledged operations touched: what the fast path looks at
\* when they are grades, moves and options of quizzes; else at every row.
TouchedRows(ops) ==
  LET units == {made[o].unit : o \in OnCascade(ops)} IN
  IF "defaults" \in units THEN CascadeRows
  ELSE {"cascade"} \cup (IF units # {} THEN {"quiz"} ELSE {})
         \cup (IF "grade" \in units THEN {"question"} ELSE {})

\* Mutant: every row an acknowledged operation touched goes.
ClearedWhole(d) ==
  [u \in DOMAIN overlay[d] \ UnitsIn(TouchedRows(cycle[d].batch)) |-> overlay[d][u]]

\* Fast path: the rows nothing pending holds.
clearTouched(d) ==
  [u \in DOMAIN overlay[d] \ UnitsIn(TouchedRows(cycle[d].batch) \ HeldRows(d)) |-> overlay[d][u]]

\* Mutant: the overlay is emptied, what is pending not replayed.
Emptied(ops, bs) == [u \in {} |-> 0]

\* Steps 3 and 4: the outbox replayed over a base.
Replay(ops, bs) ==
  LET f[n \in 0 .. MaxOps] ==
        IF n = 0 THEN [u \in {} |-> 0]
        ELSE IF n \in ops THEN applyOp(f[n - 1], bs, made[n].unit, n)
        ELSE f[n - 1]
  IN  f[MaxOps]

\* The transaction of the cascade, for a pull or an answer about it.
rebaseCascade(d) ==
  /\ cycle[d].stage = "acknowledged"
  /\ cycle' = [cycle EXCEPT ![d].stage = "rebased"]
  /\ IF cycle[d].rows \cap CascadeRows = {} /\ OnCascade(cycle[d].batch) = {}
     THEN UNCHANGED <<base, overlay, torn>>
     ELSE /\ base' = [base EXCEPT ![d] = Pulled(d, CascadeRows)]
          /\ overlay' = [overlay EXCEPT ![d] = IF fast(d) THEN clearTouched(d)
                                               ELSE Replay(outbox[d], base'[d])]
          /\ torn' = IF fast(d) THEN torn ELSE torn \ {d}
  /\ UNCHANGED <<made, outbox, cursor, server, now>>

\* The last transaction: the preferences and the cursor.
EndRebase(d) ==
  /\ cycle[d].stage = "rebased"
  /\ base' = [base EXCEPT ![d] = Pulled(d, {"preferences"})]
  /\ cursor' = [cursor EXCEPT ![d] = cycle[d].seq]
  /\ cycle' = [cycle EXCEPT ![d] = Idle]
  /\ UNCHANGED <<made, outbox, overlay, torn, server, now>>

\* The answer is lost, the pull fails, or the app is closed between two
\* transactions.  After the first one, nothing is left that knows of a
\* rejection.
Interrupt(d) ==
  /\ cycle[d].stage \in Breaks
  /\ cycle' = [cycle EXCEPT ![d] = Idle]
  /\ torn' = IF cycle[d].stage = "acknowledged" /\ Rejected(OnCascade(cycle[d].batch)) # {}
             THEN torn \cup {d} ELSE torn
  /\ UNCHANGED <<made, outbox, base, overlay, cursor, server, now>>

-----------------------------------------------------------------------------
Next ==
  \E d \in Devices :
    \/ \E u \in Units, at \in Times : applyLocally(d, u, at)
    \/ \E t \in now .. MaxNow : Serve(d, t)
    \/ writePage(d)
    \/ Acknowledge(d)
    \/ rebaseCascade(d)
    \/ EndRebase(d)
    \/ Interrupt(d)

Spec == Init /\ [][Next]_vars

-----------------------------------------------------------------------------
(* Properties                                                              *)

\* Types.
TypeOK ==
  /\ \A i \in DOMAIN made : made[i].device \in Devices /\ made[i].unit \in Units
  /\ \A d \in Devices :
       /\ outbox[d] \subseteq DOMAIN made
       /\ \A u \in Units : base[d][u] \in 0 .. Len(made)
       /\ DOMAIN overlay[d] \subseteq CascadeUnits
       /\ cursor[d] \in 0 .. sync_seq
  /\ \A u \in Units : held[u] \in 0 .. Len(made)
  /\ \A r \in Rows : stamp[r] \in 0 .. sync_seq
  /\ torn \subseteq Devices

\* A change that replaces another device's, which this device's base did not
\* hold when the change was made, is later than it by the clamped clocks: no
\* sequence test lets a device overwrite what it was never sent
\* (ops.rs, the four tests of seen_seq).
UnseenYieldsToTheLater ==
  \A i \in DOMAIN made :
    LET met == decided[i].met IN
    (/\ decided[i].verdict = "applied"
     /\ met # 0
     /\ made[met].device # made[i].device
     /\ met # made[i].known)
      => decided[i].at > decided[met].at

\* The server still holds the value this change was made over, and that value
\* had come with a pull that had moved the cursor.
TurnedAwayKnowing(i) ==
  LET met == decided[i].met IN
  /\ decided[i].verdict = "rejected"
  /\ met = made[i].known
  /\ decided[met].seq <= made[i].seen

\* A change of a grade or of options made over the very value the server
\* still holds is never turned away, whatever the clocks (ops.rs: these have a
\* sequence of their own for seen_seq to be compared with).
KnownChangesWin ==
  \A i \in DOMAIN made : made[i].unit \in {"grade", "options", "defaults"} => ~TurnedAwayKnowing(i)

\* What a device changed a moment ago does not flip back before it is pushed:
\* the latest pending change of a thing is what the device shows, through
\* pulls, rebases and interruptions (preferences.ts, rebase.ts steps 3 and 4).
PendingStaysShown ==
  \A d \in Devices, u \in Units :
    PendingOn(d, u) # {} => View(d, u) = Highest(PendingOn(d, u))

\* A device that has nothing pending and has synced to the server's present
\* shows what the server holds; unless an interruption lost it a rejection.
SettledDevicesAgree ==
  \A d \in Devices \ torn :
    (cycle[d] = Idle /\ outbox[d] = {} /\ cursor[d] = sync_seq)
      => \A u \in Units : View(d, u) = held[u]

=============================================================================
