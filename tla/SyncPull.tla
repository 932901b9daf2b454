------------------------------ MODULE SyncPull ------------------------------
(***************************************************************************)
(* How one device's base follows the server's rows: the pull that comes    *)
(* after every push (backend/src/sync/routes.rs, pull.rs), the purges and  *)
(* the pruning that run beside it (sync/ops.rs, purge.rs), and the pages,  *)
(* staging and per-cascade rebase on the device (frontend/src/lib/sync/    *)
(* engine.ts, pull.ts, rebase.ts, lib/local/created.ts).                   *)
(*                                                                         *)
(* A row's content is the sequence that last stamped it (updated_seq).     *)
(* Each query of a page is a statement of its own under READ COMMITTED:    *)
(* only the push and the purge task hold the user's row lock, the pages    *)
(* do not, so the server moves on between any two of them.                 *)
(*                                                                         *)
(* Left to other modules: what operations do (Cascade), their delivery     *)
(* (SyncPush), and the overlay.  Left out: attempts, question rows and     *)
(* preferences, which follow the rows below; a second tab without Web      *)
(* Locks; a database restored to an earlier point.                         *)
(***************************************************************************)
EXTENDS Integers, FiniteSets, FiniteSetsExt

CONSTANTS
  Cascades,   \* numbers, so that the tables have their primary-key order
  Quizzes,    \* numbers too
  Home,       \* the cascade of each quiz
  Creatable,  \* the cascades this device may create
  Studied,    \* the cascades it may make operations on
  PAGE_ROWS,  \* rows of any kind in one page
  MaxSeq      \* bound: the sequences the server hands out

Rows == Cascades \cup Quizzes
Null == -1

ASSUME PullAssumption ==
  /\ Cascades \subseteq Nat \ {0}
  /\ Quizzes \subseteq Nat \ {0}
  /\ IsFiniteSet(Cascades) /\ IsFiniteSet(Quizzes)
  /\ Cascades \cap Quizzes = {}
  /\ Home \in [Quizzes -> Cascades]
  /\ Creatable \subseteq Cascades
  /\ Studied \subseteq Cascades
  /\ PAGE_ROWS \in Nat \ {0}
  /\ MaxSeq \in Nat

Seqs == 0 .. MaxSeq

VARIABLES
  sync_seq,  \* users.sync_seq
  floor,     \* users.sync_floor_seq
  row,       \* the updated_seq of each row; 0: not made yet; Null: purged
  tomb,      \* the seq of each tombstone; 0: there is none
  base,      \* the device's rows: content, and the response that wrote it
  cursor,    \* its cursor; Null before the first pull
  staging,   \* the content pulled so far; 0: nothing
  pull,      \* the sync under way
  pending,   \* the cascades with operations made since its request was built
  creation,  \* the creations sent, not stored yet: the content answered
  excused    \* history: the rows that a race named below may leave stale

server == <<sync_seq, floor, row, tomb>>
client == <<base, cursor, staging, pull, pending>>
vars   == <<server, client, creation, excused>>

Tree(c)  == {c} \cup {q \in Quizzes : Home[q] = c}
Of(r)    == IF r \in Cascades THEN r ELSE Home[r]
Live     == {r \in Rows : row[r] > 0}
Absent   == [ver |-> 0, seq |-> 0]
Held     == {r \in Rows : base[r] # Absent}
NoRows   == [r \in Rows |-> 0]

\* stage: what the device does with the last answer.  cur and ceil are the page
\* token's.  left: rows this page may still take.  tombs: the tombstones read.
\* sent: cascades whose operations the request carries.  todo: cascades yet to
\* be rebased.  lost: history, the rows a race touched during this pull.
NoPull == [stage |-> "idle", cur |-> Null, ceil |-> 0, table |-> 1, after |-> 0,
           left |-> 0, tombs |-> {}, sent |-> {}, todo |-> {}, lost |-> {}]

Init ==
  /\ sync_seq = 0
  /\ floor = 0
  /\ row = NoRows
  /\ tomb = NoRows
  /\ base = [r \in Rows |-> Absent]
  /\ cursor = Null
  /\ staging = NoRows
  /\ pull = NoPull
  /\ pending = {}
  /\ creation = [c \in Cascades |-> NoRows]
  /\ excused = {}

-----------------------------------------------------------------------------
(* The server.  Everything that takes a sequence holds the user's row lock. *)

NextSeq == sync_seq < MaxSeq /\ sync_seq' = sync_seq + 1

\* Operations on the cascades in C stamp the rows in W, new quizzes included,
\* and purge those in D, a cascade with all it has.
Effects(C) ==
  LET mine == {r \in Rows : Of(r) \in C /\ row[Of(r)] > 0} IN
  {e \in [W : SUBSET {r \in mine : row[r] # Null}, D : SUBSET (mine \cap Live)] :
     /\ e.W \cap e.D = {}
     /\ \A c \in e.D \cap Cascades : Tree(c) \cap Live \subseteq e.D /\ Tree(c) \cap e.W = {}}

Apply(e) ==
  /\ row' = [r \in Rows |-> IF r \in e.D THEN Null
                            ELSE IF r \in e.W THEN sync_seq' ELSE row[r]]
  /\ tomb' = [r \in Rows |-> IF r \in e.D THEN sync_seq' ELSE tomb[r]]

\* A cascade and its Source quiz.
Births == {{c, q} : c \in {x \in Cascades : row[x] = 0},
                    q \in {x \in Quizzes : row[x] = 0}}

NewTree(c) == {B \in Births : c \in B /\ \A q \in B \ {c} : Home[q] = c}

\* A push of another device, or the purge task's purge_trash.
Write ==
  /\ NextSeq
  /\ \E e \in Effects(Cascades) : e.W \cup e.D # {} /\ Apply(e)
  /\ UNCHANGED <<floor, client, creation, excused>>

\* POST /api/cascades from another device.
CreateElsewhere ==
  /\ NextSeq
  /\ \E c \in Cascades : \E B \in NewTree(c) : Apply([W |-> B, D |-> {}])
  /\ UNCHANGED <<floor, client, creation, excused>>

\* prune_sync_records: the tombstones past SYNC_RETENTION_DAYS, the oldest.
\* Race: one that a pull was still to read.
Prune ==
  \E k \in 1 .. MaxSeq :
    LET old == {r \in Rows : tomb[r] \in 1 .. k} IN
    /\ k \in {tomb[r] : r \in Rows}
    /\ tomb' = [r \in Rows |-> IF r \in old THEN 0 ELSE tomb[r]]
    /\ floor' = IF k > floor THEN k ELSE floor
    /\ pull' = IF pull.stage = "reading" /\ pull.cur # Null
               THEN [pull EXCEPT !.lost = @ \cup {r \in old : tomb[r] > pull.cur}]
               ELSE pull
    /\ UNCHANGED <<sync_seq, row, base, cursor, staging, pending, creation, excused>>

-----------------------------------------------------------------------------
(* Creation from this device: POST /api/cascades.                          *)

Create(c) ==
  /\ NextSeq
  /\ \E B \in NewTree(c) :
       /\ Apply([W |-> B, D |-> {}])
       /\ creation' = [creation EXCEPT ![c] = [r \in Rows |-> IF r \in B THEN sync_seq' ELSE 0]]
  /\ UNCHANGED <<floor, client, excused>>

\* The highest sequence the device has pulled or is pulling.
Horizon == IF pull.ceil > cursor THEN pull.ceil ELSE cursor

\* storeCreated: the answer's rows go into the base whatever it holds.  Race:
\* the answer is older than what the device has already pulled.
StoreCreated(c) ==
  LET new == {r \in Rows : creation[c][r] # 0} IN
  /\ new # {}
  /\ base' = [r \in Rows |-> IF r \in new
                             THEN [ver |-> creation[c][r], seq |-> creation[c][r]]
                             ELSE base[r]]
  /\ creation' = [creation EXCEPT ![c] = NoRows]
  /\ excused' = excused \cup
       {r \in new : row[r] # creation[c][r] /\ creation[c][r] <= Horizon}
  /\ UNCHANGED <<server, cursor, staging, pull, pending>>

LoseCreated(c) ==
  /\ creation[c] # NoRows
  /\ creation' = [creation EXCEPT ![c] = NoRows]
  /\ UNCHANGED <<server, client, excused>>

-----------------------------------------------------------------------------
(* The device                                                              *)

\* applyLocally: an operation on a cascade the device holds.
Study(c) ==
  /\ c \in Held
  /\ pending' = pending \cup {c}
  /\ UNCHANGED <<server, base, cursor, staging, pull, creation, excused>>

\* Mutant: no cursor is too old.
NeverBehind(cur) == FALSE

\* Tombstones this cursor has not seen are pruned.
Behind(cur) == cur # Null /\ cur < floor

ClearedStaging == NoRows

Reading(cur) ==
  [NoPull EXCEPT !.stage = "reading", !.cur = cur, !.ceil = sync_seq',
                 !.left = PAGE_ROWS, !.sent = pending]

Refusal(stage) ==
  [NoPull EXCEPT !.stage = stage, !.ceil = sync_seq', !.sent = pending]

\* One request: the push takes a sequence, applies the operations it carries
\* (with no effect where they are rejected or were applied before), reads the
\* floor and answers with the first page, with resync_required, or, below
\* MIN_APP_VERSION, with 426.
Request(cur) ==
  /\ NextSeq
  /\ \E e \in Effects(pending) : Apply(e)
  /\ pending' = {}
  /\ pull' \in {Refusal("upgrade"), IF Behind(cur) THEN Refusal("resync") ELSE Reading(cur)}
  /\ staging' = IF pull'.stage = "reading" THEN ClearedStaging ELSE staging
  /\ UNCHANGED <<floor, base, cursor, creation, excused>>

Sync == pull.stage = "idle" /\ Request(cursor)

\* After a refusal the operations answered are dropped, and what an earlier,
\* interrupted pull staged of their cascades goes into the base.
TakeRefusal ==
  LET left == {r \in Rows : staging[r] # 0 /\ Of(r) \in pull.sent} IN
  /\ pull.stage \in {"resync", "upgrade"}
  /\ base' = [r \in Rows |-> IF r \in left THEN [ver |-> staging[r], seq |-> pull.ceil]
                             ELSE base[r]]
  /\ staging' = [r \in Rows |-> IF r \in left THEN 0 ELSE staging[r]]
  /\ pull' = IF pull.stage = "resync" THEN [NoPull EXCEPT !.stage = "again"] ELSE NoPull
  /\ UNCHANGED <<server, cursor, pending, creation, excused>>

\* Upon resync_required the device asks again from nothing.
Resync == pull.stage = "again" /\ Request(Null)

PastKey(r) == r > pull.after

\* The rows of one table past the cursor, at most the ceiling, from where the
\* last page stopped.
Wanted ==
  LET stamp == IF pull.table = 3 THEN tomb ELSE row IN
  {r \in (CASE pull.table = 1 -> Cascades [] pull.table = 2 -> Quizzes [] OTHER -> Rows) :
     /\ PastKey(r)
     /\ stamp[r] > (IF pull.cur = Null THEN 0 ELSE pull.cur)
     /\ stamp[r] <= pull.ceil}

FirstOf(S, n) == {r \in S : Cardinality({s \in S : s < r}) < n}

Taken == FirstOf(Wanted, pull.left)

\* One query of a page.  A full pull carries no tombstones.
ReadTable ==
  /\ pull.stage = "reading"
  /\ pull.table <= (IF pull.cur = Null THEN 2 ELSE 3)
  /\ pull' = [pull EXCEPT
       !.left  = IF Taken # Wanted THEN PAGE_ROWS ELSE @ - Cardinality(Taken),
       !.table = IF Taken # Wanted THEN @ ELSE @ + 1,
       !.after = IF Taken = Wanted THEN 0 ELSE IF Taken = {} THEN @ ELSE Max(Taken),
       !.tombs = IF pull.table = 3 THEN @ \cup Taken ELSE @]
  /\ staging' = IF pull.table = 3 THEN staging
                ELSE [r \in Rows |-> IF r \in Taken THEN row[r] ELSE staging[r]]
  /\ UNCHANGED <<server, base, cursor, pending, creation, excused>>

Full == pull.cur = Null

Staged == {r \in Rows : staging[r] # 0}

\* Cascades with any row in this pull.
Touched == {Of(r) : r \in Staged \cup pull.tombs}

\* The last page is in: step 1 of the rebase drops what the server answered.
BeginRebase ==
  /\ pull.stage = "reading"
  /\ pull.table > (IF Full THEN 2 ELSE 3)
  /\ pull' = [pull EXCEPT !.stage = "rebasing", !.sent = {},
       !.todo = Touched \cup pull.sent \cup (IF Full THEN Held \cap Cascades ELSE {})]
  /\ UNCHANGED <<server, base, cursor, staging, pending, creation, excused>>

\* Mutant: a full pull deletes whatever it did not carry.
AllStale(r) == base[r] # Absent

\* A response earlier than this pull, or this pull, wrote it.
Stale(r) == base[r] # Absent /\ base[r].seq <= pull.ceil

\* The cascade's transaction.  A tombstone removes rows.  A full pull removes
\* what it did not carry, except from a cascade with pending operations (race:
\* those rows stay, and no tombstone will come for them).  Staged rows go in
\* (race: quizzes without their cascade, which was stamped again before the
\* pull read it).
\* The operations of a cascade that is gone fail their replay.
RebaseCascade(c) ==
  LET spare   == c \in pending
      dropAll == \/ c \in pull.tombs
                 \/ Full /\ c \notin Touched /\ ~spare /\ Stale(c)
      carried == Tree(c) \cap Staged
      left    == {r \in Tree(c) \ carried : Stale(r)}
      gone    == IF dropAll THEN Tree(c)
                 ELSE (Tree(c) \cap pull.tombs)
                        \cup (IF Full /\ c \in Touched /\ ~spare THEN left \cap Quizzes ELSE {})
  IN
  /\ pull.stage = "rebasing"
  /\ c \in pull.todo
  /\ base' = [r \in Rows |->
       IF r \in gone THEN Absent
       ELSE IF r \in carried THEN [ver |-> staging[r], seq |-> pull.ceil]
       ELSE base[r]]
  /\ staging' = [r \in Rows |-> IF r \in Tree(c) THEN 0 ELSE staging[r]]
  /\ pending' = IF base'[c] = Absent THEN pending \ {c} ELSE pending
  /\ pull' = [pull EXCEPT !.todo = @ \ {c},
                          !.lost = IF Full /\ spare THEN @ \cup left ELSE @]
  /\ excused' = IF base'[c] = Absent THEN excused \cup carried ELSE excused
  /\ UNCHANGED <<server, cursor, creation>>

\* Mutant: the cursor is the server's sequence by the end.
LatestSeq == sync_seq

PulledSeq == pull.ceil

EndRebase ==
  /\ pull.stage = "rebasing"
  /\ pull.todo = {}
  /\ cursor' = PulledSeq
  /\ excused' = excused \cup pull.lost
  /\ pull' = NoPull
  /\ UNCHANGED <<server, base, staging, pending, creation>>

\* A page fails or the app closes.  Until the rebase begins the operations are
\* still in the outbox.
Interrupt ==
  /\ pull.stage # "idle"
  /\ pending' = pending \cup pull.sent
  /\ pull' = NoPull
  /\ UNCHANGED <<server, base, cursor, staging, creation, excused>>

-----------------------------------------------------------------------------
Next ==
  \/ Write \/ CreateElsewhere \/ Prune
  \/ \E c \in Creatable : Create(c) \/ StoreCreated(c) \/ LoseCreated(c)
  \/ \E c \in Studied : Study(c)
  \/ Sync \/ TakeRefusal \/ Resync \/ ReadTable \/ BeginRebase \/ EndRebase \/ Interrupt
  \/ \E c \in Cascades : RebaseCascade(c)

Spec == Init /\ [][Next]_vars

-----------------------------------------------------------------------------
(* Properties                                                              *)

Stages == {"idle", "reading", "resync", "upgrade", "again", "rebasing"}

Pulls == [stage : Stages, cur : Seqs \cup {Null}, ceil : Seqs, table : 1 .. 4,
          after : Rows \cup {0}, left : 0 .. PAGE_ROWS, tombs : SUBSET Rows,
          sent : SUBSET Cascades, todo : SUBSET Cascades, lost : SUBSET Rows]

\* The shape of the state; a page never takes more than PAGE_ROWS rows.
TypeOK ==
  /\ sync_seq \in Seqs
  /\ floor \in 0 .. sync_seq
  /\ row \in [Rows -> Seqs \cup {Null}]
  /\ tomb \in [Rows -> Seqs]
  /\ base \in [Rows -> [ver : Seqs, seq : Seqs]]
  /\ cursor \in {Null} \cup 0 .. sync_seq
  /\ staging \in [Rows -> Seqs]
  /\ pull \in Pulls
  /\ pending \subseteq Cascades
  /\ creation \in [Cascades -> [Rows -> Seqs]]
  /\ excused \subseteq Rows

\* What the cursor has passed is on the device as the server has it, whatever
\* was written, purged or interrupted meanwhile.
NothingMissed ==
  \A r \in (Live \ excused) : row[r] <= cursor => base[r].ver = row[r]

\* A row the server has deleted is on the device only until the next pull: its
\* tombstone is still to come, or the cursor is below the floor.
NoZombies ==
  \A r \in (Held \ excused) :
    row[r] = Null => tomb[r] > cursor \/ Behind(cursor)

\* A row the device holds just as the server has it is never dropped: not by a
\* full pull that was under way when the cascade was created.
HeldRowsStay ==
  [][\A r \in (Held \cap Live) : base[r].ver = row[r] => base'[r] # Absent]_vars

=============================================================================
