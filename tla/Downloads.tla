------------------------------ MODULE Downloads ------------------------------
(***************************************************************************)
(* How one device comes to hold a quiz's question rows and gives them up   *)
(* again: the download manager (frontend/src/lib/sync/downloads.ts,        *)
(* policy.ts), beside the sync cycles that pull and settle the same quiz   *)
(* (engine.ts, pull.ts, rebase.ts), and the grades endpoint they read      *)
(* (backend/src/sync/routes.rs).                                           *)
(*                                                                         *)
(* The cycle never awaits the manager, another tab may run one of its own, *)
(* and an await lies between any two steps here.  A question row is a      *)
(* grade and the attempt whose seed gave it its position.                  *)
(*                                                                         *)
(* Left to other modules: this device's operations (Conflicts), purges and *)
(* the cascade's other rows (SyncPull).  Left out: cleared quizzes, keys,  *)
(* answers, their eviction and the bytes they are counted by.              *)
(***************************************************************************)
EXTENDS Integers, FiniteSets, Functions

CONSTANTS
  Questions,    \* the quiz's indexes, 0 .. question_count - 1
  INDEX_PAGE,   \* indexes in one page of the grades endpoint
  Starts,       \* how a quiz may begin: its origin, and what is graded already
  Last,         \* the question at the last position, by attempt
  Managers,     \* the tabs' download managers: another tab has one for a first open
  Leader,       \* that of the leading tab, which also runs the passes
  MaxEvents     \* bound: other devices' operations, failed requests and
                \* times the app is closed, together

Attempts == DOMAIN Last
Grades   == {"correct", "missed"}
Ungraded == "none"
Null     == -1   \* the cursor of a full pull; a quiz that is not held

ASSUME DownloadsAssumption ==
  /\ IsFiniteSet(Questions) /\ Questions # {}
  /\ Questions = 0 .. Cardinality(Questions) - 1
  /\ INDEX_PAGE \in Nat \ {0}
  /\ IsFiniteSet(Attempts) /\ Attempts # {}
  /\ Attempts = 1 .. Cardinality(Attempts)
  /\ Last \in [Attempts -> Questions]
  /\ Starts \subseteq [source : BOOLEAN, graded : SUBSET Questions]
  /\ MaxEvents \in Nat
  /\ Leader \in Managers

VARIABLES
  attempt,    \* the server's quiz row: its attempt
  grade,      \* the server's question rows: the grade of each
  stamp,      \* their updated_seq
  quizStamp,  \* the quiz row's updated_seq
  sync_seq,   \* users.sync_seq
  floor,      \* users.sync_floor_seq
  source,     \* whether it is a Source quiz, whose index list is implied
  quiz,       \* the device's base row; attempt Null: it holds none
  rows,       \* its base question rows, a function on the indexes held
  cursor,     \* its cursor
  wanted,     \* opened in the window and not budget-dropped, or kept offline
  pull,       \* the sync under way
  dl,         \* each manager's materialisation
  faults,     \* bound counter
  excused     \* history: rows laid across a sync or a drop, kept from an earlier
              \* attempt, or left by an interrupted rebase

server == <<attempt, grade, stamp, quizStamp, sync_seq, floor, source>>
base   == <<quiz, rows>>
vars   == <<server, base, cursor, wanted, pull, dl, faults, excused>>

NoRows == [q \in {} |-> [grade |-> Ungraded, order |-> 0]]
NoQuiz == [attempt |-> Null, graded |-> 0, pending |-> FALSE]
Held   == DOMAIN rows
Graded(g) == {q \in DOMAIN g : g[q] # Ungraded}
NoGrades == [q \in {} |-> Ungraded]
GradesOf(r) == [q \in DOMAIN r |-> r[q].grade]

\* A row of this quiz without a position, or with that of attempt a.
Row(g, a) == [grade |-> g, order |-> a]

\* The values of f laid on those of g.
Over(f, g) ==
  [q \in DOMAIN f \cup DOMAIN g |-> IF q \in DOMAIN f THEN f[q] ELSE g[q]]

\* stage: what the cycle does next.  quiz, grades: what its pages brought.
\* fresh: the rows last written by this pull (their seq is its sequence).
NoPull == [stage |-> "idle", cur |-> Null, seq |-> 0, qrf |-> FALSE,
           quiz |-> NoQuiz, grades |-> NoGrades, fresh |-> {}]

\* seen: the quiz row the materialisation goes by.  grades: whether it fetches
\* them, got: those so far.  from: the page.  label: the attempt its answer names.
\* crossed: history, a sync or a drop came between.
NoFetch == [stage |-> "idle", seen |-> NoQuiz, grades |-> FALSE, tries |-> 0,
            from |-> 0, label |-> 0, got |-> NoGrades, crossed |-> FALSE]

Crossed == [m \in Managers |-> IF dl[m].stage \in {"idle", "sync"} THEN dl[m]
                               ELSE [dl[m] EXCEPT !.crossed = TRUE]]

\* complete: the row at the last position witnesses the set.
Witness == \E q \in Held : rows[q].order # 0 /\ Last[rows[q].order] = q
Complete == ~quiz.pending /\ Witness

\* A device that has pulled the quiz, played elsewhere or not, and not opened it.
Init ==
  /\ attempt = 1
  /\ \E s \in Starts :
       /\ source = s.source
       /\ grade = [q \in Questions |-> IF q \in s.graded THEN "correct" ELSE Ungraded]
       /\ quiz = [attempt |-> 1, graded |-> Cardinality(s.graded),
                  pending |-> s.graded # {}]
  /\ stamp = [q \in Questions |-> 0]
  /\ quizStamp = 0
  /\ sync_seq = 0
  /\ floor = 0
  /\ rows = NoRows
  /\ cursor = 0
  /\ wanted = FALSE
  /\ pull = NoPull
  /\ dl = [m \in Managers |-> NoFetch]
  /\ faults = 0
  /\ excused = FALSE

-----------------------------------------------------------------------------
(* The server, moved on by other devices' operations. *)

Eventful == sync_seq + faults < MaxEvents

Stamped ==
  /\ Eventful
  /\ sync_seq' = sync_seq + 1
  /\ quizStamp' = sync_seq'

device == <<base, cursor, wanted, pull, dl, faults, excused>>

\* grade and a regrade: the row and the quiz row's counters.
GradeElsewhere ==
  /\ Stamped
  /\ \E q \in Questions, g \in Grades :
       /\ grade' = [grade EXCEPT ![q] = g]
       /\ stamp' = [stamp EXCEPT ![q] = sync_seq']
  /\ UNCHANGED <<attempt, floor, source, device>>

\* reset_quiz: a new attempt in place.  Only the quiz row is stamped.
ResetElsewhere ==
  /\ Stamped
  /\ attempt + 1 \in Attempts
  /\ attempt' = attempt + 1
  /\ grade' = [q \in Questions |-> Ungraded]
  /\ UNCHANGED <<stamp, floor, source, device>>

\* prune_sync_records: devices below the new floor must resync.
RaiseFloor ==
  /\ floor < sync_seq
  /\ floor' = sync_seq
  /\ UNCHANGED <<attempt, grade, stamp, quizStamp, sync_seq, source, device>>

-----------------------------------------------------------------------------
(* Opening the cascade, or Keep offline; and the window that passes. *)

Open ==
  /\ ~wanted
  /\ wanted' = TRUE
  /\ UNCHANGED <<server, base, cursor, pull, dl, faults, excused>>

\* DOWNLOAD_WINDOW_DAYS pass, or Keep offline is turned off.
Lapse ==
  /\ wanted
  /\ wanted' = FALSE
  /\ UNCHANGED <<server, base, cursor, pull, dl, faults, excused>>

-----------------------------------------------------------------------------
(* A sync cycle of the leading tab.  A push without operations takes a      *)
(* sequence that stamps no row, so the last one taken stands for it.        *)

\* The request, and the server's push: question_rows_for and the cursor are
\* read before it.  A cursor below the floor is answered resync_required, and
\* a full pull follows at once.
Send ==
  /\ pull.stage = "idle"
  /\ pull' = [NoPull EXCEPT !.stage = "quizzes",
                            !.cur = IF cursor < floor THEN Null ELSE cursor,
                            !.seq = sync_seq,
                            !.qrf = wanted \/ Held # {}]
  /\ dl' = Crossed
  /\ UNCHANGED <<server, base, cursor, wanted, faults, excused>>

InRange(s) == s > pull.cur /\ s <= pull.seq

\* The page's queries, each a statement of its own.
ReadQuizzes ==
  /\ pull.stage = "quizzes"
  /\ pull' = [pull EXCEPT
       !.stage = "grades",
       !.quiz = IF InRange(quizStamp)
                THEN [attempt |-> attempt, graded |-> Cardinality(Graded(grade)),
                      pending |-> FALSE]
                ELSE NoQuiz]
  /\ UNCHANGED <<server, base, cursor, wanted, dl, faults, excused>>

ReadGrades ==
  /\ pull.stage = "grades"
  /\ LET G == {q \in Graded(grade) : pull.qrf /\ InRange(stamp[q])}
     IN pull' = [pull EXCEPT !.stage = "write", !.grades = [q \in G |-> grade[q]]]
  /\ UNCHANGED <<server, base, cursor, wanted, dl, faults, excused>>

\* writePage: grades go nowhere for a pending quiz and for one that neither the
\* device nor the page knows, to the base when the order cannot change under
\* them, and else wait in staging.
WritePage ==
  /\ pull.stage = "write"
  /\ LET G == DOMAIN pull.grades
         Order(q) == IF q \in Held THEN rows[q].order ELSE 0
         direct == \/ quiz = NoQuiz
                   \/ pull.quiz = NoQuiz \/ pull.quiz.attempt = quiz.attempt
     IN IF quiz.pending \/ (quiz = NoQuiz /\ pull.quiz = NoQuiz)
        THEN /\ pull' = [pull EXCEPT !.stage = "rebase", !.grades = NoGrades]
             /\ UNCHANGED rows
        ELSE IF direct
        THEN /\ rows' = Over([q \in G |-> Row(pull.grades[q], Order(q))], rows)
             /\ pull' = [pull EXCEPT !.stage = "rebase", !.grades = NoGrades, !.fresh = G]
        ELSE /\ pull' = [pull EXCEPT !.stage = "rebase"]
             /\ UNCHANGED rows
  /\ UNCHANGED <<server, quiz, cursor, wanted, dl, faults, excused>>

\* Mutant: a new attempt keeps the rows of the last one.
NeverReset(p) == FALSE

SeedChanged(p) == quiz # NoQuiz /\ quiz.attempt # p.attempt

\* settleQuiz, for the pulled row p: the quiz row, the rows and the rows it wrote.
Settled(p) ==
  LET implied == source /\ (pull.qrf \/ Held # {})
      known == implied \/ Held = Questions
      bare == [q \in Questions |-> Row(Ungraded, 0)]
      kept == IF SeedChanged(p) THEN IF known THEN bare ELSE NoRows
              ELSE IF known THEN Over(rows, bare) ELSE rows
      laid == Over([q \in DOMAIN pull.grades |-> Row(pull.grades[q], 0)], kept)
      whole == DOMAIN laid = Questions
      final == IF whole THEN [q \in Questions |-> Row(laid[q].grade, p.attempt)] ELSE laid
  IN IF quiz.pending
     THEN [quiz |-> [p EXCEPT !.pending = TRUE], rows |-> rows, fresh |-> pull.fresh]
     ELSE IF quiz # NoQuiz /\ ~SeedChanged(p) /\ DOMAIN pull.grades = {} /\ Witness
     THEN [quiz |-> p, rows |-> rows, fresh |-> pull.fresh]
     ELSE [quiz |-> [p EXCEPT !.pending =
                       Cardinality(Graded(GradesOf(final))) < p.graded],
           rows |-> final,
           fresh |-> pull.fresh \cup (IF whole THEN Questions ELSE DOMAIN pull.grades)]

\* rebaseCascade: the pulled quiz is settled.  A full pull removes what it did
\* not bring: the quiz, or single graded rows, and then the quiz is pending.
\* Rows without a quiz go only with their cascade.
Rebase ==
  /\ pull.stage = "rebase"
  /\ LET full == pull.cur = Null
         r == Settled(pull.quiz)
         gone == IF full /\ pull.qrf THEN Graded(GradesOf(r.rows)) \ r.fresh ELSE {}
     IN IF pull.quiz # NoQuiz
        THEN /\ quiz' = [r.quiz EXCEPT !.pending = @ \/ gone # {}]
             /\ rows' = Restrict(r.rows, DOMAIN r.rows \ gone)
             /\ excused' = IF SeedChanged(pull.quiz)
                           THEN quiz.pending /\ Graded(GradesOf(rows)) # {}
                           ELSE excused
        ELSE IF full
        THEN /\ quiz' = NoQuiz
             /\ rows' \in {NoRows} \cup (IF quiz = NoQuiz THEN {rows} ELSE {})
             /\ excused' = (excused /\ rows' = rows)
        ELSE UNCHANGED <<base, excused>>
  /\ pull' = [pull EXCEPT !.stage = "advance"]
  /\ UNCHANGED <<server, cursor, wanted, dl, faults>>

\* The cursor, once every cascade's transaction has committed.
Advance ==
  /\ pull.stage = "advance"
  /\ cursor' = pull.seq
  /\ pull' = NoPull
  /\ UNCHANGED <<server, base, wanted, dl, faults, excused>>

Fault == Eventful /\ faults' = faults + 1

\* A request of the cycle fails: it ends without its pages.
SyncFails ==
  /\ Fault
  /\ pull.stage \in {"quizzes", "grades"}
  /\ pull' = NoPull
  /\ UNCHANGED <<server, base, cursor, wanted, dl, excused>>

-----------------------------------------------------------------------------
(* materialiseQuiz, by the leader's pass after a pull or by a first open.   *)

To(m, d) == dl' = [dl EXCEPT ![m] = d]

\* questionRows: a quiz that is not complete.  Then the index list, which never
\* changes; grades are fetched when the row as read here has any.
Start(m) ==
  /\ dl[m].stage = "idle"
  /\ wanted
  /\ quiz # NoQuiz /\ ~Complete
  /\ LET fetch == quiz.pending /\ quiz.graded > 0
     IN To(m, [NoFetch EXCEPT !.seen = quiz, !.grades = fetch,
                              !.stage = IF fetch THEN "sync" ELSE "lay",
                              !.crossed = ~fetch /\ pull.stage # "idle"])
  /\ UNCHANGED <<server, base, cursor, wanted, pull, faults, excused>>

\* opts.sync has resolved: in the leading tab when its cycles have ended, done
\* or failed, in another at once.  The row is read again.
Reread(m) ==
  /\ dl[m].stage = "sync"
  /\ m = Leader => pull.stage = "idle"
  /\ To(m, [dl[m] EXCEPT !.stage = "label", !.tries = @ + 1,
                         !.seen = IF quiz = NoQuiz THEN @ ELSE quiz,
                         !.crossed = pull.stage # "idle"])
  /\ UNCHANGED <<server, base, cursor, wanted, pull, faults, excused>>

\* The grades endpoint's first statement: the attempt its answer names.
Label(m) ==
  /\ dl[m].stage = "label"
  /\ To(m, [dl[m] EXCEPT !.stage = "page", !.label = attempt])
  /\ UNCHANGED <<server, base, cursor, wanted, pull, faults, excused>>

\* Mutant: the last page is not asked for.
StopsEarly(end) == end < Cardinality(Questions) - 1

MorePages(end) == end < Cardinality(Questions)

\* Its second, and the answer taken: a page of another attempt is discarded
\* with those before it, and the last one is held against the counters.
Page(m) ==
  /\ dl[m].stage = "page"
  /\ LET d == dl[m]
         end == d.from + INDEX_PAGE
         G == {q \in Graded(grade) : d.from <= q /\ q < end}
         got == Over([q \in G |-> grade[q]], d.got)
         again == IF d.tries < 2 THEN [NoFetch EXCEPT !.stage = "sync", !.seen = d.seen,
                                                      !.grades = TRUE, !.tries = d.tries]
                  ELSE NoFetch
     IN To(m, IF d.label # d.seen.attempt THEN again
              ELSE IF MorePages(end)
              THEN [d EXCEPT !.stage = "label", !.from = end, !.label = 0, !.got = got]
              ELSE IF Cardinality(DOMAIN got) = d.seen.graded
              THEN [d EXCEPT !.stage = "lay", !.from = 0, !.label = 0, !.got = got]
              ELSE again)
  /\ UNCHANGED <<server, base, cursor, wanted, pull, faults, excused>>

\* The quiz row has missed a grade that the cursor has passed (SyncPull: it was
\* stamped again between the push and the page, and comes with the next pull).
Behind ==
  /\ quiz.attempt = attempt
  /\ Cardinality({q \in Graded(grade) : stamp[q] <= cursor}) > quiz.graded

\* The transaction: rows, grades and positions, for the attempt they are of.
Lay(m) ==
  /\ dl[m].stage = "lay"
  /\ LET d == dl[m]
         GradeOf(q) == IF d.grades THEN IF q \in DOMAIN d.got THEN d.got[q] ELSE Ungraded
                       ELSE IF q \in Held THEN rows[q].grade ELSE Ungraded
     IN IF quiz.attempt = d.seen.attempt
        THEN /\ rows' = [q \in Questions |-> Row(GradeOf(q), quiz.attempt)]
             /\ quiz' = [quiz EXCEPT !.pending = FALSE]
             /\ excused' = \/ d.crossed
                           \/ ~d.grades /\ (excused \/ Behind)
             /\ pull' = [pull EXCEPT !.fresh =
                            @ \ (IF d.grades THEN DOMAIN d.got ELSE {})]
        ELSE UNCHANGED <<base, excused, pull>>
  /\ To(m, NoFetch)
  /\ UNCHANGED <<server, cursor, wanted, faults>>

\* A page request fails.
FetchFails(m) ==
  /\ Fault
  /\ dl[m].stage \in {"label", "page"}
  /\ To(m, NoFetch)
  /\ UNCHANGED <<server, base, cursor, wanted, pull, excused>>

-----------------------------------------------------------------------------
(* The drop pass.  The policy, the outbox and the open players are read     *)
(* before it drops anything, so it may drop what is wanted again by then.   *)

\* Mutant: a dropped quiz is only short of its index list.
ListOnly(z) == FALSE

AwaitsGrades(z) == z.graded > 0

\* dropCascade: a played quiz waits for its graded rows.  What is dropped for
\* the budget is outside the window until it is opened again.
Drop ==
  /\ Held # {}
  /\ rows' = NoRows
  /\ quiz' = [quiz EXCEPT !.pending = AwaitsGrades(quiz)]
  /\ wanted' \in {wanted, FALSE}
  /\ dl' = Crossed
  /\ excused' = FALSE
  /\ UNCHANGED <<server, cursor, pull, faults>>

\* The app is closed; what it had not committed is gone.  Rows that a page wrote
\* for a quiz new to the device are left without it.
Close ==
  /\ Fault
  /\ pull' = NoPull
  /\ dl' = [m \in Managers |-> NoFetch]
  /\ excused' = (excused \/ (quiz = NoQuiz /\ Held # {}))
  /\ UNCHANGED <<server, base, cursor, wanted>>

Elsewhere == GradeElsewhere \/ ResetElsewhere \/ RaiseFloor
Cycle     == ReadQuizzes \/ ReadGrades \/ WritePage \/ Rebase \/ Advance
Materialise(m) == Start(m) \/ Label(m) \/ Page(m) \/ Lay(m)

Next ==
  \/ Elsewhere
  \/ Open \/ Lapse
  \/ Send \/ Cycle \/ SyncFails
  \/ \E m \in Managers : Materialise(m) \/ Reread(m) \/ FetchFails(m)
  \/ Drop \/ Close

Spec == Init /\ [][Next]_vars

\* The triggers come every 30 seconds and requests end.  A pass follows every
\* cycle; a fetch that waits for a sync goes on as soon as that one ends, before
\* the timer starts the next.
FairSpec ==
  /\ Spec
  /\ WF_vars(Send) /\ WF_vars(Cycle)
  /\ WF_vars(Materialise(Leader)) /\ SF_vars(Reread(Leader))

-----------------------------------------------------------------------------
Ready == quiz # NoQuiz /\ Complete

\* What the server keeps of question q and the cursor has passed is held as it is.
Current(q) ==
  \/ grade[q] # Ungraded /\ stamp[q] > cursor
  \/ q \in Held /\ rows[q].grade = grade[q]

\* A quiz that counts as ready to play has every row, each at its position in
\* the present attempt: one key lookup at the last position stands for all of
\* them, whatever resets, drops and full pulls took rows away (downloads.ts
\* complete, rebase.ts settleQuiz and the removals of a full pull).
WitnessIsHonest ==
  Ready => Held = Questions /\ \A q \in Questions : rows[q].order = quiz.attempt

\* A ready quiz shows, of the server's present attempt, every grade its cursor
\* has passed, although the pages of a pull bring nothing to a pending quiz and
\* the endpoint reads the quiz row and the graded rows in two statements.  It
\* says so of every set of rows but those laid across a sync or a drop
\* (PendingIsClearedWhole) or from a quiz row that had itself missed a grade, and
\* those kept from an earlier attempt by a pending quiz (rebase.ts:455) or left by
\* an interrupted rebase.
ReadyIsCurrent ==
  Ready /\ quiz.attempt = attempt /\ ~excused => \A q \in Questions : Current(q)

\* A quiz's pending mark is cleared only with as many graded rows as the quiz
\* row counts (PLAN.md:2141, "cleared only by that full sequence"; downloads.ts
\* materialiseQuiz, "only when the grades fetched number `correct_count +
\* missed_count`").
PendingIsClearedWhole ==
  [][quiz.pending /\ ~quiz'.pending =>
       Cardinality(Graded(GradesOf(rows'))) >= quiz'.graded]_vars

\* A cascade that stays wanted is ready again and again, whatever was reset,
\* dropped, resynced or failed before: no mark and no mismatch leaves a quiz
\* pending for good (downloads.ts pass, materialiseQuiz).
GetsReady == <>[]wanted => []<>Ready
=============================================================================
