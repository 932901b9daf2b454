------------------------------- MODULE Cascade -------------------------------
(***************************************************************************)
(* One cascade on the server: a stack of quizzes over one question set,    *)
(* its Trash, and one action per sync operation that changes it            *)
(* (backend/src/sync/ops.rs, whose checks and order of checks              *)
(* backend/src/cascade/sim.rs repeats in memory).                          *)
(*                                                                         *)
(* Each action is a whole handler that answers "applied".  The server runs *)
(* them one at a time, under the user's row lock and inside a savepoint,   *)
(* so a handler that rejects leaves the state as it was: every rejection   *)
(* is a stuttering step here, the one for a stale change included          *)
(* (which device's change wins is the business of another module).         *)
(* Operations arrive from several devices that have seen different states, *)
(* so their arguments are any values at all, not those a screen shows.     *)
(***************************************************************************)
EXTENDS CascadeRules

CONSTANTS
  MaxAttempt,      \* bound: no quiz is finished from this attempt on
  CursorRequests,  \* the positions a move_cursor may carry
  OptionRequests   \* the sets of fields an options change may carry

Fields == {"segment_size", "progression"}

ASSUME BoundAssumption ==
  /\ MaxAttempt \in Nat
  /\ CursorRequests \subseteq Nat
  /\ OptionRequests \subseteq SUBSET Fields

VARIABLES
  cascade,   \* the cascades row
  quizzes,   \* the quizzes rows with their quiz_questions rows, by id
  attempts,  \* the quiz_attempts rows
  runs       \* history: per quiz, the runs finished in its current attempt

vars == <<cascade, quizzes, attempts, runs>>

Attempt == [quiz : QuizIds, attempt : Nat, correct : Int, missed : Int,
            outcome : {"cleared", "replaced", "descended", "completed",
                       "reshuffled"}]

\* A row that is not there: its id was never used, or is in a tombstone.
NoRow(status) ==
  [NewQuiz(0, "source", NoQuiz, 0, FALSE,
           [segment_size |-> 0, progression |-> "ladder"], {},
           CHOOSE s \in Seeds : TRUE, 0)
     EXCEPT !.status = status, !.attempt = 0]

-----------------------------------------------------------------------------
(* Creation: POST /api/cascades inserts the cascade and its Source quiz.   *)

Init ==
  \E o \in Opts, t \in ClearThresholds, s \in Seeds :
    /\ cascade = [status |-> "open", opts |-> o, clear_threshold |-> t,
                  depth |-> 1, peak_depth |-> 1, attempts_since_completion |-> 0]
    /\ quizzes = [id \in QuizIds |->
                    IF id = Source
                    THEN NewQuiz(1, "source", NoQuiz, 0, FALSE, o, Questions, s, 0)
                    ELSE NoRow("absent")]
    /\ attempts = {}
    /\ runs = [q \in QuizIds |-> {}]

-----------------------------------------------------------------------------
(* Playing                                                                 *)

\* Mutant: a regrade counts as one more grade.
RegradedTwice(r, i, g) ==
  [r EXCEPT !.grades[i] = g,
            !.correct = @ + (IF g = "correct" THEN 1 ELSE 0),
            !.missed = @ + (IF g = "missed" THEN 1 ELSE 0)]

\* The row's counters move by the difference the grade makes.
Regraded(r, i, g) ==
  LET d(h) == (IF g = h THEN 1 ELSE 0) - (IF r.grades[i] = h THEN 1 ELSE 0)
  IN [r EXCEPT !.grades[i] = g,
               !.correct = @ + d("correct"),
               !.missed = @ + d("missed")]

Grade(q, a, s, i, g) ==
  LET r == quizzes[q] IN
  /\ Live(cascade, r)
  /\ CurrentAttempt(r, a, s)
  /\ i \in r.questions
  /\ quizzes' = [quizzes EXCEPT ![q] = Regraded(r, i, g)]
  /\ UNCHANGED <<cascade, attempts, runs>>

MoveCursor(q, a, s, p) ==
  LET r == quizzes[q] IN
  /\ Live(cascade, r)
  /\ CurrentAttempt(r, a, s)
  /\ CursorInRun(r, p)
  /\ quizzes' = [quizzes EXCEPT ![q].cursor = p]
  /\ UNCHANGED <<cascade, attempts, runs>>

\* An id is free when no row and no tombstone has it.
IdFree(id) == quizzes[id].status = "absent"

WithinBound(q) == quizzes[q].attempt < MaxAttempt

RecordAttempt(q, outcome) ==
  attempts' = attempts \cup
    {[quiz |-> q, attempt |-> quizzes[q].attempt, correct |-> quizzes[q].correct,
      missed |-> quizzes[q].missed, outcome |-> outcome]}

FinishChecks(q, a, s, new) ==
  LET r == quizzes[q] IN
  /\ Live(cascade, r)
  /\ CurrentAttempt(r, a, s)
  /\ Deepest(cascade, r)
  /\ r.correct + r.missed = Count(r)
  /\ IdFree(new)
  /\ WithinBound(q)

\* The Source quiz without a miss.
Complete(q, seed) ==
  LET r == quizzes[q] IN
  /\ Completes(r)
  /\ cascade' = AfterCompletion(cascade)
  /\ quizzes' = [quizzes EXCEPT ![q] = Reset(r, ResetSeed[seed])]
  /\ runs' = [runs EXCEPT ![q] = {}]
  /\ RecordAttempt(q, "completed")

\* Nothing correct.
Reshuffle(q, seed) ==
  LET r == quizzes[q] IN
  /\ Reshuffles(r)
  /\ cascade' = CountAttempt(cascade)
  /\ quizzes' = [quizzes EXCEPT ![q] = Reset(r, ResetSeed[seed])]
  /\ runs' = [runs EXCEPT ![q] = {}]
  /\ RecordAttempt(q, "reshuffled")

\* The quiz starts over and its misses go one level down.
Descend(q, seed, new) ==
  LET r == quizzes[q] IN
  /\ Descends(cascade, r)
  /\ cascade' = PushDepth(CountAttempt(cascade))
  /\ quizzes' = [quizzes EXCEPT ![q] = Reset(r, ResetSeed[seed]),
                                ![new] = Descent(cascade, r, q, seed)]
  /\ runs' = [runs EXCEPT ![q] = {}]
  /\ RecordAttempt(q, "descended")

\* Mutant: a quiz that passed leaves nothing behind.
PutAwayAll(q, seed, new) ==
  LET r == quizzes[q]
      away == [r EXCEPT !.status = "cleared"]
  IN
  /\ PutsAway(cascade, r)
  /\ \/ /\ Passed(cascade, r)
        /\ cascade' = [CountAttempt(cascade) EXCEPT !.depth = @ - 1]
        /\ quizzes' = [quizzes EXCEPT ![q] = away]
     \/ /\ ~Passed(cascade, r)
        /\ cascade' = CountAttempt(cascade)
        /\ quizzes' = [quizzes EXCEPT ![q] = away,
                                      ![new] = Replacement(cascade, r, q, seed)]
  /\ runs' = runs
  /\ RecordAttempt(q, IF Passed(cascade, r) THEN "cleared" ELSE "replaced")

\* The quiz goes to the Trash; its misses, if any, take its place.
PutAway(q, seed, new) ==
  LET r == quizzes[q]
      away == [r EXCEPT !.status = "cleared"]
  IN
  /\ PutsAway(cascade, r)
  /\ \/ /\ Misses(r) = {}
        /\ cascade' = [CountAttempt(cascade) EXCEPT !.depth = @ - 1]
        /\ quizzes' = [quizzes EXCEPT ![q] = away]
     \/ /\ Misses(r) # {}
        /\ cascade' = CountAttempt(cascade)
        /\ quizzes' = [quizzes EXCEPT ![q] = away,
                                      ![new] = Replacement(cascade, r, q, seed)]
  /\ runs' = runs
  /\ RecordAttempt(q, IF Passed(cascade, r) THEN "cleared" ELSE "replaced")

Finish(q, a, s, seed, new) ==
  /\ FinishChecks(q, a, s, new)
  /\ \/ Complete(q, seed)
     \/ Reshuffle(q, seed)
     \/ Descend(q, seed, new)
     \/ PutAway(q, seed, new)

\* A run that was drilled in this attempt is refused by its drill, if that is
\* still a row, and by the cursor in any case.
DuplicateSegment(q, e) ==
  \E d \in QuizIds :
    /\ quizzes[d].origin = "segment"
    /\ quizzes[d].parent = q
    /\ quizzes[d].origin_attempt = quizzes[q].attempt
    /\ quizzes[d].origin_segment_end = e

SegmentChecks(q, a, s, e, new) ==
  LET r == quizzes[q] IN
  /\ Live(cascade, r)
  /\ CurrentAttempt(r, a, s)
  /\ SegmentEnd(r, e)
  /\ ~DuplicateSegment(q, e)
  /\ Deepest(cascade, r)
  /\ PastCursor(r, e)
  /\ \A i \in At(r, 0 .. e - 1) : r.grades[i] # Ungraded
  /\ IdFree(new)

FinishSegment(q, a, s, e, seed, new) ==
  LET r == quizzes[q]
      moved == [r EXCEPT !.cursor = e, !.run_start = e]
  IN
  /\ SegmentChecks(q, a, s, e, new)
  /\ \/ /\ RunMisses(r, e) = {}
        /\ quizzes' = [quizzes EXCEPT ![q] = moved]
        /\ cascade' = cascade
     \/ /\ RunMisses(r, e) # {}
        /\ quizzes' = [quizzes EXCEPT ![q] = moved,
                                      ![new] = Drill(cascade, r, q, e, seed)]
        /\ cascade' = PushDepth(cascade)
  /\ runs' = [runs EXCEPT ![q] = @ \cup {<<r.run_start, e>>}]
  /\ UNCHANGED attempts

-----------------------------------------------------------------------------
(* The Trash                                                               *)

\* Mutant: the cascade stays in the Trash.
RestoreQuizAlone(q, seed) ==
  LET r == quizzes[q] IN
  /\ cascade.status # "purged"
  /\ r.status = "cleared"
  /\ WithinBound(q)
  /\ cascade' = PushDepth(cascade)
  /\ quizzes' = [quizzes EXCEPT ![q] = Restored(cascade, r, seed)]
  /\ runs' = [runs EXCEPT ![q] = {}]
  /\ UNCHANGED attempts

RestoreQuiz(q, seed) ==
  LET r == quizzes[q] IN
  /\ cascade.status # "purged"
  /\ r.status = "cleared"
  /\ WithinBound(q)
  /\ cascade' = [PushDepth(cascade) EXCEPT !.status = "open"]
  /\ quizzes' = [quizzes EXCEPT ![q] = Restored(cascade, r, seed)]
  /\ runs' = [runs EXCEPT ![q] = {}]
  /\ UNCHANGED attempts

TrashCascade ==
  /\ cascade.status = "open"
  /\ cascade' = [cascade EXCEPT !.status = "trashed"]
  /\ UNCHANGED <<quizzes, attempts, runs>>

RestoreCascade ==
  /\ cascade.status = "trashed"
  /\ cascade' = [cascade EXCEPT !.status = "open"]
  /\ UNCHANGED <<quizzes, attempts, runs>>

\* The row goes, its attempts with it, and a quiz that came out of it forgets
\* where it came from (ON DELETE SET NULL).  The hourly purge task deletes the
\* same rows under the same two conditions.
PurgeQuiz(q) ==
  /\ cascade.status = "open"
  /\ quizzes[q].status = "cleared"
  /\ quizzes' = [id \in QuizIds |->
       IF id = q THEN NoRow("purged")
       ELSE IF quizzes[id].parent = q THEN [quizzes[id] EXCEPT !.parent = NoQuiz]
       ELSE quizzes[id]]
  /\ attempts' = {t \in attempts : t.quiz # q}
  /\ runs' = [runs EXCEPT ![q] = {}]
  /\ UNCHANGED cascade

PurgeCascade ==
  /\ cascade.status = "trashed"
  /\ cascade' = [cascade EXCEPT !.status = "purged", !.depth = 0]
  /\ quizzes' = [id \in QuizIds |->
       IF IdFree(id) THEN quizzes[id] ELSE NoRow("purged")]
  /\ attempts' = {}
  /\ runs' = [q \in QuizIds |-> {}]

-----------------------------------------------------------------------------
(* Options: the fields a change carries are written, the others kept.      *)

Merge(old, new, fields) ==
  [segment_size |-> IF "segment_size" \in fields THEN new.segment_size
                    ELSE old.segment_size,
   progression  |-> IF "progression" \in fields THEN new.progression
                    ELSE old.progression]

SetCascadeOptions(o, fields) ==
  /\ cascade.status = "open"
  /\ cascade' = [cascade EXCEPT !.opts = Merge(@, o, fields)]
  /\ UNCHANGED <<quizzes, attempts, runs>>

SetQuizOptions(q, o, fields) ==
  /\ Live(cascade, quizzes[q])
  /\ QuizOptionFields(quizzes[q], "segment_size" \in fields,
                      "progression" \in fields)
  /\ quizzes' = [quizzes EXCEPT ![q].opts = Merge(@, o, fields)]
  /\ UNCHANGED <<cascade, attempts, runs>>

-----------------------------------------------------------------------------
Next ==
  \/ \E q \in QuizIds, a \in 1 .. MaxAttempt, s \in Seeds :
       \/ \E i \in Questions, g \in Grades : Grade(q, a, s, i, g)
       \/ \E p \in CursorRequests : MoveCursor(q, a, s, p)
       \/ \E seed \in Seeds, new \in QuizIds : Finish(q, a, s, seed, new)
       \/ \E seed \in Seeds, new \in QuizIds, e \in Positions(Questions) :
            FinishSegment(q, a, s, e, seed, new)
  \/ \E q \in QuizIds, seed \in Seeds : RestoreQuiz(q, seed)
  \/ \E q \in QuizIds : PurgeQuiz(q)
  \/ TrashCascade
  \/ RestoreCascade
  \/ PurgeCascade
  \/ \E o \in Opts, f \in OptionRequests :
       \/ SetCascadeOptions(o, f)
       \/ \E q \in QuizIds : SetQuizOptions(q, o, f)

Spec == Init /\ [][Next]_vars

-----------------------------------------------------------------------------
(* Properties                                                              *)

Rows   == {q \in QuizIds : quizzes[q].status \in {"active", "cleared"}}
Active == {q \in QuizIds : quizzes[q].status = "active"}

Quiz == [status : {"absent", "active", "cleared", "purged"}, level : Int,
         origin : Origins, chain : BOOLEAN, opts : Opts,
         parent : QuizIds \cup {NoQuiz}, origin_attempt : Nat,
         origin_segment_end : Int, attempt : Nat, seed : Seeds,
         questions : SUBSET Questions,
         grades : [Questions -> Grades \cup {Ungraded}],
         correct : Int, missed : Int, cursor : Int, run_start : Int]

Cascades == [status : {"open", "trashed", "purged"}, opts : Opts,
             clear_threshold : ClearThresholds, depth : Int,
             peak_depth : Int, attempts_since_completion : Nat]

\* The shape of the rows.
TypeOK ==
  /\ cascade \in Cascades
  /\ quizzes \in [QuizIds -> Quiz]
  /\ attempts \subseteq Attempt
  /\ runs \in [QuizIds -> SUBSET (Int \X Int)]

\* Whatever order operations arrive in, the active quizzes are a stack: levels
\* 1 to depth have exactly one each, and the Source quiz is at the bottom.
\* The server relies on it to find "the deepest quiz", and two active quizzes
\* at one level would fail the unique index of the table.
LevelsAreAStack ==
  cascade.status # "purged" =>
    /\ Source \in Active /\ quizzes[Source].level = 1
    /\ \A q \in Active : quizzes[q].level \in 1 .. cascade.depth
    /\ \A l \in 1 .. cascade.depth : \E q \in Active : quizzes[q].level = l
    /\ \A q, r \in Active : quizzes[q].level = quizzes[r].level => q = r

\* The two counters that decide whether a quiz may be finished and whether it
\* passed are those of its graded questions, through regrades and resets.
CountersMatchGrades ==
  \A q \in Rows :
    /\ quizzes[q].correct = Cardinality(GradedAs(quizzes[q], "correct"))
    /\ quizzes[q].missed = Cardinality(GradedAs(quizzes[q], "missed"))

\* The runs finished in the current attempt tile the positions passed, through
\* changes of the segment size and purges of their drills: no run is drilled
\* twice and none is skipped, everything passed is graded, and the indicator
\* reads "run a of b, c of d" with a <= b and c <= d.
RunsTileThePassedPart ==
  \A q \in Active :
    LET r == quizzes[q] IN
    /\ 0 <= r.run_start /\ r.run_start <= r.cursor /\ r.cursor < Count(r)
    /\ \A p \in 0 .. Count(r) - 1 :
         Cardinality({x \in runs[q] : x[1] <= p /\ p < x[2]})
           = IF p < r.run_start THEN 1 ELSE 0
    /\ \A i \in At(r, 0 .. r.run_start - 1) : r.grades[i] # Ungraded
    /\ EffectiveSegmentSize(r) # 0 =>
         LET i == RunIndicator(r) IN
         i.run \in 1 .. i.total /\ i.position \in 1 .. i.length

\* An active quiz in its n-th attempt has exactly the records of attempts 1 to
\* n - 1, a cleared one those of 1 to n: recording never meets a record that
\* is there already (the table's key is the quiz and its attempt, and a clash
\* would reject the finish for good), and none is missing.
AttemptsRecordedOnce ==
  /\ \A t, u \in attempts : t.quiz = u.quiz /\ t.attempt = u.attempt => t = u
  /\ \A q \in Rows :
       {t.attempt : t \in {u \in attempts : u.quiz = q}}
         = 1 .. (IF quizzes[q].status = "active" THEN quizzes[q].attempt - 1
                 ELSE quizzes[q].attempt)
  /\ \A t \in attempts :
       /\ t.quiz \in Rows
       /\ t.correct + t.missed = Count(quizzes[t.quiz])

\* A segment's drill and what comes out of it are Drill without segments for
\* life (a check of the table), through restores and option changes.
ChainsStayDrill ==
  \A q \in Rows :
    /\ quizzes[q].origin = "segment" => quizzes[q].chain
    /\ quizzes[q].chain => quizzes[q].opts = NewQuizOpts(cascade, TRUE)

\* What was missed stays in play: when a quiz goes to the Trash, the questions
\* it missed are the questions of the quiz now at its level, and when it had
\* none the level above it is the deepest.
MissesStayInPlay ==
  [][\A q \in Active :
       quizzes'[q].status = "cleared" =>
         IF Misses(quizzes[q]) = {}
         THEN cascade'.depth = quizzes[q].level - 1
         ELSE \E r \in QuizIds :
                /\ quizzes'[r].status = "active"
                /\ quizzes'[r].level = quizzes[q].level
                /\ cascade'.depth = quizzes[q].level
                /\ quizzes'[r].questions = Misses(quizzes[q])]_vars

\* A cascade is completed only with nothing left below its Source quiz, and
\* with every one of its questions correct in one attempt.
CompletedFromTheBottom ==
  [][\A t \in attempts' \ attempts :
       t.outcome = "completed" =>
         /\ Active = {Source}
         /\ t.quiz = Source
         /\ GradedAs(quizzes[Source], "correct") = Questions]_vars

-----------------------------------------------------------------------------
(* What a cascade promises, in the terms of LevelStack.                    *)

QuizAt(l) == CHOOSE q \in Active : quizzes[q].level = l

Stack == INSTANCE LevelStack WITH
  stack <- [l \in 1 .. cascade.depth |-> quizzes[QuizAt(l)].questions],
  trash <- {quizzes[q].questions : q \in Rows \ Active},
  open  <- cascade.status = "open"

\* Every operation of the server on a cascade is a step of the stack of levels
\* or none.
ImplementsLevelStack == Stack!Spec
=============================================================================
