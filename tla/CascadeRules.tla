---------------------------- MODULE CascadeRules ----------------------------
(***************************************************************************)
(* The cascade rules as pure operators: what finishing an attempt, moving  *)
(* past a run and restoring a quiz do, and the checks that come first      *)
(* (backend/src/cascade/rules.rs).  The server's operation handlers, the   *)
(* in-memory model of the repository's tests and the device's local        *)
(* application all go through these rules.                                 *)
(*                                                                         *)
(* A cascade `c` has                                                       *)
(*   status     "open", "trashed" or "purged"                              *)
(*   opts       the options a created quiz takes                           *)
(*   clear_threshold                                                       *)
(*   depth, peak_depth, attempts_since_completion                          *)
(* and a quiz `q` has                                                      *)
(*   status     "absent" (id never used), "active", "cleared", "purged"    *)
(*   level, origin, chain (rules.rs: segment_chain), opts                  *)
(*   parent, origin_attempt, origin_segment_end    where it came from      *)
(*   attempt, seed                                 which play of it        *)
(*   questions  the set of question indexes                                *)
(*   grades     a function on Questions, Ungraded where there is none      *)
(*   correct, missed                               the row's counters      *)
(*   cursor, run_start                             positions from 0        *)
(* The alphabetical-order option is left out: no rule reads it.            *)
(***************************************************************************)
EXTENDS Integers, FiniteSets

CONSTANTS
  QuizIds,         \* every id a device may mint for a quiz
  NoQuiz,          \* "no quiz": the origin of the Source quiz
  Source,          \* the id of the Source quiz
  Questions,       \* the cascade's question indexes
  Seeds,           \* shuffle seeds
  ResetSeed,       \* order.rs reset_seed: XOR with a non-zero constant
  Shuffle(_, _),   \* order.rs shuffle: a question set and a seed to an order
  SegmentSizes,    \* the segment sizes a request may carry
  ClearThresholds  \* the per cent of a quiz that must be correct to clear it

Positions(S) == 0 .. Cardinality(S) - 1

\* Shuffle answers each position of the set with one question of it, and
\* every question has a position.
ASSUME RulesAssumption ==
  /\ Source \in QuizIds
  /\ NoQuiz \notin QuizIds
  /\ IsFiniteSet(Questions)
  /\ Questions # {}
  /\ Seeds # {}
  /\ ResetSeed \in [Seeds -> Seeds]
  /\ \A S \in SUBSET Questions, s \in Seeds :
        /\ Shuffle(S, s) \in [Positions(S) -> S]
        /\ \A i \in S : \E p \in Positions(S) : Shuffle(S, s)[p] = i
  /\ SegmentSizes \subseteq Nat
  /\ 0 \in SegmentSizes
  /\ ClearThresholds \subseteq 1 .. 100

Ungraded     == "ungraded"
Grades       == {"correct", "missed"}
Progressions == {"ladder", "drill"}
Origins      == {"source", "clear_replacement", "drill_replacement",
                 "descent", "segment"}
Opts         == [segment_size : SegmentSizes, progression : Progressions]
NoGrades     == [i \in Questions |-> Ungraded]

-----------------------------------------------------------------------------
(* Reading a quiz                                                          *)

Count(q) == Cardinality(q.questions)

\* The questions graded g among those at the positions in P.
At(q, P)        == {Shuffle(q.questions, q.seed)[p] : p \in P}
GradedAs(q, g)  == {i \in q.questions : q.grades[i] = g}
Misses(q)       == GradedAs(q, "missed")
RunMisses(q, e) == Misses(q) \cap At(q, q.run_start .. e - 1)

\* The segment size the rules read: 0 for a chain, for 0, and at or above the
\* question count.
EffectiveSegmentSize(q) ==
  IF q.chain \/ q.opts.segment_size >= Count(q) THEN 0 ELSE q.opts.segment_size

\* The smallest multiple of the segment size above the cursor and below the
\* question count, else the question count: where the current run ends.
RunEnd(q) ==
  LET s == EffectiveSegmentSize(q)
      b == (q.cursor \div s + 1) * s
  IN IF s = 0 THEN Count(q) ELSE IF b < Count(q) THEN b ELSE Count(q)

\* `run a of b, c of d`, for a quiz that has segments.
RunIndicator(q) ==
  LET s == EffectiveSegmentSize(q)
  IN [run      |-> q.run_start \div s + 1,
      total    |-> (Count(q) - 1) \div s + 1,
      position |-> q.cursor - q.run_start + 1,
      length   |-> RunEnd(q) - q.run_start]

-----------------------------------------------------------------------------
(* Checks                                                                  *)

\* Mutants: the checks that order what devices do, dropped.
NoDeepestCheck(c, q) == TRUE
NoCursorCheck(q, e)  == TRUE

Live(c, q)             == c.status = "open" /\ q.status = "active"
CurrentAttempt(q, a, s) == a = q.attempt /\ s = q.seed
Deepest(c, q)          == q.level = c.depth
CursorInRun(q, p)      == q.run_start <= p /\ p < RunEnd(q)

\* A multiple of the quiz's segment size strictly inside the quiz.
SegmentEnd(q, e) ==
  /\ ~q.chain
  /\ q.opts.segment_size # 0
  /\ e % q.opts.segment_size = 0
  /\ 0 < e /\ e < Count(q)

PastCursor(q, e) == e > q.cursor

\* A chain's progression and segment size are fixed; the Source quiz has no
\* progression.
QuizOptionFields(q, size, progression) ==
  /\ q.chain => ~size /\ ~progression
  /\ q.origin = "source" => ~progression

-----------------------------------------------------------------------------
(* The rules                                                               *)

NewQuizOpts(c, chain) ==
  IF chain THEN [segment_size |-> 0, progression |-> "drill"] ELSE c.opts

PushDepth(c) ==
  [c EXCEPT !.depth = @ + 1,
            !.peak_depth = IF @ > c.depth THEN @ ELSE c.depth + 1]

CountAttempt(c) == [c EXCEPT !.attempts_since_completion = @ + 1]

Passed(c, q) == q.correct * 100 >= c.clear_threshold * Count(q)

\* The four ways an attempt ends, which exclude one another and leave none
\* out.  Where nothing was correct a descent would go down with the whole
\* quiz, so it is shuffled again instead.
Completes(q)   == q.level = 1 /\ Misses(q) = {}
Reshuffles(q)  == ~Completes(q) /\ q.correct = 0
Descends(c, q) == /\ ~Completes(q) /\ ~Reshuffles(q)
                  /\ \/ q.level = 1
                     \/ q.opts.progression = "ladder" /\ ~Passed(c, q)
PutsAway(c, q) == ~Completes(q) /\ ~Reshuffles(q) /\ ~Descends(c, q)

\* A completion starts the two figures it reports from their beginning.
AfterCompletion(c) ==
  [c EXCEPT !.peak_depth = 1, !.attempts_since_completion = 0]

\* A quiz a rule creates, in the shape of a quiz just inserted.
NewQuiz(level, origin, parent, end, chain, opts, S, seed, parent_attempt) ==
  [status |-> "active", level |-> level, origin |-> origin, chain |-> chain,
   opts |-> opts, parent |-> parent, origin_attempt |-> parent_attempt,
   origin_segment_end |-> end, attempt |-> 1, seed |-> seed, questions |-> S,
   grades |-> NoGrades, correct |-> 0, missed |-> 0, cursor |-> 0,
   run_start |-> 0]

\* The misses one level down.
Descent(c, q, id, seed) ==
  NewQuiz(q.level + 1, "descent", id, 0, FALSE, NewQuizOpts(c, FALSE),
          Misses(q), seed, q.attempt)

\* The misses of a quiz put away, at its own level.
Replacement(c, q, id, seed) ==
  NewQuiz(q.level,
          IF Passed(c, q) THEN "clear_replacement" ELSE "drill_replacement",
          id, 0, q.chain, NewQuizOpts(c, q.chain), Misses(q), seed, q.attempt)

\* The misses of the run that ends at e, one level down.
Drill(c, q, id, e, seed) ==
  NewQuiz(q.level + 1, "segment", id, e, TRUE, NewQuizOpts(c, TRUE),
          RunMisses(q, e), seed, q.attempt)

\* A new attempt in place.
Reset(q, seed) ==
  [q EXCEPT !.attempt = @ + 1, !.seed = seed, !.grades = NoGrades,
            !.correct = 0, !.missed = 0, !.cursor = 0, !.run_start = 0]

\* Mutants of the next: back at its old level; in its old attempt; a chain
\* with the cascade's options.
RestoredInPlace(c, q, seed) ==
  [Reset(q, seed) EXCEPT !.status = "active",
                         !.opts = IF q.chain THEN q.opts ELSE c.opts]
RestoredSameAttempt(c, q, seed) ==
  [Reset(q, seed) EXCEPT !.status = "active", !.level = c.depth + 1,
                         !.opts = IF q.chain THEN q.opts ELSE c.opts,
                         !.attempt = q.attempt]
RestoredWithCascadeOpts(c, q, seed) ==
  [Reset(q, seed) EXCEPT !.status = "active", !.level = c.depth + 1,
                         !.opts = c.opts]

\* A cleared quiz back as the new deepest level, its options copied afresh
\* from the cascade; a chain keeps its own.
Restored(c, q, seed) ==
  [Reset(q, seed) EXCEPT !.status = "active", !.level = c.depth + 1,
                         !.opts = IF q.chain THEN q.opts ELSE c.opts]
=============================================================================
