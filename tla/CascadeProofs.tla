---------------------------- MODULE CascadeProofs ----------------------------
(***************************************************************************)
(* Theorems of Cascade, for every value of its constants: any number of    *)
(* quizzes and questions, any shuffle, any segment sizes and thresholds,   *)
(* and no bound on attempts that a theorem relies on.  The types first,    *)
(* then the stack of levels, chains, records, counters and grades, what a  *)
(* finish leaves behind, the runs, and the refinement of LevelStack.       *)
(***************************************************************************)
EXTENDS Cascade, Sequences, FiniteSetTheorems, TLAPS

-----------------------------------------------------------------------------
(* The rules return rows: each keeps the type of what it is given.         *)

LEMMA PositionsAreInts == Positions(Questions) \subseteq Int
<1>1. Cardinality(Questions) \in Nat
  BY FS_CardinalityType, RulesAssumption
<1> QED
  BY <1>1 DEF Positions

LEMMA NewQuizOptsType ==
  ASSUME NEW c \in Cascades, NEW b \in BOOLEAN
  PROVE  NewQuizOpts(c, b) \in Opts
BY RulesAssumption DEF NewQuizOpts, Opts, Cascades, Progressions

LEMMA MissesType ==
  ASSUME NEW q \in Quiz, NEW e
  PROVE  /\ Misses(q) \in SUBSET Questions
         /\ RunMisses(q, e) \in SUBSET Questions
BY DEF Misses, RunMisses, GradedAs, Quiz

LEMMA NoGradesType ==
  NoGrades \in [Questions -> Grades \cup {Ungraded}]
BY DEF NoGrades

LEMMA NewQuizType ==
  ASSUME NEW level \in Int, NEW origin \in Origins, NEW end \in Int,
         NEW parent \in QuizIds \cup {NoQuiz}, NEW chain \in BOOLEAN,
         NEW opts \in Opts, NEW S \in SUBSET Questions, NEW seed \in Seeds,
         NEW a \in Nat
  PROVE  NewQuiz(level, origin, parent, end, chain, opts, S, seed, a) \in Quiz
BY NoGradesType DEF NewQuiz, Quiz

LEMMA CreatedType ==
  ASSUME NEW c \in Cascades, NEW q \in Quiz, NEW id \in QuizIds,
         NEW e \in Int, NEW seed \in Seeds
  PROVE  /\ Descent(c, q, id, seed) \in Quiz
         /\ Replacement(c, q, id, seed) \in Quiz
         /\ Drill(c, q, id, e, seed) \in Quiz
<1> DEFINE o == IF Passed(c, q) THEN "clear_replacement" ELSE "drill_replacement"
<1>1. q.level \in Int /\ q.level + 1 \in Int /\ q.attempt \in Nat
      /\ q.chain \in BOOLEAN
  BY DEF Quiz
<1>2. {"descent", "segment", o} \subseteq Origins
  BY DEF Origins
<1>3. \A b \in BOOLEAN : NewQuizOpts(c, b) \in Opts
  BY NewQuizOptsType
<1>4. Misses(q) \in SUBSET Questions /\ RunMisses(q, e) \in SUBSET Questions
  BY MissesType
<1> HIDE DEF o
<1> DEFINE below == q.level + 1
           whole == Misses(q)
           part  == RunMisses(q, e)
           own   == NewQuizOpts(c, FALSE)
           drill == NewQuizOpts(c, TRUE)
           same  == NewQuizOpts(c, q.chain)
<1>a. /\ below \in Int
      /\ whole \in SUBSET Questions /\ part \in SUBSET Questions
      /\ own \in Opts /\ drill \in Opts /\ same \in Opts
  BY <1>1, <1>3, <1>4
<1> HIDE DEF below, whole, part, own, drill, same
<1>5. NewQuiz(below, "descent", id, 0, FALSE, own, whole, seed, q.attempt)
        \in Quiz
  BY <1>1, <1>2, <1>a, NoGradesType DEF NewQuiz, Quiz
<1>6. NewQuiz(q.level, o, id, 0, q.chain, same, whole, seed, q.attempt)
        \in Quiz
  BY <1>1, <1>2, <1>a, NoGradesType DEF NewQuiz, Quiz
<1>7. NewQuiz(below, "segment", id, e, TRUE, drill, part, seed, q.attempt)
        \in Quiz
  BY <1>1, <1>2, <1>a, NoGradesType DEF NewQuiz, Quiz
<1> QED
  BY <1>5, <1>6, <1>7
     DEF Descent, Replacement, Drill, o, below, whole, part, own, drill, same

LEMMA ResetType ==
  ASSUME NEW q \in Quiz, NEW seed \in Seeds
  PROVE  Reset(q, seed) \in Quiz
<1>1. q.attempt + 1 \in Nat /\ 0 \in Int
  BY DEF Quiz
<1> QED
  BY <1>1, NoGradesType DEF Reset, Quiz

LEMMA RestoredType ==
  ASSUME NEW c \in Cascades, NEW q \in Quiz, NEW seed \in Seeds
  PROVE  Restored(c, q, seed) \in Quiz
<1>1. Reset(q, seed) \in Quiz
  BY ResetType
<1>2. (IF q.chain THEN q.opts ELSE c.opts) \in Opts /\ c.depth + 1 \in Int
  BY DEF Quiz, Cascades
<1> QED
  BY <1>1, <1>2 DEF Restored, Quiz

LEMMA NoRowType ==
  ASSUME NEW status \in {"absent", "purged"}
  PROVE  NoRow(status) \in Quiz
<1> DEFINE o == [segment_size |-> 0, progression |-> "ladder"]
           s == CHOOSE x \in Seeds : TRUE
<1>1. o \in Opts
  BY RulesAssumption DEF Opts, Progressions
<1>2. s \in Seeds
  BY RulesAssumption
<1> HIDE DEF o, s
<1>3. NewQuiz(0, "source", NoQuiz, 0, FALSE, o, {}, s, 0) \in Quiz
  BY <1>1, <1>2, NoGradesType DEF NewQuiz, Quiz, Origins
<1> QED
  BY <1>3 DEF NoRow, Quiz, o, s

LEMMA CascadeTypes ==
  ASSUME NEW c \in Cascades
  PROVE  /\ PushDepth(c) \in Cascades
         /\ CountAttempt(c) \in Cascades
         /\ AfterCompletion(c) \in Cascades
<1>1. 0 \in Nat /\ 1 \in Int /\ c.depth + 1 \in Int /\ c.peak_depth \in Int
      /\ c.attempts_since_completion + 1 \in Nat
  BY DEF Cascades
<1>2. PushDepth(c) \in Cascades
  BY <1>1 DEF PushDepth, Cascades
<1>3. CountAttempt(c) \in Cascades
  BY <1>1 DEF CountAttempt, Cascades
<1>4. AfterCompletion(c) \in Cascades
  BY <1>1 DEF AfterCompletion, Cascades
<1> QED
  BY <1>2, <1>3, <1>4

LEMMA RegradedType ==
  ASSUME NEW q \in Quiz, NEW i \in Questions, NEW g \in Grades
  PROVE  Regraded(q, i, g) \in Quiz
<1> DEFINE x == q.correct + ((IF g = "correct" THEN 1 ELSE 0)
                              - (IF q.grades[i] = "correct" THEN 1 ELSE 0))
           y == q.missed + ((IF g = "missed" THEN 1 ELSE 0)
                             - (IF q.grades[i] = "missed" THEN 1 ELSE 0))
           h == [q.grades EXCEPT ![i] = g]
<1>1. x \in Int /\ y \in Int
  BY DEF Quiz
<1>2. h \in [Questions -> Grades \cup {Ungraded}]
  BY DEF Quiz
<1>3. Regraded(q, i, g) = [q EXCEPT !.grades = h, !.correct = x, !.missed = y]
  BY DEF Regraded, Quiz
<1> HIDE DEF x, y, h
<1> QED
  BY <1>1, <1>2, <1>3 DEF Quiz

LEMMA MergeType ==
  ASSUME NEW o \in Opts, NEW p \in Opts, NEW f
  PROVE  Merge(o, p, f) \in Opts
BY DEF Merge, Opts

LEMMA RecordType ==
  ASSUME TypeOK, NEW q \in QuizIds,
         NEW outcome \in {"cleared", "replaced", "descended", "completed",
                          "reshuffled"},
         RecordAttempt(q, outcome)
  PROVE  attempts' \subseteq Attempt
<1>1. quizzes[q] \in Quiz
  BY DEF TypeOK
<1>2. /\ quizzes[q].attempt \in Nat
      /\ quizzes[q].correct \in Int /\ quizzes[q].missed \in Int
  BY <1>1 DEF Quiz
<1> QED
  BY <1>2 DEF TypeOK, RecordAttempt, Attempt

-----------------------------------------------------------------------------
(* Type correctness                                                        *)

LEMMA InitType == Init => TypeOK
<1> SUFFICES ASSUME NEW o \in Opts, NEW t \in ClearThresholds, NEW s \in Seeds,
                    cascade = [status |-> "open", opts |-> o,
                               clear_threshold |-> t, depth |-> 1,
                               peak_depth |-> 1, attempts_since_completion |-> 0],
                    quizzes = [id \in QuizIds |->
                      IF id = Source
                      THEN NewQuiz(1, "source", NoQuiz, 0, FALSE, o, Questions, s, 0)
                      ELSE NoRow("absent")],
                    attempts = {},
                    runs = [q \in QuizIds |-> {}]
             PROVE  TypeOK
  BY DEF Init
<1>1. cascade \in Cascades
  BY DEF Cascades
<1>2. NewQuiz(1, "source", NoQuiz, 0, FALSE, o, Questions, s, 0) \in Quiz
  BY NoGradesType DEF NewQuiz, Quiz, Origins
<1>3. NoRow("absent") \in Quiz
  BY NoRowType
<1>4. quizzes \in [QuizIds -> Quiz]
  BY <1>2, <1>3
<1> QED
  BY <1>1, <1>4 DEF TypeOK

\* Finishing an attempt, whichever way it ends.
LEMMA FinishType ==
  ASSUME TypeOK, NEW q \in QuizIds, NEW a, NEW s, NEW seed \in Seeds,
         NEW new \in QuizIds, Finish(q, a, s, seed, new)
  PROVE  TypeOK'
<1>0. /\ quizzes[q] \in Quiz /\ cascade \in Cascades /\ ResetSeed[seed] \in Seeds
      /\ quizzes \in [QuizIds -> Quiz] /\ runs \in [QuizIds -> SUBSET (Int \X Int)]
  BY RulesAssumption DEF TypeOK
<1>1. Reset(quizzes[q], ResetSeed[seed]) \in Quiz
  BY <1>0, ResetType
<1>2. /\ Descent(cascade, quizzes[q], q, seed) \in Quiz
      /\ Replacement(cascade, quizzes[q], q, seed) \in Quiz
  <2>1. 0 \in Int
    OBVIOUS
  <2> QED
    BY <1>0, <2>1, CreatedType
<1>3. /\ CountAttempt(cascade) \in Cascades
      /\ PushDepth(CountAttempt(cascade)) \in Cascades
      /\ AfterCompletion(cascade) \in Cascades
  BY <1>0, CascadeTypes
<1>4. [quizzes[q] EXCEPT !.status = "cleared"] \in Quiz
  BY <1>0 DEF Quiz
<1>5. [CountAttempt(cascade) EXCEPT !.depth = @ - 1] \in Cascades
  BY <1>3 DEF Cascades
<1>6. [runs EXCEPT ![q] = {}] \in [QuizIds -> SUBSET (Int \X Int)]
  BY <1>0
<1>7. attempts' \subseteq Attempt
  <2>1. PICK outcome \in {"cleared", "replaced", "descended", "completed",
                          "reshuffled"} : RecordAttempt(q, outcome)
    BY DEF Finish, Complete, Reshuffle, Descend, PutAway
  <2> QED
    BY <2>1, RecordType
<1>8. CASE Complete(q, seed)
  BY <1>0, <1>1, <1>3, <1>6, <1>7, <1>8 DEF Complete, TypeOK
<1>9. CASE Reshuffle(q, seed)
  BY <1>0, <1>1, <1>3, <1>6, <1>7, <1>9 DEF Reshuffle, TypeOK
<1>10. CASE Descend(q, seed, new)
  BY <1>0, <1>1, <1>2, <1>3, <1>6, <1>7, <1>10 DEF Descend, TypeOK
<1>11. CASE PutAway(q, seed, new)
  BY <1>0, <1>2, <1>3, <1>4, <1>5, <1>7, <1>11 DEF PutAway, TypeOK
<1> QED
  BY <1>8, <1>9, <1>10, <1>11 DEF Finish

LEMMA TypeStep == TypeOK /\ [Next]_vars => TypeOK'
<1> SUFFICES ASSUME TypeOK, [Next]_vars PROVE TypeOK'
  OBVIOUS
<1>0. /\ cascade \in Cascades /\ quizzes \in [QuizIds -> Quiz]
      /\ attempts \subseteq Attempt /\ runs \in [QuizIds -> SUBSET (Int \X Int)]
  BY DEF TypeOK
<1>1. ASSUME NEW q \in QuizIds, NEW a, NEW s, NEW i \in Questions,
             NEW g \in Grades, Grade(q, a, s, i, g)
      PROVE  TypeOK'
  <2>1. Regraded(quizzes[q], i, g) \in Quiz
    BY <1>0, RegradedType
  <2> QED
    BY <1>0, <1>1, <2>1 DEF Grade, TypeOK
<1>2. ASSUME NEW q \in QuizIds, NEW a, NEW s, NEW p \in CursorRequests,
             MoveCursor(q, a, s, p)
      PROVE  TypeOK'
  <2>1. [quizzes[q] EXCEPT !.cursor = p] \in Quiz
    BY <1>0, BoundAssumption DEF Quiz
  <2>2. quizzes' = [quizzes EXCEPT ![q] = [quizzes[q] EXCEPT !.cursor = p]]
    BY <1>0, <1>2 DEF MoveCursor
  <2> QED
    BY <1>0, <1>2, <2>1, <2>2 DEF MoveCursor, TypeOK
<1>3. ASSUME NEW q \in QuizIds, NEW a, NEW s, NEW seed \in Seeds,
             NEW new \in QuizIds, Finish(q, a, s, seed, new)
      PROVE  TypeOK'
  BY <1>3, FinishType
<1>4. ASSUME NEW q \in QuizIds, NEW a, NEW s, NEW seed \in Seeds,
             NEW new \in QuizIds, NEW e \in Positions(Questions),
             FinishSegment(q, a, s, e, seed, new)
      PROVE  TypeOK'
  <2> DEFINE moved == [quizzes[q] EXCEPT !.cursor = e, !.run_start = e]
             span  == {<<quizzes[q].run_start, e>>}
  <2>1. e \in Int /\ quizzes[q] \in Quiz
    BY <1>0, PositionsAreInts
  <2>2. moved \in Quiz
    BY <2>1 DEF Quiz
  <2>3. Drill(cascade, quizzes[q], q, e, seed) \in Quiz
    BY <1>0, <2>1, CreatedType
  <2>4. PushDepth(cascade) \in Cascades
    BY <1>0, CascadeTypes
  <2>5. cascade' \in Cascades
    BY <1>0, <1>4, <2>4 DEF FinishSegment
  <2>6. quizzes' \in [QuizIds -> Quiz]
    BY <1>0, <1>4, <2>2, <2>3 DEF FinishSegment
  <2>7. runs' \in [QuizIds -> SUBSET (Int \X Int)]
    <3>1. span \in SUBSET (Int \X Int)
      BY <2>1 DEF Quiz
    <3>2. runs[q] \cup span \in SUBSET (Int \X Int)
      BY <1>0, <3>1
    <3>3. runs' = [runs EXCEPT ![q] = runs[q] \cup span]
      BY <1>0, <1>4 DEF FinishSegment
    <3> QED
      BY <1>0, <3>2, <3>3
  <2> QED
    BY <1>0, <1>4, <2>5, <2>6, <2>7 DEF FinishSegment, TypeOK
<1>5. ASSUME NEW q \in QuizIds, NEW seed \in Seeds, RestoreQuiz(q, seed)
      PROVE  TypeOK'
  <2>1. Restored(cascade, quizzes[q], seed) \in Quiz
    BY <1>0, RestoredType
  <2>2. PushDepth(cascade) \in Cascades
    BY <1>0, CascadeTypes
  <2>3. [PushDepth(cascade) EXCEPT !.status = "open"] \in Cascades
    BY <2>2 DEF Cascades
  <2> QED
    BY <1>0, <1>5, <2>1, <2>3 DEF RestoreQuiz, TypeOK
<1>6. ASSUME NEW q \in QuizIds, PurgeQuiz(q) PROVE TypeOK'
  <2>1. NoRow("purged") \in Quiz
    BY NoRowType
  <2>2. \A id \in QuizIds : [quizzes[id] EXCEPT !.parent = NoQuiz] \in Quiz
    BY <1>0 DEF Quiz
  <2>3. quizzes' \in [QuizIds -> Quiz]
    BY <1>0, <1>6, <2>1, <2>2 DEF PurgeQuiz
  <2> QED
    BY <1>0, <1>6, <2>3 DEF PurgeQuiz, TypeOK
<1>7. CASE TrashCascade
  <2>1. [cascade EXCEPT !.status = "trashed"] \in Cascades
    BY <1>0 DEF Cascades
  <2> QED
    BY <1>0, <1>7, <2>1 DEF TrashCascade, TypeOK
<1>8. CASE RestoreCascade
  <2>1. [cascade EXCEPT !.status = "open"] \in Cascades
    BY <1>0 DEF Cascades
  <2> QED
    BY <1>0, <1>8, <2>1 DEF RestoreCascade, TypeOK
<1>9. CASE PurgeCascade
  <2>0. 0 \in Int
    OBVIOUS
  <2>1. [cascade EXCEPT !.status = "purged", !.depth = 0] \in Cascades
    BY <1>0, <2>0 DEF Cascades
  <2>2. NoRow("purged") \in Quiz
    BY NoRowType
  <2> QED
    BY <1>0, <1>9, <2>1, <2>2 DEF PurgeCascade, TypeOK
<1>10. ASSUME NEW o \in Opts, NEW f, SetCascadeOptions(o, f) PROVE TypeOK'
  <2>1. Merge(cascade.opts, o, f) \in Opts
    BY <1>0, MergeType DEF Cascades
  <2>2. [cascade EXCEPT !.opts = Merge(cascade.opts, o, f)] \in Cascades
    BY <1>0, <2>1 DEF Cascades
  <2>3. cascade' = [cascade EXCEPT !.opts = Merge(cascade.opts, o, f)]
    BY <1>0, <1>10 DEF SetCascadeOptions
  <2> QED
    BY <1>0, <1>10, <2>2, <2>3 DEF SetCascadeOptions, TypeOK
<1>11. ASSUME NEW q \in QuizIds, NEW o \in Opts, NEW f, SetQuizOptions(q, o, f)
       PROVE  TypeOK'
  <2> DEFINE m == Merge(quizzes[q].opts, o, f)
  <2>1. m \in Opts
    BY <1>0, MergeType DEF Quiz
  <2>3. quizzes' = [quizzes EXCEPT ![q] = [quizzes[q] EXCEPT !.opts = m]]
    BY <1>0, <1>11 DEF SetQuizOptions
  <2> HIDE DEF m
  <2>2. [quizzes[q] EXCEPT !.opts = m] \in Quiz
    BY <1>0, <2>1 DEF Quiz
  <2> QED
    BY <1>0, <1>11, <2>2, <2>3 DEF SetQuizOptions, TypeOK
<1>12. CASE UNCHANGED vars
  BY <1>0, <1>12 DEF vars, TypeOK
<1> QED
  BY <1>1, <1>2, <1>3, <1>4, <1>5, <1>6, <1>7, <1>8, <1>9, <1>10, <1>11, <1>12
     DEF Next

\* The rows keep their shape whatever operations arrive.
THEOREM TypeCorrect == Spec => []TypeOK
<1>1. Init => TypeOK
  BY InitType
<1>2. TypeOK /\ [Next]_vars => TypeOK'
  BY TypeStep
<1> QED
  BY <1>1, <1>2, PTL DEF Spec

-----------------------------------------------------------------------------
(* The levels are a stack.  An operation does one of four things to it:    *)
(* nothing, a push, a pop, or a swap of the top.                           *)

\* What the four lemmas say of the quizzes an operation leaves where they are.
Stays(q) ==
  /\ quizzes'[q].status = "active" <=> quizzes[q].status = "active"
  /\ quizzes'[q].level = quizzes[q].level

LEMMA Unmoved ==
  ASSUME TypeOK, LevelsAreAStack, cascade.status # "purged",
         cascade'.depth = cascade.depth,
         \A q \in QuizIds : Stays(q)
  PROVE  LevelsAreAStack'
<1>1. Source \in QuizIds
  BY RulesAssumption
<1>2. Active' = Active
  BY DEF Active, Stays
<1>3. \A q \in Active : q \in QuizIds
  BY DEF Active
<1> QED
  BY <1>1, <1>2, <1>3 DEF LevelsAreAStack, Stays

LEMMA Pushed ==
  ASSUME TypeOK, LevelsAreAStack, cascade.status # "purged",
         NEW new \in QuizIds, quizzes[new].status # "active",
         cascade'.depth = cascade.depth + 1,
         quizzes'[new].status = "active",
         quizzes'[new].level = cascade.depth + 1,
         \A q \in QuizIds \ {new} : Stays(q)
  PROVE  LevelsAreAStack'
<1>1. cascade.depth \in Int /\ Source \in QuizIds
  BY RulesAssumption DEF TypeOK, Cascades
<1>2. Active' = Active \cup {new} /\ new \notin Active
  BY DEF Active, Stays
<1>3. \A q \in Active : q \in QuizIds /\ quizzes'[q].level = quizzes[q].level
  BY DEF Active, Stays
<1>4. \A q \in Active : quizzes[q].level \in 1 .. cascade.depth
  BY DEF LevelsAreAStack
<1>5. Source \in Active /\ 1 <= cascade.depth
  BY <1>1, <1>4 DEF LevelsAreAStack
<1>6. Source \in Active' /\ quizzes'[Source].level = 1
  BY <1>2, <1>3, <1>5 DEF LevelsAreAStack
<1>7. \A q \in Active' : quizzes'[q].level \in 1 .. cascade'.depth
  BY <1>1, <1>2, <1>3, <1>4, <1>5
<1>8. \A l \in 1 .. cascade'.depth : \E q \in Active' : quizzes'[q].level = l
  <2> SUFFICES ASSUME NEW l \in 1 .. cascade'.depth
               PROVE  \E q \in Active' : quizzes'[q].level = l
    OBVIOUS
  <2>1. CASE l = cascade.depth + 1
    BY <1>2, <2>1
  <2>2. CASE l # cascade.depth + 1
    <3>1. l \in 1 .. cascade.depth
      BY <1>1, <2>2
    <3>2. PICK q \in Active : quizzes[q].level = l
      BY <3>1 DEF LevelsAreAStack
    <3> QED
      BY <1>2, <1>3, <3>2
  <2> QED
    BY <2>1, <2>2
<1>9. \A q, r \in Active' : quizzes'[q].level = quizzes'[r].level => q = r
  <2> SUFFICES ASSUME NEW q \in Active', NEW r \in Active',
                      quizzes'[q].level = quizzes'[r].level
               PROVE  q = r
    OBVIOUS
  <2>1. \A x \in Active : quizzes'[x].level # quizzes'[new].level
    BY <1>1, <1>3, <1>4
  <2>2. CASE q = new \/ r = new
    BY <1>2, <2>1, <2>2
  <2>3. CASE q \in Active /\ r \in Active
    BY <1>3, <2>3 DEF LevelsAreAStack
  <2> QED
    BY <1>2, <2>2, <2>3
<1> QED
  BY <1>6, <1>7, <1>8, <1>9 DEF LevelsAreAStack

LEMMA Popped ==
  ASSUME TypeOK, LevelsAreAStack, cascade.status # "purged",
         NEW old \in Active, quizzes[old].level = cascade.depth,
         cascade.depth # 1,
         cascade'.depth = cascade.depth - 1,
         quizzes'[old].status # "active",
         \A q \in QuizIds \ {old} : Stays(q)
  PROVE  LevelsAreAStack'
<1>1. cascade.depth \in Int /\ Source \in QuizIds
  BY RulesAssumption DEF TypeOK, Cascades
<1>2. Active' = Active \ {old}
  BY DEF Active, Stays
<1>3. \A q \in Active \ {old} :
         q \in QuizIds /\ quizzes'[q].level = quizzes[q].level
  BY DEF Active, Stays
<1>4. \A q \in Active \ {old} : quizzes[q].level \in 1 .. cascade.depth - 1
  BY <1>1 DEF LevelsAreAStack
<1>5. Source \in Active' /\ quizzes'[Source].level = 1
  BY <1>2, <1>3 DEF LevelsAreAStack
<1>6. \A q \in Active' : quizzes'[q].level \in 1 .. cascade'.depth
  BY <1>2, <1>3, <1>4
<1>7. \A l \in 1 .. cascade'.depth : \E q \in Active' : quizzes'[q].level = l
  <2> SUFFICES ASSUME NEW l \in 1 .. cascade'.depth
               PROVE  \E q \in Active' : quizzes'[q].level = l
    OBVIOUS
  <2>1. l \in 1 .. cascade.depth /\ l # cascade.depth
    BY <1>1
  <2>2. PICK q \in Active : quizzes[q].level = l
    BY <2>1 DEF LevelsAreAStack
  <2> QED
    BY <1>2, <1>3, <2>1, <2>2
<1>8. \A q, r \in Active' : quizzes'[q].level = quizzes'[r].level => q = r
  BY <1>2, <1>3 DEF LevelsAreAStack
<1> QED
  BY <1>5, <1>6, <1>7, <1>8 DEF LevelsAreAStack

LEMMA Swapped ==
  ASSUME TypeOK, LevelsAreAStack, cascade.status # "purged",
         NEW old \in Active, NEW new \in QuizIds,
         quizzes[new].status # "active", old # Source,
         cascade'.depth = cascade.depth,
         quizzes'[old].status # "active",
         quizzes'[new].status = "active",
         quizzes'[new].level = quizzes[old].level,
         \A q \in QuizIds \ {old, new} : Stays(q)
  PROVE  LevelsAreAStack'
<1>1. Source \in QuizIds
  BY RulesAssumption
<1>2. Active' = (Active \ {old}) \cup {new} /\ new \notin Active
  BY DEF Active, Stays
<1>3. \A q \in Active \ {old} :
         q \in QuizIds /\ quizzes'[q].level = quizzes[q].level
  BY <1>2 DEF Active, Stays
<1>4. Source \in Active' /\ quizzes'[Source].level = 1
  BY <1>2, <1>3 DEF LevelsAreAStack
<1>5. \A q \in Active' : quizzes'[q].level \in 1 .. cascade'.depth
  BY <1>2, <1>3 DEF LevelsAreAStack
<1>6. \A l \in 1 .. cascade'.depth : \E q \in Active' : quizzes'[q].level = l
  <2> SUFFICES ASSUME NEW l \in 1 .. cascade'.depth
               PROVE  \E q \in Active' : quizzes'[q].level = l
    OBVIOUS
  <2>1. PICK q \in Active : quizzes[q].level = l
    BY DEF LevelsAreAStack
  <2> QED
    BY <1>2, <1>3, <2>1
<1>7. \A q, r \in Active' : quizzes'[q].level = quizzes'[r].level => q = r
  BY <1>2, <1>3 DEF LevelsAreAStack
<1> QED
  BY <1>4, <1>5, <1>6, <1>7 DEF LevelsAreAStack

\* Where the rules put the quizzes they make.
LEMMA ResetLevel ==
  ASSUME NEW q \in Quiz, NEW seed
  PROVE  Reset(q, seed).status = q.status /\ Reset(q, seed).level = q.level
BY DEF Reset, Quiz

LEMMA CreatedLevels ==
  ASSUME NEW c, NEW q, NEW id, NEW seed
  PROVE  /\ Descent(c, q, id, seed).status = "active"
         /\ Descent(c, q, id, seed).level = q.level + 1
         /\ Replacement(c, q, id, seed).status = "active"
         /\ Replacement(c, q, id, seed).level = q.level
BY DEF Descent, Replacement, NewQuiz

LEMMA DrillLevel ==
  ASSUME NEW c, NEW q, NEW id, NEW e, NEW seed
  PROVE  /\ Drill(c, q, id, e, seed).status = "active"
         /\ Drill(c, q, id, e, seed).level = q.level + 1
BY DEF Drill, NewQuiz

LEMMA DepthOf ==
  ASSUME NEW c \in Cascades
  PROVE  /\ PushDepth(c).depth = c.depth + 1
         /\ CountAttempt(c).depth = c.depth
         /\ PushDepth(CountAttempt(c)).depth = c.depth + 1
         /\ AfterCompletion(c).depth = c.depth
         /\ [CountAttempt(c) EXCEPT !.depth = @ - 1].depth = c.depth - 1
BY DEF PushDepth, CountAttempt, AfterCompletion, Cascades

\* The bottom quiz is never put away, and what is put away is the top.
LEMMA FinishStack ==
  ASSUME TypeOK, LevelsAreAStack, NEW q \in QuizIds, NEW a, NEW s,
         NEW seed \in Seeds, NEW new \in QuizIds, Finish(q, a, s, seed, new)
  PROVE  LevelsAreAStack'
<1>1. /\ cascade.status # "purged" /\ quizzes[q].status = "active"
      /\ quizzes[q].level = cascade.depth /\ quizzes[new].status = "absent"
      /\ q \in Active /\ new # q
  BY DEF Finish, FinishChecks, Live, Deepest, IdFree, Active
<1>2. /\ quizzes[q] \in Quiz /\ cascade \in Cascades
      /\ quizzes \in [QuizIds -> Quiz]
  BY DEF TypeOK
<1>3. CASE Complete(q, seed)
  BY <1>1, <1>2, <1>3, ResetLevel, DepthOf, Unmoved DEF Complete, Stays
<1>4. CASE Reshuffle(q, seed)
  BY <1>1, <1>2, <1>4, ResetLevel, DepthOf, Unmoved DEF Reshuffle, Stays
<1>5. CASE Descend(q, seed, new)
  <2>1. /\ quizzes'[new].status = "active"
        /\ quizzes'[new].level = cascade.depth + 1
        /\ cascade'.depth = cascade.depth + 1
    BY <1>1, <1>2, <1>5, CreatedLevels, DepthOf DEF Descend
  <2>2. \A x \in QuizIds \ {new} : Stays(x)
    BY <1>1, <1>2, <1>5, ResetLevel DEF Descend, Stays
  <2> QED
    BY <1>1, <2>1, <2>2, Pushed
<1>6. CASE PutAway(q, seed, new)
  <2>1. quizzes[q].level # 1
    BY <1>6 DEF PutAway, PutsAway, Descends
  <2>2. q # Source
    BY <1>1, <2>1 DEF LevelsAreAStack
  <2>3. quizzes'[q].status = "cleared"
    BY <1>1, <1>2, <1>6 DEF PutAway, Quiz
  <2>4. CASE cascade'.depth = cascade.depth - 1 /\ Misses(quizzes[q]) = {}
    <3>1. \A x \in QuizIds \ {q} : Stays(x)
      BY <1>2, <1>6, <2>4 DEF PutAway, Stays
    <3> QED
      BY <1>1, <2>1, <2>3, <2>4, <3>1, Popped
  <2>5. CASE cascade'.depth = cascade.depth /\ Misses(quizzes[q]) # {}
    <3>1. /\ quizzes'[new].status = "active"
          /\ quizzes'[new].level = quizzes[q].level
      BY <1>1, <1>2, <1>6, <2>5, CreatedLevels DEF PutAway
    <3>2. \A x \in QuizIds \ {q, new} : Stays(x)
      BY <1>2, <1>6, <2>5 DEF PutAway, Stays
    <3> QED
      BY <1>1, <2>2, <2>3, <2>5, <3>1, <3>2, Swapped
  <2> QED
    BY <1>2, <1>6, <2>4, <2>5, DepthOf DEF PutAway
<1> QED
  BY <1>3, <1>4, <1>5, <1>6 DEF Finish

LEMMA FinishSegmentStack ==
  ASSUME TypeOK, LevelsAreAStack, NEW q \in QuizIds, NEW a, NEW s,
         NEW seed \in Seeds, NEW new \in QuizIds, NEW e,
         FinishSegment(q, a, s, e, seed, new)
  PROVE  LevelsAreAStack'
<1> DEFINE moved == [quizzes[q] EXCEPT !.cursor = e, !.run_start = e]
<1>1. /\ cascade.status # "purged" /\ quizzes[q].level = cascade.depth
      /\ quizzes[new].status = "absent" /\ new # q
  BY DEF FinishSegment, SegmentChecks, Live, Deepest, IdFree
<1>2. /\ quizzes[q] \in Quiz /\ cascade \in Cascades
      /\ quizzes \in [QuizIds -> Quiz]
  BY DEF TypeOK
<1>3. moved.status = quizzes[q].status /\ moved.level = quizzes[q].level
  BY <1>2 DEF Quiz
<1>4. CASE RunMisses(quizzes[q], e) = {}
  <2>1. \A x \in QuizIds : Stays(x)
    BY <1>2, <1>3, <1>4 DEF FinishSegment, Stays
  <2>2. cascade'.depth = cascade.depth
    BY <1>4 DEF FinishSegment
  <2> QED
    BY <1>1, <2>1, <2>2, Unmoved
<1>5. CASE RunMisses(quizzes[q], e) # {}
  <2>1. /\ quizzes'[new].status = "active"
        /\ quizzes'[new].level = cascade.depth + 1
    BY <1>1, <1>2, <1>5, DrillLevel DEF FinishSegment
  <2>2. \A x \in QuizIds \ {new} : Stays(x)
    BY <1>2, <1>3, <1>5 DEF FinishSegment, Stays
  <2>3. cascade'.depth = cascade.depth + 1
    BY <1>2, <1>5, DepthOf DEF FinishSegment
  <2> QED
    BY <1>1, <2>1, <2>2, <2>3, Pushed
<1> QED
  BY <1>4, <1>5

LEMMA InitStack == Init => LevelsAreAStack
<1> SUFFICES ASSUME Init PROVE LevelsAreAStack
  OBVIOUS
<1>1. cascade.depth = 1 /\ Source \in QuizIds
  BY RulesAssumption DEF Init
<1>2. NoRow("absent").status = "absent"
  <2>1. NoRow("absent") \in Quiz
    BY NoRowType
  <2> QED
    BY <2>1 DEF NoRow, NewQuiz
<1>3. /\ quizzes[Source].status = "active" /\ quizzes[Source].level = 1
      /\ \A q \in QuizIds \ {Source} : quizzes[q].status = "absent"
  BY <1>1, <1>2 DEF Init, NewQuiz
<1>4. Active = {Source}
  BY <1>1, <1>3 DEF Active
<1> QED
  BY <1>1, <1>3, <1>4 DEF LevelsAreAStack

LEMMA StackStep == TypeOK /\ LevelsAreAStack /\ [Next]_vars => LevelsAreAStack'
<1> SUFFICES ASSUME TypeOK, LevelsAreAStack, [Next]_vars PROVE LevelsAreAStack'
  OBVIOUS
<1>0. cascade \in Cascades /\ quizzes \in [QuizIds -> Quiz]
  BY DEF TypeOK
<1>1. ASSUME NEW q \in QuizIds, NEW a, NEW s, NEW i \in Questions,
             NEW g \in Grades, Grade(q, a, s, i, g)
      PROVE  LevelsAreAStack'
  <2>1. \A x \in QuizIds : Stays(x)
    BY <1>0, <1>1 DEF Grade, Regraded, Stays, Quiz
  <2> QED
    BY <1>1, <2>1, Unmoved DEF Grade, Live
<1>2. ASSUME NEW q \in QuizIds, NEW a, NEW s, NEW p \in CursorRequests,
             MoveCursor(q, a, s, p)
      PROVE  LevelsAreAStack'
  <2>1. \A x \in QuizIds : Stays(x)
    BY <1>0, <1>2 DEF MoveCursor, Stays, Quiz
  <2> QED
    BY <1>2, <2>1, Unmoved DEF MoveCursor, Live
<1>3. ASSUME NEW q \in QuizIds, NEW a, NEW s, NEW seed \in Seeds,
             NEW new \in QuizIds, Finish(q, a, s, seed, new)
      PROVE  LevelsAreAStack'
  BY <1>3, FinishStack
<1>4. ASSUME NEW q \in QuizIds, NEW a, NEW s, NEW seed \in Seeds,
             NEW new \in QuizIds, NEW e \in Positions(Questions),
             FinishSegment(q, a, s, e, seed, new)
      PROVE  LevelsAreAStack'
  BY <1>4, FinishSegmentStack
<1>5. ASSUME NEW q \in QuizIds, NEW seed \in Seeds, RestoreQuiz(q, seed)
      PROVE  LevelsAreAStack'
  <2>1. /\ cascade.status # "purged" /\ quizzes[q].status # "active"
        /\ cascade'.depth = cascade.depth + 1
    BY <1>0, <1>5, DepthOf DEF RestoreQuiz, PushDepth, Cascades
  <2>2. /\ quizzes'[q].status = "active"
        /\ quizzes'[q].level = cascade.depth + 1
    <3>1. /\ Restored(cascade, quizzes[q], seed).status = "active"
          /\ Restored(cascade, quizzes[q], seed).level = cascade.depth + 1
      BY <1>0 DEF Restored, Reset, Quiz
    <3>2. quizzes'[q] = Restored(cascade, quizzes[q], seed)
      BY <1>0, <1>5 DEF RestoreQuiz
    <3> QED
      BY <3>1, <3>2
  <2>3. \A x \in QuizIds \ {q} : Stays(x)
    BY <1>0, <1>5 DEF RestoreQuiz, Stays
  <2> QED
    BY <2>1, <2>2, <2>3, Pushed
<1>6. ASSUME NEW q \in QuizIds, PurgeQuiz(q) PROVE LevelsAreAStack'
  <2>1. quizzes[q].status = "cleared" /\ cascade' = cascade /\ cascade.status # "purged"
    BY <1>6 DEF PurgeQuiz
  <2>2. NoRow("purged").status = "purged"
    BY DEF NoRow, NewQuiz
  <2>3. /\ quizzes'[q].status = "purged"
        /\ \A x \in QuizIds \ {q} : /\ quizzes'[x].status = quizzes[x].status
                                   /\ quizzes'[x].level = quizzes[x].level
    BY <1>0, <1>6, <2>2 DEF PurgeQuiz, Quiz
  <2>4. Active' = Active /\ \A x \in Active : quizzes'[x].level = quizzes[x].level
    BY <2>1, <2>3 DEF Active
  <2> QED
    BY <2>1, <2>4 DEF LevelsAreAStack
<1>7. CASE TrashCascade
  BY <1>0, <1>7, Unmoved DEF TrashCascade, Stays, Cascades
<1>8. CASE RestoreCascade
  BY <1>0, <1>8, Unmoved DEF RestoreCascade, Stays, Cascades
<1>9. CASE PurgeCascade
  BY <1>0, <1>9 DEF PurgeCascade, LevelsAreAStack, Cascades
<1>10. ASSUME NEW o \in Opts, NEW f, SetCascadeOptions(o, f) PROVE LevelsAreAStack'
  BY <1>0, <1>10, Unmoved DEF SetCascadeOptions, Stays, Cascades
<1>11. ASSUME NEW q \in QuizIds, NEW o \in Opts, NEW f, SetQuizOptions(q, o, f)
       PROVE  LevelsAreAStack'
  <2>1. \A x \in QuizIds : Stays(x)
    BY <1>0, <1>11 DEF SetQuizOptions, Stays, Quiz
  <2> QED
    BY <1>11, <2>1, Unmoved DEF SetQuizOptions, Live
<1>12. CASE UNCHANGED vars
  BY <1>12 DEF vars, LevelsAreAStack, Active
<1> QED
  BY <1>1, <1>2, <1>3, <1>4, <1>5, <1>6, <1>7, <1>8, <1>9, <1>10, <1>11, <1>12
     DEF Next

\* In any order operations arrive in, and however many quizzes there are, the
\* levels 1 to depth have one active quiz each and the Source is the first.
THEOREM StackCorrect == Spec => []LevelsAreAStack
<1>1. Init => LevelsAreAStack
  BY InitStack
<1>2. TypeOK /\ TypeOK' /\ LevelsAreAStack /\ [Next]_vars => LevelsAreAStack'
  BY StackStep
<1> QED
  BY <1>1, <1>2, TypeCorrect, PTL DEF Spec

-----------------------------------------------------------------------------
(* A chain is Drill without segments for life.                             *)

\* The part of ChainsStayDrill about one row, whatever its status.
ChainRow(q) ==
  /\ q.origin = "segment" => q.chain
  /\ q.chain => q.opts = [segment_size |-> 0, progression |-> "drill"]

\* It is inductive for every id at once, rows or not.
AllChainRows == \A q \in QuizIds : ChainRow(quizzes[q])

LEMMA RuleChains ==
  ASSUME NEW c, NEW q \in Quiz, NEW id, NEW e, NEW seed, ChainRow(q)
  PROVE  /\ ChainRow(Reset(q, seed))
         /\ ChainRow(Descent(c, q, id, seed))
         /\ ChainRow(Replacement(c, q, id, seed))
         /\ ChainRow(Drill(c, q, id, e, seed))
         /\ ChainRow(Restored(c, q, seed))
<1>1. ChainRow(Reset(q, seed))
  BY DEF ChainRow, Reset, Quiz
<1>2. ChainRow(Descent(c, q, id, seed))
  BY DEF ChainRow, Descent, NewQuiz
<1>3. ChainRow(Replacement(c, q, id, seed))
  BY DEF ChainRow, Replacement, NewQuiz, NewQuizOpts
<1>4. ChainRow(Drill(c, q, id, e, seed))
  BY DEF ChainRow, Drill, NewQuiz, NewQuizOpts
<1>5. ChainRow(Restored(c, q, seed))
  BY DEF ChainRow, Restored, Reset, Quiz
<1> QED
  BY <1>1, <1>2, <1>3, <1>4, <1>5

LEMMA NoRowChain ==
  ASSUME NEW status
  PROVE  ChainRow(NoRow(status))
BY DEF ChainRow, NoRow, NewQuiz

LEMMA ChainStep == TypeOK /\ AllChainRows /\ [Next]_vars => AllChainRows'
<1> SUFFICES ASSUME TypeOK, AllChainRows, [Next]_vars PROVE AllChainRows'
  OBVIOUS
<1>0. /\ quizzes \in [QuizIds -> Quiz]
      /\ \A q \in QuizIds : quizzes[q] \in Quiz /\ ChainRow(quizzes[q])
  BY DEF TypeOK, AllChainRows
<1>1. ASSUME NEW q \in QuizIds, NEW a, NEW s, NEW i \in Questions,
             NEW g \in Grades, Grade(q, a, s, i, g)
      PROVE  AllChainRows'
  <2>1. ChainRow(Regraded(quizzes[q], i, g))
    BY <1>0 DEF ChainRow, Regraded, Quiz
  <2> QED
    BY <1>0, <1>1, <2>1 DEF Grade, AllChainRows
<1>2. ASSUME NEW q \in QuizIds, NEW a, NEW s, NEW p \in CursorRequests,
             MoveCursor(q, a, s, p)
      PROVE  AllChainRows'
  BY <1>0, <1>2 DEF MoveCursor, AllChainRows, ChainRow, Quiz
<1>3. ASSUME NEW q \in QuizIds, NEW a, NEW s, NEW seed \in Seeds,
             NEW new \in QuizIds, Finish(q, a, s, seed, new)
      PROVE  AllChainRows'
  <2>1. CASE Complete(q, seed)
    BY <1>0, <2>1, RuleChains DEF Complete, AllChainRows
  <2>2. CASE Reshuffle(q, seed)
    BY <1>0, <2>2, RuleChains DEF Reshuffle, AllChainRows
  <2>3. CASE Descend(q, seed, new)
    BY <1>0, <2>3, RuleChains DEF Descend, AllChainRows
  <2>4. CASE PutAway(q, seed, new)
    <3>1. ChainRow([quizzes[q] EXCEPT !.status = "cleared"])
      BY <1>0 DEF ChainRow, Quiz
    <3>2. ChainRow(Replacement(cascade, quizzes[q], q, seed))
      BY <1>0, RuleChains
    <3> QED
      BY <1>0, <2>4, <3>1, <3>2 DEF PutAway, AllChainRows
  <2> QED
    BY <1>3, <2>1, <2>2, <2>3, <2>4 DEF Finish
<1>4. ASSUME NEW q \in QuizIds, NEW a, NEW s, NEW seed \in Seeds,
             NEW new \in QuizIds, NEW e \in Positions(Questions),
             FinishSegment(q, a, s, e, seed, new)
      PROVE  AllChainRows'
  <2>1. ChainRow([quizzes[q] EXCEPT !.cursor = e, !.run_start = e])
    BY <1>0 DEF ChainRow, Quiz
  <2>2. ChainRow(Drill(cascade, quizzes[q], q, e, seed))
    BY <1>0, RuleChains
  <2> QED
    BY <1>0, <1>4, <2>1, <2>2 DEF FinishSegment, AllChainRows
<1>5. ASSUME NEW q \in QuizIds, NEW seed \in Seeds, RestoreQuiz(q, seed)
      PROVE  AllChainRows'
  BY <1>0, <1>5, RuleChains DEF RestoreQuiz, AllChainRows
<1>6. ASSUME NEW q \in QuizIds, PurgeQuiz(q) PROVE AllChainRows'
  <2>1. \A x \in QuizIds : ChainRow([quizzes[x] EXCEPT !.parent = NoQuiz])
    BY <1>0 DEF ChainRow, Quiz
  <2> QED
    BY <1>0, <1>6, <2>1, NoRowChain DEF PurgeQuiz, AllChainRows
<1>7. CASE TrashCascade \/ RestoreCascade
  BY <1>0, <1>7 DEF TrashCascade, RestoreCascade, AllChainRows
<1>9. CASE PurgeCascade
  BY <1>0, <1>9, NoRowChain DEF PurgeCascade, AllChainRows
<1>10. ASSUME NEW o \in Opts, NEW f, SetCascadeOptions(o, f) PROVE AllChainRows'
  BY <1>0, <1>10 DEF SetCascadeOptions, AllChainRows
<1>11. ASSUME NEW q \in QuizIds, NEW o \in Opts, NEW f \in OptionRequests,
              SetQuizOptions(q, o, f)
       PROVE  AllChainRows'
  <2> DEFINE m == Merge(quizzes[q].opts, o, f)
  <2>1. quizzes[q].chain => "segment_size" \notin f /\ "progression" \notin f
    BY <1>11 DEF SetQuizOptions, QuizOptionFields
  <2>2. quizzes[q].chain => m = quizzes[q].opts
    BY <1>0, <2>1 DEF Merge, ChainRow
  <2>3. quizzes' = [quizzes EXCEPT ![q] = [quizzes[q] EXCEPT !.opts = m]]
    BY <1>0, <1>11 DEF SetQuizOptions
  <2> HIDE DEF m
  <2>4. ChainRow([quizzes[q] EXCEPT !.opts = m])
    BY <1>0, <2>2 DEF ChainRow, Quiz
  <2> QED
    BY <1>0, <2>3, <2>4 DEF AllChainRows
<1>12. CASE UNCHANGED vars
  BY <1>12 DEF vars, AllChainRows
<1> QED
  BY <1>1, <1>2, <1>3, <1>4, <1>5, <1>6, <1>7, <1>9, <1>10, <1>11, <1>12 DEF Next

\* No restore, replacement or option change gives a segment chain segments or
\* the Ladder, which the table's check would refuse.
THEOREM ChainsCorrect == Spec => []ChainsStayDrill
<1>1. Init => AllChainRows
  <2> SUFFICES ASSUME Init PROVE AllChainRows
    OBVIOUS
  <2>1. \A o, s : ChainRow(NewQuiz(1, "source", NoQuiz, 0, FALSE, o, Questions, s, 0))
    BY DEF ChainRow, NewQuiz
  <2>2. PICK o, s : quizzes = [id \in QuizIds |->
               IF id = Source
               THEN NewQuiz(1, "source", NoQuiz, 0, FALSE, o, Questions, s, 0)
               ELSE NoRow("absent")]
    BY DEF Init
  <2>3. ChainRow(NoRow("absent"))
    BY NoRowChain
  <2> QED
    BY <2>1, <2>2, <2>3 DEF AllChainRows
<1>2. TypeOK /\ TypeOK' /\ AllChainRows /\ [Next]_vars => AllChainRows'
  BY ChainStep
<1>3. AllChainRows => ChainsStayDrill
  BY DEF AllChainRows, ChainRow, ChainsStayDrill, Rows, NewQuizOpts
<1> QED
  BY <1>1, <1>2, <1>3, TypeCorrect, PTL DEF Spec

-----------------------------------------------------------------------------
(* Every attempt is recorded once.  AttemptsRecordedOnce gives, for each    *)
(* quiz, the set of its records' attempts; the invariant proved inductive  *)
(* says the same number by number, and that attempts count from 1.         *)

Recorded(q, n) == \E t \in attempts : t.quiz = q /\ t.attempt = n

LastRecorded(q) ==
  IF quizzes[q].status = "active" THEN quizzes[q].attempt - 1
  ELSE quizzes[q].attempt

RecordsInv ==
  /\ \A t, u \in attempts : t.quiz = u.quiz /\ t.attempt = u.attempt => t = u
  /\ \A q \in Rows :
       /\ quizzes[q].attempt >= 1
       /\ \A n \in Nat : Recorded(q, n) <=> n \in 1 .. LastRecorded(q)
  /\ \A t \in attempts :
       t.quiz \in Rows /\ t.correct + t.missed = Count(quizzes[t.quiz])

LEMMA RecordsImply == TypeOK /\ RecordsInv => AttemptsRecordedOnce
<1> SUFFICES ASSUME TypeOK, RecordsInv PROVE AttemptsRecordedOnce
  OBVIOUS
<1>1. ASSUME NEW q \in Rows
      PROVE  {t.attempt : t \in {u \in attempts : u.quiz = q}} = 1 .. LastRecorded(q)
  <2>1. \A t \in attempts : t.attempt \in Nat
    BY DEF TypeOK, Attempt
  <2>2. LastRecorded(q) \in Int
    BY DEF TypeOK, Quiz, LastRecorded, Rows
  <2>3. \A n \in Nat : Recorded(q, n) <=> n \in 1 .. LastRecorded(q)
    BY <1>1 DEF RecordsInv
  <2>4. ASSUME NEW n \in {t.attempt : t \in {u \in attempts : u.quiz = q}}
        PROVE  n \in 1 .. LastRecorded(q)
    BY <2>1, <2>3 DEF Recorded
  <2>5. ASSUME NEW n \in 1 .. LastRecorded(q)
        PROVE  n \in {t.attempt : t \in {u \in attempts : u.quiz = q}}
    <3>1. n \in Nat
      BY <2>2
    <3> QED
      BY <3>1, <2>3 DEF Recorded
  <2> QED
    BY <2>4, <2>5
<1> QED
  BY <1>1 DEF RecordsInv, AttemptsRecordedOnce, LastRecorded

\* What an operation does to a row it records nothing of: it keeps it, or
\* inserts it.
Kept(q) ==
  /\ q \in Rows
  /\ LastRecorded(q)' = LastRecorded(q)
  /\ quizzes'[q].attempt >= 1
  /\ quizzes'[q].questions = quizzes[q].questions

Inserted(q) ==
  /\ q \notin Rows
  /\ quizzes'[q].status = "active"
  /\ quizzes'[q].attempt = 1

LEMMA NothingRecorded ==
  ASSUME TypeOK, RecordsInv, attempts' = attempts, Rows \subseteq Rows',
         \A q \in Rows' : Kept(q) \/ Inserted(q)
  PROVE  RecordsInv'
<1>1. \A q, n : Recorded(q, n)' <=> Recorded(q, n)
  BY DEF Recorded
<1>2. ASSUME NEW q \in Rows'
      PROVE  /\ quizzes'[q].attempt >= 1
             /\ \A n \in Nat : Recorded(q, n)' <=> n \in 1 .. LastRecorded(q)'
  <2>1. CASE Kept(q)
    BY <1>1, <2>1 DEF Kept, RecordsInv
  <2>2. CASE Inserted(q)
    <3>1. LastRecorded(q)' = 0
      BY <2>2 DEF Inserted, LastRecorded
    <3>2. \A n : ~Recorded(q, n)
      BY <2>2 DEF Inserted, Recorded, RecordsInv
    <3> QED
      BY <1>1, <2>2, <3>1, <3>2 DEF Inserted
  <2> QED
    BY <2>1, <2>2
<1>3. ASSUME NEW t \in attempts
      PROVE  t.quiz \in Rows' /\ t.correct + t.missed = Count(quizzes'[t.quiz])
  <2>1. t.quiz \in Rows /\ t.correct + t.missed = Count(quizzes[t.quiz])
    BY DEF RecordsInv
  <2>2. Kept(t.quiz)
    BY <2>1 DEF Inserted
  <2> QED
    BY <2>1, <2>2 DEF Kept, Count
<1> QED
  BY <1>2, <1>3 DEF RecordsInv

LEMMA OneRecorded ==
  ASSUME TypeOK, RecordsInv, NEW q \in QuizIds, NEW outcome,
         RecordAttempt(q, outcome), quizzes[q].status = "active",
         quizzes[q].correct + quizzes[q].missed = Count(quizzes[q]),
         Rows \subseteq Rows',
         LastRecorded(q)' = quizzes[q].attempt,
         quizzes'[q].attempt >= 1,
         quizzes'[q].questions = quizzes[q].questions,
         \A r \in Rows' \ {q} : Kept(r) \/ Inserted(r)
  PROVE  RecordsInv'
<1> DEFINE rec == [quiz |-> q, attempt |-> quizzes[q].attempt,
                   correct |-> quizzes[q].correct, missed |-> quizzes[q].missed,
                   outcome |-> outcome]
           m == quizzes[q].attempt
<1>1. /\ attempts' = attempts \cup {rec}
      /\ rec.quiz = q /\ rec.attempt = m
      /\ rec.correct + rec.missed = Count(quizzes[q])
  BY DEF RecordAttempt
<1> HIDE DEF rec
<1>2. q \in Rows /\ m \in Nat /\ m >= 1 /\ LastRecorded(q) = m - 1
  <2>1. q \in Rows
    BY DEF Rows
  <2> QED
    BY <2>1 DEF RecordsInv, TypeOK, Quiz, LastRecorded
<1>3. ~Recorded(q, m)
  BY <1>2 DEF RecordsInv
<1>4. \A r, n : Recorded(r, n)' <=> Recorded(r, n) \/ (r = q /\ n = m)
  BY <1>1 DEF Recorded
<1>5. \A t, u \in attempts' : t.quiz = u.quiz /\ t.attempt = u.attempt => t = u
  <2>1. \A t \in attempts : ~(t.quiz = q /\ t.attempt = m)
    BY <1>3 DEF Recorded
  <2> QED
    BY <1>1, <2>1 DEF RecordsInv
<1>6. ASSUME NEW r \in Rows'
      PROVE  /\ quizzes'[r].attempt >= 1
             /\ \A n \in Nat : Recorded(r, n)' <=> n \in 1 .. LastRecorded(r)'
  <2>1. CASE r = q
    <3>1. \A n \in Nat : Recorded(q, n) <=> n \in 1 .. m - 1
      BY <1>2 DEF RecordsInv
    <3>2. \A n \in Nat : Recorded(q, n)' <=> n \in 1 .. m
      BY <1>2, <1>4, <3>1
    <3> QED
      BY <2>1, <3>2
  <2>2. CASE r # q /\ Kept(r)
    BY <1>4, <2>2 DEF Kept, RecordsInv
  <2>3. CASE r # q /\ Inserted(r)
    <3>1. LastRecorded(r)' = 0
      BY <2>3 DEF Inserted, LastRecorded
    <3>2. \A n : ~Recorded(r, n)'
      BY <1>4, <2>3 DEF Inserted, Recorded, RecordsInv
    <3> QED
      BY <2>3, <3>1, <3>2 DEF Inserted
  <2> QED
    BY <2>1, <2>2, <2>3
<1>7. ASSUME NEW t \in attempts'
      PROVE  t.quiz \in Rows' /\ t.correct + t.missed = Count(quizzes'[t.quiz])
  <2>1. t.quiz \in Rows /\ t.correct + t.missed = Count(quizzes[t.quiz])
    BY <1>1, <1>2 DEF RecordsInv
  <2>2. quizzes'[t.quiz].questions = quizzes[t.quiz].questions
    BY <2>1 DEF Kept, Inserted
  <2> QED
    BY <2>1, <2>2 DEF Count
<1> QED
  BY <1>5, <1>6, <1>7 DEF RecordsInv

\* The rules' part in it: a reset and a restore begin the next attempt of the
\* same questions, and a created quiz begins its first.
LEMMA ResetAttempt ==
  ASSUME NEW q \in Quiz, NEW seed
  PROVE  /\ Reset(q, seed).attempt = q.attempt + 1
         /\ Reset(q, seed).status = q.status
         /\ Reset(q, seed).questions = q.questions
BY DEF Reset, Quiz

LEMMA RestoredAttempt ==
  ASSUME NEW c, NEW q \in Quiz, NEW seed
  PROVE  /\ Restored(c, q, seed).attempt = q.attempt + 1
         /\ Restored(c, q, seed).status = "active"
         /\ Restored(c, q, seed).questions = q.questions
BY DEF Restored, Reset, Quiz

LEMMA CreatedAttempt ==
  ASSUME NEW c, NEW q, NEW id, NEW seed
  PROVE  /\ Descent(c, q, id, seed).attempt = 1
         /\ Descent(c, q, id, seed).status = "active"
         /\ Replacement(c, q, id, seed).attempt = 1
         /\ Replacement(c, q, id, seed).status = "active"
BY DEF Descent, Replacement, NewQuiz

LEMMA DrillAttempt ==
  ASSUME NEW c, NEW q, NEW id, NEW e, NEW seed
  PROVE  /\ Drill(c, q, id, e, seed).attempt = 1
         /\ Drill(c, q, id, e, seed).status = "active"
BY DEF Drill, NewQuiz

\* A row an operation does not touch, and one it touches elsewhere.
LEMMA SameIsKept ==
  ASSUME RecordsInv, NEW q \in Rows,
         quizzes'[q].status = quizzes[q].status,
         quizzes'[q].attempt = quizzes[q].attempt,
         quizzes'[q].questions = quizzes[q].questions
  PROVE  Kept(q) /\ q \in Rows'
<1>1. quizzes[q].attempt >= 1
  BY DEF RecordsInv
<1> QED
  BY <1>1 DEF Kept, LastRecorded, Rows

LEMMA FinishRecords ==
  ASSUME TypeOK, RecordsInv, NEW q \in QuizIds, NEW a, NEW s,
         NEW seed \in Seeds, NEW new \in QuizIds, Finish(q, a, s, seed, new)
  PROVE  RecordsInv'
<1>0. /\ quizzes \in [QuizIds -> Quiz] /\ quizzes[q] \in Quiz
      /\ quizzes[q].status = "active" /\ quizzes[new].status = "absent"
      /\ quizzes[q].correct + quizzes[q].missed = Count(quizzes[q])
      /\ new # q /\ q \in Rows /\ new \notin Rows
  BY DEF TypeOK, Finish, FinishChecks, Live, IdFree, Rows
<1>1. quizzes[q].attempt \in Nat /\ quizzes[q].attempt >= 1
  BY <1>0 DEF Quiz, RecordsInv
<1>2. ASSUME NEW r \in QuizIds \ {q}, quizzes'[r] = quizzes[r]
      PROVE  /\ r \in Rows => Kept(r)
             /\ r \in Rows <=> r \in Rows'
  BY <1>2, SameIsKept DEF Rows
<1>3. ASSUME quizzes'[q] = Reset(quizzes[q], ResetSeed[seed])
      PROVE  /\ q \in Rows' /\ LastRecorded(q)' = quizzes[q].attempt
             /\ quizzes'[q].attempt >= 1
             /\ quizzes'[q].questions = quizzes[q].questions
  <2>1. /\ quizzes'[q].attempt = quizzes[q].attempt + 1
        /\ quizzes'[q].status = "active"
        /\ quizzes'[q].questions = quizzes[q].questions
    BY <1>0, <1>3, ResetAttempt
  <2> QED
    BY <1>1, <2>1 DEF Rows, LastRecorded
<1>4. CASE Complete(q, seed) \/ Reshuffle(q, seed)
  <2>1. PICK outcome : RecordAttempt(q, outcome)
    BY <1>4 DEF Complete, Reshuffle
  <2>2. /\ quizzes'[q] = Reset(quizzes[q], ResetSeed[seed])
        /\ \A r \in QuizIds \ {q} : quizzes'[r] = quizzes[r]
    BY <1>0, <1>4 DEF Complete, Reshuffle
  <2>3. Rows \subseteq Rows' /\ \A r \in Rows' \ {q} : Kept(r)
    BY <1>2, <1>3, <2>2 DEF Rows
  <2> QED
    BY <1>0, <1>3, <2>1, <2>2, <2>3, OneRecorded
<1>5. CASE Descend(q, seed, new)
  <2>1. RecordAttempt(q, "descended")
    BY <1>5 DEF Descend
  <2>2. /\ quizzes'[q] = Reset(quizzes[q], ResetSeed[seed])
        /\ quizzes'[new] = Descent(cascade, quizzes[q], q, seed)
        /\ \A r \in QuizIds \ {q, new} : quizzes'[r] = quizzes[r]
    BY <1>0, <1>5 DEF Descend
  <2>3. Inserted(new)
    BY <1>0, <2>2, CreatedAttempt DEF Inserted
  <2>4. Rows \subseteq Rows' /\ \A r \in Rows' \ {q} : Kept(r) \/ Inserted(r)
    BY <1>0, <1>2, <1>3, <2>2, <2>3 DEF Rows
  <2> QED
    BY <1>0, <1>3, <2>1, <2>2, <2>4, OneRecorded
<1>6. CASE PutAway(q, seed, new)
  <2>1. PICK outcome : RecordAttempt(q, outcome)
    BY <1>6 DEF PutAway
  <2>2. quizzes'[q] = [quizzes[q] EXCEPT !.status = "cleared"]
    BY <1>0, <1>6 DEF PutAway
  <2>3. /\ q \in Rows' /\ LastRecorded(q)' = quizzes[q].attempt
        /\ quizzes'[q].attempt >= 1
        /\ quizzes'[q].questions = quizzes[q].questions
    BY <1>0, <1>1, <2>2 DEF Rows, LastRecorded, Quiz
  <2>4. CASE Misses(quizzes[q]) = {}
    <3>1. \A r \in QuizIds \ {q} : quizzes'[r] = quizzes[r]
      BY <1>0, <1>6, <2>4 DEF PutAway
    <3>2. Rows \subseteq Rows' /\ \A r \in Rows' \ {q} : Kept(r)
      BY <1>2, <2>3, <3>1 DEF Rows
    <3> QED
      BY <1>0, <2>1, <2>3, <3>2, OneRecorded
  <2>5. CASE Misses(quizzes[q]) # {}
    <3>1. /\ quizzes'[new] = Replacement(cascade, quizzes[q], q, seed)
          /\ \A r \in QuizIds \ {q, new} : quizzes'[r] = quizzes[r]
      BY <1>0, <1>6, <2>5 DEF PutAway
    <3>2. Inserted(new)
      BY <1>0, <3>1, CreatedAttempt DEF Inserted
    <3>3. Rows \subseteq Rows' /\ \A r \in Rows' \ {q} : Kept(r) \/ Inserted(r)
      BY <1>0, <1>2, <2>3, <3>1, <3>2 DEF Rows
    <3> QED
      BY <1>0, <2>1, <2>3, <3>3, OneRecorded
  <2> QED
    BY <2>4, <2>5
<1> QED
  BY <1>4, <1>5, <1>6 DEF Finish

LEMMA RecordsStep == TypeOK /\ RecordsInv /\ [Next]_vars => RecordsInv'
<1> SUFFICES ASSUME TypeOK, RecordsInv, [Next]_vars PROVE RecordsInv'
  OBVIOUS
<1>0. quizzes \in [QuizIds -> Quiz] /\ \A q \in QuizIds : quizzes[q] \in Quiz
  BY DEF TypeOK
\* An operation that leaves every row its status, attempt and questions.
<1>a. ASSUME attempts' = attempts,
             \A q \in QuizIds : /\ quizzes'[q].status = quizzes[q].status
                               /\ quizzes'[q].attempt = quizzes[q].attempt
                               /\ quizzes'[q].questions = quizzes[q].questions
      PROVE  RecordsInv'
  <2>1. Rows' = Rows
    BY <1>a DEF Rows
  <2>2. \A q \in Rows : Kept(q)
    BY <1>a, SameIsKept DEF Rows
  <2> QED
    BY <1>a, <2>1, <2>2, NothingRecorded
<1>1. ASSUME NEW q \in QuizIds, NEW a, NEW s, NEW i \in Questions,
             NEW g \in Grades, Grade(q, a, s, i, g)
      PROVE  RecordsInv'
  BY <1>0, <1>a, <1>1 DEF Grade, Regraded, Quiz
<1>2. ASSUME NEW q \in QuizIds, NEW a, NEW s, NEW p \in CursorRequests,
             MoveCursor(q, a, s, p)
      PROVE  RecordsInv'
  BY <1>0, <1>a, <1>2 DEF MoveCursor, Quiz
<1>3. ASSUME NEW q \in QuizIds, NEW a, NEW s, NEW seed \in Seeds,
             NEW new \in QuizIds, Finish(q, a, s, seed, new)
      PROVE  RecordsInv'
  BY <1>3, FinishRecords
<1>4. ASSUME NEW q \in QuizIds, NEW a, NEW s, NEW seed \in Seeds,
             NEW new \in QuizIds, NEW e \in Positions(Questions),
             FinishSegment(q, a, s, e, seed, new)
      PROVE  RecordsInv'
  <2> DEFINE moved == [quizzes[q] EXCEPT !.cursor = e, !.run_start = e]
  <2>1. /\ moved.status = quizzes[q].status /\ moved.attempt = quizzes[q].attempt
        /\ moved.questions = quizzes[q].questions
    BY <1>0 DEF Quiz
  <2>2. quizzes[new].status = "absent" /\ quizzes[q].status = "active"
        /\ new # q /\ attempts' = attempts
    BY <1>4 DEF FinishSegment, SegmentChecks, IdFree, Live
  <2> HIDE DEF moved
  <2>3. CASE RunMisses(quizzes[q], e) = {}
    <3>1. quizzes' = [quizzes EXCEPT ![q] = moved]
      BY <1>4, <2>3 DEF FinishSegment, moved
    <3> QED
      BY <1>0, <1>a, <2>1, <2>2, <3>1
  <2>4. CASE RunMisses(quizzes[q], e) # {}
    <3>1. quizzes' = [quizzes EXCEPT ![q] = moved,
                                     ![new] = Drill(cascade, quizzes[q], q, e, seed)]
      BY <1>4, <2>4 DEF FinishSegment, moved
    <3>2. /\ quizzes'[new] = Drill(cascade, quizzes[q], q, e, seed)
          /\ quizzes'[q] = moved
          /\ \A r \in QuizIds \ {q, new} : quizzes'[r] = quizzes[r]
      BY <1>0, <2>2, <3>1
    <3>3. Inserted(new)
      BY <2>2, <3>2, DrillAttempt DEF Inserted, Rows
    <3>4. \A r \in Rows : Kept(r) /\ r \in Rows'
      BY <2>1, <2>2, <3>2, SameIsKept DEF Rows
    <3>5. \A r \in Rows' : r \in Rows \/ r = new
      BY <2>1, <3>2 DEF Rows
    <3> QED
      BY <2>2, <3>3, <3>4, <3>5, NothingRecorded
  <2> QED
    BY <2>3, <2>4
<1>5. ASSUME NEW q \in QuizIds, NEW seed \in Seeds, RestoreQuiz(q, seed)
      PROVE  RecordsInv'
  <2>1. /\ quizzes'[q] = Restored(cascade, quizzes[q], seed)
        /\ quizzes[q].status = "cleared" /\ attempts' = attempts
        /\ \A r \in QuizIds \ {q} : quizzes'[r] = quizzes[r]
    BY <1>0, <1>5 DEF RestoreQuiz
  <2>2. /\ quizzes'[q].attempt = quizzes[q].attempt + 1
        /\ quizzes'[q].status = "active"
        /\ quizzes'[q].questions = quizzes[q].questions
    BY <1>0, <2>1, RestoredAttempt
  <2>3. q \in Rows /\ quizzes[q].attempt \in Nat /\ quizzes[q].attempt >= 1
    BY <1>0, <2>1 DEF Rows, RecordsInv, Quiz
  <2>4. Kept(q)
    BY <2>1, <2>2, <2>3 DEF Kept, LastRecorded
  <2>5. \A r \in Rows : Kept(r)
    BY <2>1, <2>4, SameIsKept DEF Rows
  <2>6. Rows' = Rows
    BY <2>1, <2>2 DEF Rows
  <2> QED
    BY <2>1, <2>5, <2>6, NothingRecorded
<1>6. ASSUME NEW q \in QuizIds, PurgeQuiz(q) PROVE RecordsInv'
  <2>1. /\ quizzes'[q].status = "purged"
        /\ \A r \in QuizIds \ {q} : /\ quizzes'[r].status = quizzes[r].status
                                   /\ quizzes'[r].attempt = quizzes[r].attempt
                                   /\ quizzes'[r].questions = quizzes[r].questions
    BY <1>0, <1>6 DEF PurgeQuiz, NoRow, NewQuiz, Quiz
  <2>2. Rows' = Rows \ {q}
    BY <2>1 DEF Rows
  <2>3. attempts' = {t \in attempts : t.quiz # q}
    BY <1>6 DEF PurgeQuiz
  <2>4. \A r \in Rows' : r # q /\ LastRecorded(r)' = LastRecorded(r)
    BY <2>1, <2>2 DEF LastRecorded, Rows
  <2>5. \A r \in Rows' : \A n : Recorded(r, n)' <=> Recorded(r, n)
    BY <2>2, <2>3 DEF Recorded
  <2>6. \A t \in attempts' : t.quiz \in Rows' /\ t.correct + t.missed = Count(quizzes'[t.quiz])
    BY <2>1, <2>2, <2>3 DEF RecordsInv, Count, Rows
  <2>7. \A r \in Rows' : /\ quizzes'[r].attempt >= 1
                         /\ \A n \in Nat : Recorded(r, n)' <=> n \in 1 .. LastRecorded(r)'
    BY <2>1, <2>2, <2>4, <2>5 DEF RecordsInv, Rows
  <2> QED
    BY <2>3, <2>6, <2>7 DEF RecordsInv
<1>7. CASE TrashCascade \/ RestoreCascade
  BY <1>a, <1>7 DEF TrashCascade, RestoreCascade
<1>9. CASE PurgeCascade
  <2>1. \A q \in QuizIds : quizzes'[q].status \in {"absent", "purged"}
    BY <1>0, <1>9 DEF PurgeCascade, IdFree, NoRow, NewQuiz
  <2> QED
    BY <1>9, <2>1 DEF PurgeCascade, RecordsInv, Rows
<1>10. ASSUME NEW o \in Opts, NEW f, SetCascadeOptions(o, f) PROVE RecordsInv'
  BY <1>a, <1>10 DEF SetCascadeOptions
<1>11. ASSUME NEW q \in QuizIds, NEW o \in Opts, NEW f, SetQuizOptions(q, o, f)
       PROVE  RecordsInv'
  <2> DEFINE m == Merge(quizzes[q].opts, o, f)
  <2>1. quizzes' = [quizzes EXCEPT ![q] = [quizzes[q] EXCEPT !.opts = m]]
        /\ attempts' = attempts
    BY <1>0, <1>11 DEF SetQuizOptions
  <2> HIDE DEF m
  <2> QED
    BY <1>0, <1>a, <2>1 DEF Quiz
<1>12. CASE UNCHANGED vars
  BY <1>a, <1>12 DEF vars
<1> QED
  BY <1>1, <1>2, <1>3, <1>4, <1>5, <1>6, <1>7, <1>9, <1>10, <1>11, <1>12 DEF Next

\* No finish ever meets a record of its attempt, however often a quiz is put
\* away and restored, and no attempt is left out of the history.
THEOREM RecordsCorrect == Spec => []AttemptsRecordedOnce
<1>1. Init => RecordsInv
  <2> SUFFICES ASSUME Init PROVE RecordsInv
    OBVIOUS
  <2>1. PICK o, s : quizzes = [id \in QuizIds |->
               IF id = Source
               THEN NewQuiz(1, "source", NoQuiz, 0, FALSE, o, Questions, s, 0)
               ELSE NoRow("absent")]
    BY DEF Init
  <2>2. NoRow("absent").status = "absent"
    BY DEF NoRow, NewQuiz
  <2>3. \A q \in Rows : quizzes[q].attempt = 1 /\ LastRecorded(q) = 0
    BY <2>1, <2>2 DEF Rows, LastRecorded, NewQuiz
  <2>4. attempts = {}
    BY DEF Init
  <2> QED
    BY <2>3, <2>4 DEF RecordsInv, Recorded
<1>2. TypeOK /\ TypeOK' /\ RecordsInv /\ [Next]_vars => RecordsInv'
  BY RecordsStep
<1>3. TypeOK /\ RecordsInv => AttemptsRecordedOnce
  BY RecordsImply
<1> QED
  BY <1>1, <1>2, <1>3, TypeCorrect, PTL DEF Spec

-----------------------------------------------------------------------------
(* Counters and grades                                                     *)

\* The part of CountersMatchGrades about one row, whatever its status.
Counted(r) ==
  /\ r.correct = Cardinality(GradedAs(r, "correct"))
  /\ r.missed = Cardinality(GradedAs(r, "missed"))

LEMMA GradedFinite ==
  ASSUME NEW r \in Quiz, NEW g
  PROVE  IsFiniteSet(GradedAs(r, g)) /\ IsFiniteSet(r.questions)
<1>1. r.questions \subseteq Questions /\ GradedAs(r, g) \subseteq Questions
  BY DEF Quiz, GradedAs
<1> QED
  BY <1>1, FS_Subset, RulesAssumption

\* A row without grades.
LEMMA NothingGraded ==
  ASSUME NEW r, r.questions \subseteq Questions, r.grades = NoGrades,
         r.correct = 0, r.missed = 0
  PROVE  Counted(r)
<1>1. GradedAs(r, "correct") = {} /\ GradedAs(r, "missed") = {}
  BY DEF GradedAs, NoGrades, Ungraded
<1> QED
  BY <1>1, FS_EmptySet DEF Counted

\* A change of something else.
LEMMA SameGrades ==
  ASSUME NEW r, NEW t, Counted(r), t.questions = r.questions, t.grades = r.grades,
         t.correct = r.correct, t.missed = r.missed
  PROVE  Counted(t)
BY DEF Counted, GradedAs

\* A regrade moves one question from one count to the other, or from none.
LEMMA RegradedCounted ==
  ASSUME NEW r \in Quiz, NEW i \in r.questions, NEW g \in Grades, Counted(r)
  PROVE  Counted(Regraded(r, i, g))
<1> DEFINE t == Regraded(r, i, g)
           d(h) == (IF g = h THEN 1 ELSE 0) - (IF r.grades[i] = h THEN 1 ELSE 0)
<1>1. /\ t.questions = r.questions
      /\ t.grades = [r.grades EXCEPT ![i] = g]
      /\ t.correct = r.correct + d("correct")
      /\ t.missed = r.missed + d("missed")
  BY DEF Regraded, Quiz
<1>2. i \in Questions /\ r.grades \in [Questions -> Grades \cup {Ungraded}]
  BY DEF Quiz
<1> HIDE DEF t
<1>3. ASSUME NEW h \in Grades
      PROVE  Cardinality(GradedAs(t, h)) = Cardinality(GradedAs(r, h)) + d(h)
  <2>1. /\ IsFiniteSet(GradedAs(r, h))
        /\ Cardinality(GradedAs(r, h)) \in Nat
    BY GradedFinite, FS_CardinalityType
  <2>2. i \in GradedAs(r, h) <=> r.grades[i] = h
    BY DEF GradedAs
  <2>3. CASE g = h
    <3>1. GradedAs(t, h) = GradedAs(r, h) \cup {i}
      BY <1>1, <1>2, <2>3 DEF GradedAs, Quiz
    <3>2. d(h) = IF r.grades[i] = h THEN 0 ELSE 1
      BY <2>3
    <3>3. Cardinality(GradedAs(r, h) \cup {i})
            = IF i \in GradedAs(r, h) THEN Cardinality(GradedAs(r, h))
              ELSE Cardinality(GradedAs(r, h)) + 1
      BY <2>1, FS_AddElement
    <3> HIDE DEF d
    <3> QED
      BY <2>1, <2>2, <3>1, <3>2, <3>3
  <2>4. CASE g # h
    <3>1. GradedAs(t, h) = GradedAs(r, h) \ {i}
      BY <1>1, <1>2, <2>4 DEF GradedAs, Quiz
    <3>2. d(h) = IF r.grades[i] = h THEN -1 ELSE 0
      BY <2>4
    <3>3. Cardinality(GradedAs(r, h) \ {i})
            = IF i \in GradedAs(r, h) THEN Cardinality(GradedAs(r, h)) - 1
              ELSE Cardinality(GradedAs(r, h))
      BY <2>1, FS_RemoveElement
    <3> HIDE DEF d
    <3> QED
      BY <2>1, <2>2, <3>1, <3>2, <3>3
  <2> QED
    BY <2>3, <2>4
<1> QED
  BY <1>1, <1>3 DEF Counted, Grades, t

-----------------------------------------------------------------------------
(* The Source quiz has every question until the cascade is purged.         *)

OfSource(r) == r.status # "absent" /\ (r.status # "purged" => r.questions = Questions)

GradesInv ==
  /\ \A q \in QuizIds : Counted(quizzes[q])
  /\ OfSource(quizzes[Source])

\* What the rules make of a row.
LEMMA RuleGrades ==
  ASSUME NEW c, NEW q \in Quiz, NEW id, NEW e, NEW seed
  PROVE  /\ Counted(Reset(q, seed)) /\ (OfSource(q) => OfSource(Reset(q, seed)))
         /\ Counted(Restored(c, q, seed))
         /\ q.status # "purged" /\ OfSource(q) => OfSource(Restored(c, q, seed))
         /\ Counted(Descent(c, q, id, seed))
         /\ Counted(Replacement(c, q, id, seed))
         /\ Counted(Drill(c, q, id, e, seed))
<1>1. q.questions \subseteq Questions
  BY DEF Quiz
<1>2. Counted(Reset(q, seed)) /\ (OfSource(q) => OfSource(Reset(q, seed)))
  <2>1. /\ Reset(q, seed).questions = q.questions /\ Reset(q, seed).grades = NoGrades
        /\ Reset(q, seed).correct = 0 /\ Reset(q, seed).missed = 0
        /\ Reset(q, seed).status = q.status
    BY DEF Reset, Quiz
  <2> QED
    BY <1>1, <2>1, NothingGraded DEF OfSource
<1>3. q.status # "purged" /\ OfSource(q) => OfSource(Restored(c, q, seed))
  BY DEF OfSource, Restored, Reset, Quiz
<1>4. Counted(Restored(c, q, seed))
  <2> DEFINE t == Restored(c, q, seed)
  <2>1. /\ t.questions = q.questions /\ t.grades = NoGrades
        /\ t.correct = 0 /\ t.missed = 0
    BY DEF Restored, Reset, Quiz
  <2> HIDE DEF t
  <2>2. Counted(t)
    BY <1>1, <2>1, NothingGraded
  <2> QED
    BY <2>2 DEF t
<1>5. Misses(q) \subseteq Questions /\ RunMisses(q, e) \subseteq Questions
  BY MissesType
<1>6. Counted(Descent(c, q, id, seed))
  <2> DEFINE t == Descent(c, q, id, seed)
  <2>1. /\ t.questions = Misses(q) /\ t.grades = NoGrades
        /\ t.correct = 0 /\ t.missed = 0
    BY DEF Descent, NewQuiz
  <2> HIDE DEF t
  <2>2. Counted(t)
    BY <1>5, <2>1, NothingGraded
  <2> QED
    BY <2>2 DEF t
<1>7. Counted(Replacement(c, q, id, seed))
  <2> DEFINE t == Replacement(c, q, id, seed)
  <2>1. /\ t.questions = Misses(q) /\ t.grades = NoGrades
        /\ t.correct = 0 /\ t.missed = 0
    BY DEF Replacement, NewQuiz
  <2> HIDE DEF t
  <2>2. Counted(t)
    BY <1>5, <2>1, NothingGraded
  <2> QED
    BY <2>2 DEF t
<1>8. Counted(Drill(c, q, id, e, seed))
  <2> DEFINE t == Drill(c, q, id, e, seed)
  <2>1. /\ t.questions = RunMisses(q, e) /\ t.grades = NoGrades
        /\ t.correct = 0 /\ t.missed = 0
    BY DEF Drill, NewQuiz
  <2> HIDE DEF t
  <2>2. Counted(t)
    BY <1>5, <2>1, NothingGraded
  <2> QED
    BY <2>2 DEF t
<1> QED
  BY <1>2, <1>3, <1>4, <1>6, <1>7, <1>8

LEMMA NoRowGrades ==
  ASSUME NEW status
  PROVE  Counted(NoRow(status)) /\ NoRow(status).status = status
<1> DEFINE t == NoRow(status)
<1>1. /\ t.questions = {} /\ t.grades = NoGrades /\ t.correct = 0 /\ t.missed = 0
      /\ t.status = status
  BY DEF NoRow, NewQuiz
<1> HIDE DEF t
<1>2. Counted(t)
  BY <1>1, NothingGraded
<1> QED
  BY <1>1, <1>2 DEF t

LEMMA InitGrades == Init => GradesInv
<1> SUFFICES ASSUME Init PROVE GradesInv
  OBVIOUS
<1> DEFINE made(o, s) == NewQuiz(1, "source", NoQuiz, 0, FALSE, o, Questions, s, 0)
<1>1. PICK o, s : quizzes = [id \in QuizIds |-> IF id = Source THEN made(o, s)
                                                ELSE NoRow("absent")]
  BY DEF Init
<1>2. /\ made(o, s).questions = Questions /\ made(o, s).grades = NoGrades
      /\ made(o, s).correct = 0 /\ made(o, s).missed = 0
      /\ made(o, s).status = "active"
  BY DEF NewQuiz
<1> HIDE DEF made
<1>3. Counted(made(o, s)) /\ OfSource(made(o, s))
  BY <1>2, NothingGraded DEF OfSource
<1> QED
  BY <1>1, <1>3, NoRowGrades, RulesAssumption DEF GradesInv

\* The quizzes of a step are those before it, rows that keep their grades, and
\* rows of the rules; the Source quiz is never one that a rule creates.
LEMMA GradesStep == TypeOK /\ GradesInv /\ [Next]_vars => GradesInv'
<1> SUFFICES ASSUME TypeOK, GradesInv, [Next]_vars PROVE GradesInv'
  OBVIOUS
<1>0. /\ quizzes \in [QuizIds -> Quiz] /\ Source \in QuizIds
      /\ \A q \in QuizIds : quizzes[q] \in Quiz /\ Counted(quizzes[q])
      /\ OfSource(quizzes[Source])
  BY RulesAssumption DEF TypeOK, GradesInv
<1>1. ASSUME NEW q \in QuizIds, NEW t, Counted(t), OfSource(quizzes[q]) => OfSource(t),
             quizzes' = [quizzes EXCEPT ![q] = t]
      PROVE  GradesInv'
  BY <1>0, <1>1 DEF GradesInv
<1>2. ASSUME NEW q \in QuizIds, NEW t, Counted(t), OfSource(quizzes[q]) => OfSource(t),
             NEW new \in QuizIds, quizzes[new].status = "absent", NEW u, Counted(u),
             quizzes' = [quizzes EXCEPT ![q] = t, ![new] = u]
      PROVE  GradesInv'
  <2>1. new # Source
    BY <1>0, <1>2 DEF OfSource
  <2> QED
    BY <1>0, <1>2, <2>1 DEF GradesInv
<1>3. ASSUME NEW q \in QuizIds, NEW t, t.questions = quizzes[q].questions,
             t.grades = quizzes[q].grades, t.correct = quizzes[q].correct,
             t.missed = quizzes[q].missed, t.status \in {quizzes[q].status, "cleared"}
      PROVE  /\ Counted(t)
             /\ quizzes[q].status # "purged" /\ OfSource(quizzes[q]) => OfSource(t)
  BY <1>0, <1>3, SameGrades DEF OfSource
<1>4. ASSUME NEW q \in QuizIds, NEW a, NEW s, NEW i \in Questions,
             NEW g \in Grades, Grade(q, a, s, i, g)
      PROVE  GradesInv'
  <2> DEFINE t == Regraded(quizzes[q], i, g)
  <2>1. i \in quizzes[q].questions /\ quizzes' = [quizzes EXCEPT ![q] = t]
    BY <1>4 DEF Grade
  <2>2. Counted(t)
    BY <1>0, <2>1, RegradedCounted
  <2>3. t.questions = quizzes[q].questions /\ t.status = quizzes[q].status
    BY <1>0 DEF Regraded, Quiz
  <2> HIDE DEF t
  <2> QED
    BY <1>1, <2>1, <2>2, <2>3 DEF OfSource
<1>5. ASSUME NEW q \in QuizIds, NEW a, NEW s, NEW p \in CursorRequests,
             MoveCursor(q, a, s, p)
      PROVE  GradesInv'
  <2> DEFINE t == [quizzes[q] EXCEPT !.cursor = p]
  <2>1. quizzes' = [quizzes EXCEPT ![q] = t] /\ quizzes[q].status = "active"
    BY <1>0, <1>5 DEF MoveCursor, Live
  <2>2. /\ t.questions = quizzes[q].questions /\ t.grades = quizzes[q].grades
        /\ t.correct = quizzes[q].correct /\ t.missed = quizzes[q].missed
        /\ t.status = quizzes[q].status
    BY <1>0 DEF Quiz
  <2> HIDE DEF t
  <2> QED
    BY <1>1, <1>3, <2>1, <2>2
<1>6. ASSUME NEW q \in QuizIds, NEW a, NEW s, NEW seed \in Seeds,
             NEW new \in QuizIds, Finish(q, a, s, seed, new)
      PROVE  GradesInv'
  <2> DEFINE away == [quizzes[q] EXCEPT !.status = "cleared"]
             again == Reset(quizzes[q], ResetSeed[seed])
  <2>1. quizzes[new].status = "absent" /\ quizzes[q].status = "active"
    BY <1>6 DEF Finish, FinishChecks, IdFree, Live
  <2>2. Counted(again) /\ (OfSource(quizzes[q]) => OfSource(again))
    BY <1>0, RuleGrades
  <2>3. Counted(away) /\ (OfSource(quizzes[q]) => OfSource(away))
    <3>1. /\ away.questions = quizzes[q].questions /\ away.grades = quizzes[q].grades
          /\ away.correct = quizzes[q].correct /\ away.missed = quizzes[q].missed
          /\ away.status = "cleared"
      BY <1>0 DEF Quiz
    <3> HIDE DEF away
    <3> QED
      BY <1>3, <2>1, <3>1
  <2>4. Counted(Descent(cascade, quizzes[q], q, seed))
    BY <1>0, RuleGrades
  <2>5. Counted(Replacement(cascade, quizzes[q], q, seed))
    BY <1>0, RuleGrades
  <2>6. CASE Complete(q, seed) \/ Reshuffle(q, seed)
    <3>1. quizzes' = [quizzes EXCEPT ![q] = again]
      BY <2>6 DEF Complete, Reshuffle
    <3> HIDE DEF again
    <3> QED
      BY <1>1, <2>2, <3>1
  <2>7. CASE Descend(q, seed, new)
    <3>1. quizzes' = [quizzes EXCEPT ![q] = again,
                                     ![new] = Descent(cascade, quizzes[q], q, seed)]
      BY <2>7 DEF Descend
    <3> HIDE DEF again
    <3> QED
      BY <1>2, <2>1, <2>2, <2>4, <3>1
  <2>8. CASE PutAway(q, seed, new)
    <3>1. \/ quizzes' = [quizzes EXCEPT ![q] = away]
          \/ quizzes' = [quizzes EXCEPT ![q] = away,
                                        ![new] = Replacement(cascade, quizzes[q], q, seed)]
      BY <2>8 DEF PutAway
    <3> HIDE DEF away
    <3> QED
      BY <1>1, <1>2, <2>1, <2>3, <2>5, <3>1
  <2> QED
    BY <1>6, <2>6, <2>7, <2>8 DEF Finish
<1>7. ASSUME NEW q \in QuizIds, NEW a, NEW s, NEW seed \in Seeds,
             NEW new \in QuizIds, NEW e \in Positions(Questions),
             FinishSegment(q, a, s, e, seed, new)
      PROVE  GradesInv'
  <2> DEFINE moved == [quizzes[q] EXCEPT !.cursor = e, !.run_start = e]
             drill == Drill(cascade, quizzes[q], q, e, seed)
  <2>1. quizzes[new].status = "absent" /\ quizzes[q].status = "active"
    BY <1>7 DEF FinishSegment, SegmentChecks, IdFree, Live
  <2>2. /\ moved.questions = quizzes[q].questions /\ moved.grades = quizzes[q].grades
        /\ moved.correct = quizzes[q].correct /\ moved.missed = quizzes[q].missed
        /\ moved.status = quizzes[q].status
    BY <1>0 DEF Quiz
  <2>3. Counted(drill)
    BY <1>0, RuleGrades
  <2>4. \/ quizzes' = [quizzes EXCEPT ![q] = moved]
        \/ quizzes' = [quizzes EXCEPT ![q] = moved, ![new] = drill]
    BY <1>7 DEF FinishSegment
  <2> HIDE DEF moved, drill
  <2>5. Counted(moved) /\ (OfSource(quizzes[q]) => OfSource(moved))
    BY <1>3, <2>1, <2>2
  <2> QED
    BY <1>1, <1>2, <2>1, <2>3, <2>4, <2>5
<1>8. ASSUME NEW q \in QuizIds, NEW seed \in Seeds, RestoreQuiz(q, seed)
      PROVE  GradesInv'
  <2> DEFINE t == Restored(cascade, quizzes[q], seed)
  <2>1. quizzes' = [quizzes EXCEPT ![q] = t] /\ quizzes[q].status = "cleared"
    BY <1>8 DEF RestoreQuiz
  <2>2. Counted(t) /\ (OfSource(quizzes[q]) => OfSource(t))
    BY <1>0, <2>1, RuleGrades
  <2> HIDE DEF t
  <2> QED
    BY <1>1, <2>1, <2>2
<1>9. ASSUME NEW q \in QuizIds, PurgeQuiz(q) PROVE GradesInv'
  <2> DEFINE apart(x) == [quizzes[x] EXCEPT !.parent = NoQuiz]
  <2>1. ASSUME NEW x \in QuizIds
        PROVE  quizzes'[x] \in {NoRow("purged"), apart(x), quizzes[x]}
    BY <1>9 DEF PurgeQuiz
  <2>2. ASSUME NEW x \in QuizIds
        PROVE  /\ Counted(apart(x))
               /\ apart(x).status = quizzes[x].status
               /\ apart(x).questions = quizzes[x].questions
    BY <1>0, SameGrades DEF Quiz
  <2> HIDE DEF apart
  <2>3. OfSource(NoRow("purged")) /\ Counted(NoRow("purged"))
    BY NoRowGrades DEF OfSource
  <2> QED
    BY <1>0, <2>1, <2>2, <2>3 DEF GradesInv, OfSource
<1>10. CASE PurgeCascade
  <2>1. OfSource(NoRow("purged")) /\ Counted(NoRow("purged"))
    BY NoRowGrades DEF OfSource
  <2>2. \A x \in QuizIds : quizzes'[x] \in {NoRow("purged"), quizzes[x]}
    BY <1>10 DEF PurgeCascade
  <2> QED
    BY <1>0, <2>1, <2>2 DEF GradesInv
<1>11. ASSUME NEW q \in QuizIds, NEW o \in Opts, NEW f \in OptionRequests,
              SetQuizOptions(q, o, f)
       PROVE  GradesInv'
  <2> DEFINE t == [quizzes[q] EXCEPT !.opts = Merge(quizzes[q].opts, o, f)]
  <2>1. quizzes' = [quizzes EXCEPT ![q] = t] /\ quizzes[q].status = "active"
    BY <1>0, <1>11 DEF SetQuizOptions, Live
  <2>2. /\ t.questions = quizzes[q].questions /\ t.grades = quizzes[q].grades
        /\ t.correct = quizzes[q].correct /\ t.missed = quizzes[q].missed
        /\ t.status = quizzes[q].status
    BY <1>0 DEF Quiz
  <2> HIDE DEF t
  <2> QED
    BY <1>1, <1>3, <2>1, <2>2
<1>12. ASSUME UNCHANGED quizzes PROVE GradesInv'
  BY <1>0, <1>12 DEF GradesInv
<1>13. CASE TrashCascade \/ RestoreCascade \/ UNCHANGED vars
  BY <1>12, <1>13 DEF TrashCascade, RestoreCascade, vars
<1>14. ASSUME NEW o \in Opts, NEW f, SetCascadeOptions(o, f) PROVE GradesInv'
  BY <1>12, <1>14 DEF SetCascadeOptions
<1> QED
  BY <1>4, <1>5, <1>6, <1>7, <1>8, <1>9, <1>10, <1>11, <1>13, <1>14 DEF Next

\* The counters that decide whether a quiz may be finished, and how it ends, are
\* those of its graded questions, through regrades, resets and restores
\* (ops.rs grade, finish).
THEOREM CountersCorrect == Spec => []CountersMatchGrades
<1>1. TypeOK /\ TypeOK' /\ GradesInv /\ [Next]_vars => GradesInv'
  BY GradesStep
<1>2. GradesInv => CountersMatchGrades
  BY DEF GradesInv, Counted, CountersMatchGrades, Rows
<1> QED
  BY <1>1, <1>2, InitGrades, TypeCorrect, PTL DEF Spec

-----------------------------------------------------------------------------
(* What a finish leaves behind                                             *)

\* Only a finish that puts its quiz away sends a quiz to the Trash.
LEMMA OnlyPutAwayClears ==
  ASSUME TypeOK, Next, NEW x \in Active, quizzes'[x].status = "cleared"
  PROVE  \E a \in 1 .. MaxAttempt, s, seed \in Seeds, new \in QuizIds :
            FinishChecks(x, a, s, new) /\ PutAway(x, seed, new)
<1>0. /\ quizzes \in [QuizIds -> Quiz] /\ x \in QuizIds
      /\ quizzes[x].status = "active" /\ quizzes[x] \in Quiz
  BY DEF TypeOK, Active
<1>1. ASSUME NEW t, NEW q \in QuizIds, quizzes' = [quizzes EXCEPT ![q] = t],
             t.status # "cleared"
      PROVE  FALSE
  BY <1>0, <1>1
<1>2. ASSUME NEW t, NEW u, NEW q \in QuizIds, NEW new \in QuizIds,
             quizzes' = [quizzes EXCEPT ![q] = t, ![new] = u],
             t.status # "cleared", u.status = "active"
      PROVE  FALSE
  BY <1>0, <1>2
<1>3. ASSUME NEW q \in QuizIds, NEW a, NEW s, NEW i \in Questions,
             NEW g \in Grades, Grade(q, a, s, i, g)
      PROVE  FALSE
  <2>1. quizzes[q] \in Quiz /\ quizzes[q].status = "active"
    BY <1>0, <1>3 DEF Grade, Live
  <2>2. Regraded(quizzes[q], i, g).status = "active"
    BY <2>1 DEF Regraded, Quiz
  <2> QED
    BY <1>1, <1>3, <2>2 DEF Grade
<1>4. ASSUME NEW q \in QuizIds, NEW a, NEW s, NEW p \in CursorRequests,
             MoveCursor(q, a, s, p)
      PROVE  FALSE
  <2> DEFINE t == [quizzes[q] EXCEPT !.cursor = p]
  <2>1. quizzes' = [quizzes EXCEPT ![q] = t] /\ t.status = "active"
    BY <1>0, <1>4 DEF MoveCursor, Live, Quiz
  <2> HIDE DEF t
  <2> QED
    BY <1>1, <2>1
<1>5. ASSUME NEW q \in QuizIds, NEW a \in 1 .. MaxAttempt, NEW s \in Seeds, NEW seed \in Seeds,
             NEW new \in QuizIds, Finish(q, a, s, seed, new)
      PROVE  FinishChecks(x, a, s, new) /\ PutAway(x, seed, new)
  <2>1. FinishChecks(q, a, s, new) /\ quizzes[q].status = "active" /\ quizzes[q] \in Quiz
    BY <1>0, <1>5 DEF Finish, FinishChecks, Live
  <2>2. Reset(quizzes[q], ResetSeed[seed]).status = "active"
    BY <2>1, ResetLevel
  <2>3. ~Complete(q, seed) /\ ~Reshuffle(q, seed)
    BY <1>1, <2>2 DEF Complete, Reshuffle
  <2>4. ~Descend(q, seed, new)
    BY <1>2, <2>2, CreatedLevels DEF Descend
  <2>5. PutAway(q, seed, new)
    BY <1>5, <2>3, <2>4 DEF Finish
  <2>6. q = x
    BY <1>0, <2>5, CreatedLevels DEF PutAway
  <2> QED
    BY <2>1, <2>5, <2>6
<1>6. ASSUME NEW q \in QuizIds, NEW a \in 1 .. MaxAttempt, NEW s \in Seeds, NEW seed \in Seeds,
             NEW new \in QuizIds, NEW e \in Positions(Questions),
             FinishSegment(q, a, s, e, seed, new)
      PROVE  FALSE
  <2> DEFINE moved == [quizzes[q] EXCEPT !.cursor = e, !.run_start = e]
             drill == Drill(cascade, quizzes[q], q, e, seed)
  <2>1. moved.status = "active" /\ drill.status = "active"
    BY <1>0, <1>6, DrillLevel DEF FinishSegment, SegmentChecks, Live, Quiz
  <2>2. \/ quizzes' = [quizzes EXCEPT ![q] = moved]
        \/ quizzes' = [quizzes EXCEPT ![q] = moved, ![new] = drill]
    BY <1>6 DEF FinishSegment
  <2> HIDE DEF moved, drill
  <2> QED
    BY <1>1, <1>2, <2>1, <2>2
<1>7. ASSUME NEW q \in QuizIds, NEW seed \in Seeds, RestoreQuiz(q, seed)
      PROVE  FALSE
  <2> DEFINE t == Restored(cascade, quizzes[q], seed)
  <2>1. quizzes' = [quizzes EXCEPT ![q] = t] /\ t.status = "active"
    BY <1>0, <1>7 DEF RestoreQuiz, Restored, Reset, Quiz
  <2> HIDE DEF t
  <2> QED
    BY <1>1, <2>1
<1>8. ASSUME NEW q \in QuizIds, PurgeQuiz(q) PROVE FALSE
  <2>1. NoRow("purged").status = "purged"
    BY DEF NoRow, NewQuiz
  <2>2. [quizzes[x] EXCEPT !.parent = NoQuiz].status = "active"
    BY <1>0 DEF Quiz
  <2> QED
    BY <1>0, <1>8, <2>1, <2>2 DEF PurgeQuiz
<1>9. ASSUME PurgeCascade PROVE FALSE
  <2>1. NoRow("purged").status = "purged"
    BY DEF NoRow, NewQuiz
  <2> QED
    BY <1>0, <1>9, <2>1 DEF PurgeCascade
<1>10. ASSUME TrashCascade \/ RestoreCascade PROVE FALSE
  BY <1>0, <1>10 DEF TrashCascade, RestoreCascade
<1>11. ASSUME NEW o \in Opts, NEW f, SetCascadeOptions(o, f) PROVE FALSE
  BY <1>0, <1>11 DEF SetCascadeOptions
<1>12. ASSUME NEW q \in QuizIds, NEW o \in Opts, NEW f \in OptionRequests,
              SetQuizOptions(q, o, f)
       PROVE  FALSE
  <2> DEFINE t == [quizzes[q] EXCEPT !.opts = Merge(quizzes[q].opts, o, f)]
  <2>1. quizzes' = [quizzes EXCEPT ![q] = t] /\ t.status = "active"
    BY <1>0, <1>12 DEF SetQuizOptions, Live, Quiz
  <2> HIDE DEF t
  <2> QED
    BY <1>1, <2>1
<1> QED
  BY <1>3, <1>4, <1>5, <1>6, <1>7, <1>8, <1>9, <1>10, <1>11, <1>12 DEF Next

\* When a quiz goes to the Trash, what it missed is the quiz now at its level, or
\* it missed nothing and the level above is the deepest: no question that still
\* needs work leaves the cascade (rules.rs finish).
THEOREM MissesAreKept == Spec => MissesStayInPlay
<1>1. ASSUME TypeOK, Next, NEW q \in Active, quizzes'[q].status = "cleared"
      PROVE  IF Misses(quizzes[q]) = {}
             THEN cascade'.depth = quizzes[q].level - 1
             ELSE \E r \in QuizIds :
                    /\ quizzes'[r].status = "active"
                    /\ quizzes'[r].level = quizzes[q].level
                    /\ cascade'.depth = quizzes[q].level
                    /\ quizzes'[r].questions = Misses(quizzes[q])
  <2>1. PICK a \in 1 .. MaxAttempt, s \in Seeds, seed \in Seeds, new \in QuizIds :
          FinishChecks(q, a, s, new) /\ PutAway(q, seed, new)
    BY <1>1, OnlyPutAwayClears
  <2>2. /\ quizzes[q].level = cascade.depth /\ cascade \in Cascades
        /\ quizzes \in [QuizIds -> Quiz] /\ new # q
    BY <1>1, <2>1 DEF FinishChecks, Deepest, Live, IdFree, TypeOK
  <2>3. CASE Misses(quizzes[q]) = {}
    BY <2>1, <2>2, <2>3, DepthOf DEF PutAway
  <2>4. CASE Misses(quizzes[q]) # {}
    <3> DEFINE r == Replacement(cascade, quizzes[q], q, seed)
    <3>1. quizzes'[new] = r /\ cascade' = CountAttempt(cascade)
      BY <2>1, <2>2, <2>4 DEF PutAway
    <3>2. r.questions = Misses(quizzes[q])
      BY DEF Replacement, NewQuiz
    <3>3. r.status = "active" /\ r.level = quizzes[q].level
      BY CreatedLevels
    <3>4. cascade'.depth = quizzes[q].level
      BY <2>2, <3>1, DepthOf
    <3> HIDE DEF r
    <3> QED
      BY <2>4, <3>1, <3>2, <3>3, <3>4
  <2> QED
    BY <2>3, <2>4
<1>2. ASSUME TypeOK, UNCHANGED vars, NEW q \in Active PROVE quizzes'[q].status # "cleared"
  BY <1>2 DEF vars, Active
<1>3. TypeOK /\ [Next]_vars =>
        [\A q \in Active :
           quizzes'[q].status = "cleared" =>
             IF Misses(quizzes[q]) = {}
             THEN cascade'.depth = quizzes[q].level - 1
             ELSE \E r \in QuizIds :
                    /\ quizzes'[r].status = "active"
                    /\ quizzes'[r].level = quizzes[q].level
                    /\ cascade'.depth = quizzes[q].level
                    /\ quizzes'[r].questions = Misses(quizzes[q])]_vars
  BY <1>1, <1>2
<1> QED
  BY <1>3, TypeCorrect, PTL DEF Spec, MissesStayInPlay

\* Only a completion is recorded as one.
LEMMA OnlyCompleteCompletes ==
  ASSUME Next, NEW t \in attempts' \ attempts, t.outcome = "completed"
  PROVE  \E q \in QuizIds, a \in 1 .. MaxAttempt, s, seed \in Seeds, new \in QuizIds :
            /\ FinishChecks(q, a, s, new) /\ Complete(q, seed)
            /\ t.quiz = q
<1>1. PICK q \in QuizIds, a \in 1 .. MaxAttempt, s \in Seeds, seed \in Seeds,
           new \in QuizIds : Finish(q, a, s, seed, new)
  <2>1. ~(attempts' \subseteq attempts)
    OBVIOUS
  <2>2. ASSUME NEW x \in QuizIds, NEW y, NEW z, NEW i, NEW g, Grade(x, y, z, i, g)
        PROVE  FALSE
    BY <2>1, <2>2 DEF Grade
  <2>3. ASSUME NEW x \in QuizIds, NEW y, NEW z, NEW p, MoveCursor(x, y, z, p)
        PROVE  FALSE
    BY <2>1, <2>3 DEF MoveCursor
  <2>4. ASSUME NEW x \in QuizIds, NEW y, NEW z, NEW e, NEW seed \in Seeds, NEW new \in QuizIds,
               FinishSegment(x, y, z, e, seed, new)
        PROVE  FALSE
    BY <2>1, <2>4 DEF FinishSegment
  <2>5. ASSUME NEW x \in QuizIds, NEW seed \in Seeds, RestoreQuiz(x, seed)
        PROVE  FALSE
    BY <2>1, <2>5 DEF RestoreQuiz
  <2>6. ASSUME NEW x \in QuizIds, PurgeQuiz(x) PROVE FALSE
    BY <2>1, <2>6 DEF PurgeQuiz
  <2>7. ~TrashCascade /\ ~RestoreCascade /\ ~PurgeCascade
    BY <2>1 DEF TrashCascade, RestoreCascade, PurgeCascade
  <2>8. ASSUME NEW o \in Opts, NEW f \in OptionRequests,
               \/ SetCascadeOptions(o, f)
               \/ \E x \in QuizIds : SetQuizOptions(x, o, f)
        PROVE  FALSE
    BY <2>1, <2>8 DEF SetCascadeOptions, SetQuizOptions
  <2> QED
    BY <2>2, <2>3, <2>4, <2>5, <2>6, <2>7, <2>8 DEF Next
<1>2. ASSUME NEW outcome, RecordAttempt(q, outcome)
      PROVE  t.outcome = outcome /\ t.quiz = q
  BY <1>2 DEF RecordAttempt
<1>3. Complete(q, seed)
  BY <1>1, <1>2 DEF Finish, Reshuffle, Descend, PutAway
<1> QED
  BY <1>1, <1>2, <1>3 DEF Finish, Complete

\* A cascade is completed only with nothing left below its Source quiz and every
\* question correct in that attempt, whatever was graded again, restored or put
\* away before (rules.rs finish, "completed").
THEOREM CompletionsAreWhole == Spec => CompletedFromTheBottom
<1>1. ASSUME TypeOK, LevelsAreAStack, GradesInv, Next,
             NEW t \in attempts' \ attempts, t.outcome = "completed"
      PROVE  /\ Active = {Source}
             /\ t.quiz = Source
             /\ GradedAs(quizzes[Source], "correct") = Questions
  <2>1. PICK q \in QuizIds, a \in 1 .. MaxAttempt, s \in Seeds, seed \in Seeds,
             new \in QuizIds :
          FinishChecks(q, a, s, new) /\ Complete(q, seed) /\ t.quiz = q
    BY <1>1, OnlyCompleteCompletes
  <2>2. /\ cascade.status = "open" /\ quizzes[q].status = "active"
        /\ quizzes[q].level = cascade.depth /\ quizzes[q].level = 1
        /\ Misses(quizzes[q]) = {}
        /\ quizzes[q].correct + quizzes[q].missed = Count(quizzes[q])
        /\ quizzes[q] \in Quiz
    BY <1>1, <2>1 DEF FinishChecks, Live, Deepest, Complete, Completes, TypeOK
  <2>3. q = Source /\ Active = {Source}
    <3>1. q \in Active /\ Source \in Active /\ quizzes[Source].level = 1
      BY <1>1, <2>2 DEF LevelsAreAStack, Active
    <3>2. \A x \in Active : quizzes[x].level = 1
      BY <1>1, <2>2 DEF LevelsAreAStack
    <3> QED
      BY <1>1, <2>2, <3>1, <3>2 DEF LevelsAreAStack
  <2>4. quizzes[Source].questions = Questions
    BY <1>1, <2>2, <2>3 DEF GradesInv, OfSource
  <2>5. Cardinality(GradedAs(quizzes[q], "correct")) = Cardinality(quizzes[q].questions)
    <3>1. /\ quizzes[q].missed = 0
          /\ quizzes[q].correct = Cardinality(GradedAs(quizzes[q], "correct"))
      BY <1>1, <2>2, FS_EmptySet DEF GradesInv, Counted, Misses
    <3>2. quizzes[q].correct \in Int
      BY <2>2 DEF Quiz
    <3> QED
      BY <2>2, <3>1, <3>2 DEF Count
  <2>6. GradedAs(quizzes[q], "correct") = quizzes[q].questions
    <3>1. IsFiniteSet(quizzes[q].questions)
      BY <2>2, GradedFinite
    <3>2. GradedAs(quizzes[q], "correct") \in SUBSET quizzes[q].questions
      BY DEF GradedAs
    <3> QED
      BY <2>5, <3>1, <3>2, FS_Subset
  <2> QED
    BY <2>1, <2>3, <2>4, <2>6
<1>2. TypeOK /\ LevelsAreAStack /\ GradesInv /\ [Next]_vars =>
        [\A t \in attempts' \ attempts :
           t.outcome = "completed" =>
             /\ Active = {Source}
             /\ t.quiz = Source
             /\ GradedAs(quizzes[Source], "correct") = Questions]_vars
  BY <1>1 DEF vars
<1>3. TypeOK /\ TypeOK' /\ GradesInv /\ [Next]_vars => GradesInv'
  BY GradesStep
<1> QED
  BY <1>2, <1>3, InitGrades, TypeCorrect, StackCorrect, PTL DEF Spec, CompletedFromTheBottom

-----------------------------------------------------------------------------
(* What the rules make is played                                           *)

\* A quiz has finitely many questions, so that its count is a number.
LEMMA CountOf ==
  ASSUME NEW r \in Quiz
  PROVE  /\ IsFiniteSet(r.questions) /\ Count(r) \in Nat
         /\ r.questions # {} => Count(r) > 0
<1>1. IsFiniteSet(r.questions)
  BY GradedFinite
<1> QED
  BY <1>1, FS_CardinalityType, FS_EmptySet DEF Count

\* A finish that goes down has misses, and something correct besides.
LEMMA FewerMisses ==
  ASSUME NEW c \in Cascades, NEW r \in Quiz, Counted(r), r.correct + r.missed = Count(r),
         ~Reshuffles(r), ~Completes(r)
  PROVE  /\ Misses(r) # r.questions /\ Misses(r) \subseteq r.questions
         /\ Descends(c, r) => Misses(r) # {}
<1>1. r.correct # 0
  BY DEF Reshuffles
<1>2. GradedAs(r, "correct") # {}
  BY <1>1, FS_EmptySet DEF Counted
<1>3. Misses(r) # r.questions /\ Misses(r) \subseteq r.questions
  BY <1>2 DEF Misses, GradedAs
<1>4. ASSUME r.level # 1, ~Passed(c, r) PROVE Misses(r) # {}
  <2>1. c.clear_threshold \in 1 .. 100 /\ r.correct \in Int /\ r.missed \in Int
    BY RulesAssumption DEF Cascades, Quiz
  <2>2. r.correct * 100 < c.clear_threshold * Count(r)
    BY <1>4, <2>1, CountOf DEF Passed
  <2>3. r.correct < Count(r)
    BY <2>1, <2>2, CountOf
  <2>4. r.missed # 0
    BY <2>1, <2>3, CountOf
  <2> QED
    BY <2>4, FS_EmptySet DEF Counted, Misses
<1> QED
  BY <1>3, <1>4 DEF Descends, Completes

-----------------------------------------------------------------------------
(* The runs of an attempt                                                  *)

Within(x, p) == x[1] <= p /\ p < x[2]

\* The runs in R tile the positions passed, and nothing more.
Tiled(r, R) ==
  /\ 0 <= r.run_start /\ r.run_start <= r.cursor /\ r.cursor < Count(r)
  /\ \A x \in R : x[2] <= r.run_start
  /\ \A p \in 0 .. r.run_start - 1 : \E x \in R : Within(x, p)
  /\ \A p \in Nat, x, y \in R : Within(x, p) /\ Within(y, p) => x = y
  /\ \A i \in At(r, 0 .. r.run_start - 1) : r.grades[i] # Ungraded

\* A row, of whatever status, with its runs.
RowTiled(r, R) ==
  /\ r.status \in {"active", "cleared"} => r.questions # {}
  /\ r.status = "active" => Tiled(r, R)
  /\ r.status = "absent" => R = {}

TilesInv == \A q \in QuizIds : RowTiled(quizzes[q], runs[q])

\* A size that counts is a positive number.
LEMMA SegmentSize ==
  ASSUME NEW r \in Quiz, EffectiveSegmentSize(r) # 0
  PROVE  EffectiveSegmentSize(r) \in Nat \ {0}
BY RulesAssumption DEF EffectiveSegmentSize, Quiz, Opts

\* The current run ends past the cursor and within the quiz.
LEMMA RunEndBounds ==
  ASSUME NEW r \in Quiz, r.cursor \in Nat, r.cursor < Count(r)
  PROVE  /\ RunEnd(r) \in Int /\ r.cursor < RunEnd(r) /\ RunEnd(r) <= Count(r)
<1> DEFINE s == EffectiveSegmentSize(r)
           b == (r.cursor \div s + 1) * s
<1>1. Count(r) \in Nat
  BY CountOf
<1>2. CASE s = 0
  BY <1>1, <1>2 DEF RunEnd
<1>3. CASE s # 0
  <2>1. s \in Nat \ {0}
    BY <1>3, SegmentSize
  <2>2. RunEnd(r) = IF b < Count(r) THEN b ELSE Count(r)
    BY <1>3 DEF RunEnd
  <2> HIDE DEF s
  <2>3. r.cursor \div s \in Nat /\ r.cursor < b
    BY <2>1
  <2>4. b \in Int
    BY <2>1, <2>3
  <2> HIDE DEF b
  <2> QED
    BY <1>1, <2>2, <2>3, <2>4
<1> QED
  BY <1>2, <1>3

\* The indicator of a run that is tiled reads "a of b" with a <= b, twice.
LEMMA IndicatorReads ==
  ASSUME NEW r \in Quiz, NEW R, Tiled(r, R), EffectiveSegmentSize(r) # 0
  PROVE  LET i == RunIndicator(r) IN
         i.run \in 1 .. i.total /\ i.position \in 1 .. i.length
<1> DEFINE s == EffectiveSegmentSize(r)
           i == RunIndicator(r)
<1>1. /\ r.run_start \in Nat /\ r.cursor \in Nat /\ r.run_start <= r.cursor
      /\ r.cursor < Count(r) /\ Count(r) \in Nat
  BY CountOf DEF Tiled, Quiz
<1>2. s \in Nat \ {0}
  BY SegmentSize
<1>3. /\ i.run = r.run_start \div s + 1 /\ i.total = (Count(r) - 1) \div s + 1
      /\ i.position = r.cursor - r.run_start + 1 /\ i.length = RunEnd(r) - r.run_start
  BY DEF RunIndicator
<1>4. RunEnd(r) \in Int /\ r.cursor < RunEnd(r)
  BY <1>1, RunEndBounds
<1> HIDE DEF s, i
<1>5. i.position \in 1 .. i.length
  BY <1>1, <1>3, <1>4
<1>6. r.run_start \div s \in Nat /\ (Count(r) - 1) \div s \in Nat
  BY <1>1, <1>2
<1>7. r.run_start \div s <= (Count(r) - 1) \div s
  BY <1>1, <1>2
<1>8. i.run \in 1 .. i.total
  BY <1>3, <1>6, <1>7
<1> QED
  BY <1>5, <1>8 DEF i

\* A position is in one run or in none, so the counts of the property follow.
LEMMA TilesImply == TypeOK /\ TilesInv => RunsTileThePassedPart
<1> SUFFICES ASSUME TypeOK, TilesInv, NEW q \in Active
             PROVE  LET r == quizzes[q] IN
      /\ 0 <= r.run_start /\ r.run_start <= r.cursor /\ r.cursor < Count(r)
      /\ \A p \in 0 .. Count(r) - 1 :
           Cardinality({x \in runs[q] : x[1] <= p /\ p < x[2]})
             = IF p < r.run_start THEN 1 ELSE 0
      /\ \A i \in At(r, 0 .. r.run_start - 1) : r.grades[i] # Ungraded
      /\ EffectiveSegmentSize(r) # 0 =>
           LET i == RunIndicator(r) IN
           i.run \in 1 .. i.total /\ i.position \in 1 .. i.length
  BY DEF RunsTileThePassedPart
<1> DEFINE r == quizzes[q]
<1>1. r \in Quiz /\ runs[q] \subseteq Int \X Int /\ Tiled(r, runs[q])
  BY DEF TypeOK, Active, TilesInv, RowTiled
<1>2. ASSUME NEW p \in 0 .. Count(r) - 1
      PROVE  Cardinality({x \in runs[q] : x[1] <= p /\ p < x[2]})
               = IF p < r.run_start THEN 1 ELSE 0
  <2> DEFINE C == {x \in runs[q] : x[1] <= p /\ p < x[2]}
  <2>0. p \in Nat /\ r.run_start \in Int
    BY <1>1, CountOf DEF Quiz
  <2>1. CASE p < r.run_start
    <3>1. PICK x \in runs[q] : Within(x, p)
      BY <1>1, <2>0, <2>1 DEF Tiled
    <3>2. C = {x}
      BY <1>1, <2>0, <3>1 DEF Tiled, Within
    <3> QED
      BY <2>1, <3>2, FS_Singleton
  <2>2. CASE ~(p < r.run_start)
    <3>1. \A x \in runs[q] : x[2] \in Int /\ x[2] <= r.run_start
      BY <1>1 DEF Tiled
    <3>2. C = {}
      BY <2>0, <2>2, <3>1
    <3> QED
      BY <2>2, <3>2, FS_EmptySet
  <2> QED
    BY <2>1, <2>2
<1>3. EffectiveSegmentSize(r) # 0 =>
        LET i == RunIndicator(r) IN
        i.run \in 1 .. i.total /\ i.position \in 1 .. i.length
  BY <1>1, IndicatorReads
<1> QED
  BY <1>1, <1>2, <1>3 DEF Tiled

\* A quiz at the start of an attempt has passed nothing.
LEMMA StartTiled ==
  ASSUME NEW r, r.questions \subseteq Questions, r.questions # {},
         r.cursor = 0, r.run_start = 0
  PROVE  RowTiled(r, {})
<1>1. Count(r) \in Nat /\ Count(r) > 0
  <2>1. IsFiniteSet(r.questions)
    BY RulesAssumption, FS_Subset
  <2> QED
    BY <2>1, FS_CardinalityType, FS_EmptySet DEF Count
<1>2. At(r, 0 .. r.run_start - 1) = {}
  BY DEF At
<1> QED
  BY <1>1, <1>2 DEF RowTiled, Tiled

\* A row that is no longer played.
LEMMA AwayTiled ==
  ASSUME NEW r, NEW t, NEW R, NEW T, RowTiled(r, R),
         r.status \in {"active", "cleared"}, t.questions = r.questions,
         t.status = "cleared"
  PROVE  RowTiled(t, T)
BY DEF RowTiled

\* A change that leaves the run and its questions alone, and no grade missing.
LEMMA SameTiled ==
  ASSUME NEW r \in Quiz, NEW t, NEW R, RowTiled(r, R), t.status = r.status,
         t.questions = r.questions, t.seed = r.seed,
         \A i \in Questions : r.grades[i] # Ungraded => t.grades[i] # Ungraded,
         t.run_start = r.run_start, t.cursor \in Int,
         t.cursor = r.cursor \/ (t.run_start <= t.cursor /\ t.cursor < Count(r))
  PROVE  RowTiled(t, R)
<1>1. CASE r.status = "active"
  <2>1. Tiled(r, R)
    BY <1>1 DEF RowTiled
  <2>2. Count(t) = Count(r) /\ At(t, 0 .. t.run_start - 1) = At(r, 0 .. r.run_start - 1)
    BY DEF Count, At
  <2>3. At(r, 0 .. r.run_start - 1) \subseteq Questions
    <3>1. r.questions \in SUBSET Questions /\ r.seed \in Seeds
      BY DEF Quiz
    <3>2. Shuffle(r.questions, r.seed) \in [Positions(r.questions) -> r.questions]
      BY <3>1, RulesAssumption
    <3>3. 0 .. r.run_start - 1 \subseteq Positions(r.questions)
      BY <2>1, CountOf DEF Tiled, Positions, Count, Quiz
    <3> QED
      BY <3>1, <3>2, <3>3 DEF At
  <2>4. Tiled(t, R)
    BY <2>1, <2>2, <2>3 DEF Tiled
  <2> QED
    BY <1>1, <2>4 DEF RowTiled
<1>2. CASE r.status # "active"
  BY <1>2 DEF RowTiled
<1> QED
  BY <1>1, <1>2

\* A run finished at e adds the positions from its start to e.
LEMMA MovedTiled ==
  ASSUME NEW r \in Quiz, NEW R \in SUBSET (Int \X Int), r.status = "active",
         RowTiled(r, R), NEW e \in Int, r.cursor < e, e < Count(r),
         \A i \in At(r, 0 .. e - 1) : r.grades[i] # Ungraded
  PROVE  RowTiled([r EXCEPT !.cursor = e, !.run_start = e], R \cup {<<r.run_start, e>>})
<1> DEFINE t == [r EXCEPT !.cursor = e, !.run_start = e]
           z == <<r.run_start, e>>
           T == R \cup {z}
<1>1. /\ t.status = r.status /\ t.questions = r.questions /\ t.seed = r.seed
      /\ t.grades = r.grades /\ t.cursor = e /\ t.run_start = e
  BY DEF Quiz
<1>2. Tiled(r, R) /\ r.questions # {} /\ r.run_start \in Int /\ r.cursor \in Int
  BY DEF RowTiled, Quiz
<1>3. Count(t) = Count(r) /\ At(t, 0 .. e - 1) = At(r, 0 .. e - 1)
  BY <1>1 DEF Count, At
<1>4. z[1] = r.run_start /\ z[2] = e
  OBVIOUS
<1>5. 0 <= e /\ r.run_start < e
  BY <1>2 DEF Tiled
<1> HIDE DEF t, z
<1>6. \A x \in R : x[1] \in Int /\ x[2] \in Int /\ x[2] <= r.run_start
  BY <1>2 DEF Tiled
<1>7. \A x \in T : x[2] <= e
  BY <1>2, <1>4, <1>5, <1>6
<1>8. \A p \in 0 .. e - 1 : \E x \in T : Within(x, p)
  <2> SUFFICES ASSUME NEW p \in 0 .. e - 1 PROVE \E x \in T : Within(x, p)
    OBVIOUS
  <2>1. CASE p < r.run_start
    <3>1. p \in 0 .. r.run_start - 1
      BY <1>2, <2>1
    <3> QED
      BY <1>2, <3>1 DEF Tiled
  <2>2. CASE ~(p < r.run_start)
    <3>1. Within(z, p)
      BY <1>2, <1>4, <2>2 DEF Within
    <3> QED
      BY <3>1
  <2> QED
    BY <2>1, <2>2
<1>9. ASSUME NEW p \in Nat, NEW x \in T, NEW y \in T, Within(x, p), Within(y, p)
      PROVE  x = y
  <2>1. ASSUME NEW u \in R, Within(u, p) PROVE ~Within(z, p)
    BY <1>2, <1>4, <1>6, <2>1 DEF Within
  <2>2. CASE x \in R /\ y \in R
    BY <1>2, <1>9, <2>2 DEF Tiled
  <2> QED
    BY <1>9, <2>1, <2>2
<1>10. Tiled(t, T)
  BY <1>1, <1>3, <1>5, <1>7, <1>8, <1>9 DEF Tiled
<1> QED
  BY <1>1, <1>2, <1>10 DEF RowTiled, t, z
\* What the rules make has passed nothing.
LEMMA RuleTiles ==
  ASSUME NEW c, NEW q \in Quiz, NEW id, NEW e, NEW seed
  PROVE  /\ q.questions # {} => /\ RowTiled(Reset(q, seed), {})
                                /\ RowTiled(Restored(c, q, seed), {})
         /\ Misses(q) # {} => /\ RowTiled(Descent(c, q, id, seed), {})
                              /\ RowTiled(Replacement(c, q, id, seed), {})
         /\ RunMisses(q, e) # {} => RowTiled(Drill(c, q, id, e, seed), {})
<1>1. ASSUME q.questions # {} PROVE RowTiled(Reset(q, seed), {})
  <2> DEFINE t == Reset(q, seed)
  <2>1. t.questions = q.questions /\ t.cursor = 0 /\ t.run_start = 0
    BY DEF Reset, Quiz
  <2>2. t.questions \subseteq Questions
    BY <2>1 DEF Quiz
  <2> HIDE DEF t
  <2>3. RowTiled(t, {})
    BY <1>1, <2>1, <2>2, StartTiled
  <2> QED
    BY <2>3 DEF t
<1>2. ASSUME q.questions # {} PROVE RowTiled(Restored(c, q, seed), {})
  <2> DEFINE t == Restored(c, q, seed)
  <2>1. t.questions = q.questions /\ t.cursor = 0 /\ t.run_start = 0
    BY DEF Restored, Reset, Quiz
  <2>2. t.questions \subseteq Questions
    BY <2>1 DEF Quiz
  <2> HIDE DEF t
  <2>3. RowTiled(t, {})
    BY <1>2, <2>1, <2>2, StartTiled
  <2> QED
    BY <2>3 DEF t
<1>3. ASSUME Misses(q) # {} PROVE RowTiled(Descent(c, q, id, seed), {})
  <2> DEFINE t == Descent(c, q, id, seed)
  <2>1. t.questions = Misses(q) /\ t.cursor = 0 /\ t.run_start = 0
    BY DEF Descent, NewQuiz
  <2> HIDE DEF t
  <2>2. RowTiled(t, {})
    BY <1>3, <2>1, MissesType, StartTiled
  <2> QED
    BY <2>2 DEF t
<1>4. ASSUME Misses(q) # {} PROVE RowTiled(Replacement(c, q, id, seed), {})
  <2> DEFINE t == Replacement(c, q, id, seed)
  <2>1. t.questions = Misses(q) /\ t.cursor = 0 /\ t.run_start = 0
    BY DEF Replacement, NewQuiz
  <2> HIDE DEF t
  <2>2. RowTiled(t, {})
    BY <1>4, <2>1, MissesType, StartTiled
  <2> QED
    BY <2>2 DEF t
<1>5. ASSUME RunMisses(q, e) # {} PROVE RowTiled(Drill(c, q, id, e, seed), {})
  <2> DEFINE t == Drill(c, q, id, e, seed)
  <2>1. t.questions = RunMisses(q, e) /\ t.cursor = 0 /\ t.run_start = 0
    BY DEF Drill, NewQuiz
  <2> HIDE DEF t
  <2>2. RowTiled(t, {})
    BY <1>5, <2>1, MissesType, StartTiled
  <2> QED
    BY <2>2 DEF t
<1> QED
  BY <1>1, <1>2, <1>3, <1>4, <1>5

LEMMA NoRowTiled ==
  ASSUME NEW status \in {"absent", "purged"}, NEW R, status = "absent" => R = {}
  PROVE  RowTiled(NoRow(status), R)
<1>1. NoRow(status).status = status
  BY NoRowGrades
<1> QED
  BY <1>1 DEF RowTiled

LEMMA InitTiles == Init => TilesInv
<1> SUFFICES ASSUME Init PROVE TilesInv
  OBVIOUS
<1> DEFINE made(o, s) == NewQuiz(1, "source", NoQuiz, 0, FALSE, o, Questions, s, 0)
<1>1. PICK o, s : quizzes = [id \in QuizIds |-> IF id = Source THEN made(o, s)
                                                ELSE NoRow("absent")]
  BY DEF Init
<1>2. runs = [q \in QuizIds |-> {}]
  BY DEF Init
<1>3. made(o, s).questions = Questions /\ made(o, s).cursor = 0 /\ made(o, s).run_start = 0
  BY DEF NewQuiz
<1> HIDE DEF made
<1>4. RowTiled(made(o, s), {})
  BY <1>3, StartTiled, RulesAssumption
<1> QED
  BY <1>1, <1>2, <1>4, NoRowTiled DEF TilesInv

LEMMA TilesStep == TypeOK /\ GradesInv /\ TilesInv /\ [Next]_vars => TilesInv'
<1> SUFFICES ASSUME TypeOK, GradesInv, TilesInv, [Next]_vars PROVE TilesInv'
  OBVIOUS
<1>0. /\ quizzes \in [QuizIds -> Quiz] /\ runs \in [QuizIds -> SUBSET (Int \X Int)]
      /\ \A q \in QuizIds : quizzes[q] \in Quiz /\ RowTiled(quizzes[q], runs[q])
      /\ cascade \in Cascades
  BY DEF TypeOK, TilesInv
<1>1. ASSUME NEW q \in QuizIds, NEW t, NEW R, RowTiled(t, R),
             quizzes' = [quizzes EXCEPT ![q] = t], runs' = [runs EXCEPT ![q] = R]
      PROVE  TilesInv'
  BY <1>0, <1>1 DEF TilesInv
<1>2. ASSUME NEW q \in QuizIds, NEW t, NEW R, RowTiled(t, R),
             NEW new \in QuizIds, quizzes[new].status = "absent", new # q,
             NEW u, RowTiled(u, {}),
             quizzes' = [quizzes EXCEPT ![q] = t, ![new] = u],
             runs' = [runs EXCEPT ![q] = R]
      PROVE  TilesInv'
  <2>1. runs[new] = {}
    BY <1>0, <1>2 DEF RowTiled
  <2> QED
    BY <1>0, <1>2, <2>1 DEF TilesInv
<1>3. ASSUME NEW q \in QuizIds, NEW t, RowTiled(t, runs[q]),
             quizzes' = [quizzes EXCEPT ![q] = t], UNCHANGED runs
      PROVE  TilesInv'
  BY <1>0, <1>3 DEF TilesInv
<1>4. ASSUME NEW q \in QuizIds, NEW a, NEW s, NEW i \in Questions,
             NEW g \in Grades, Grade(q, a, s, i, g)
      PROVE  TilesInv'
  <2> DEFINE t == Regraded(quizzes[q], i, g)
  <2>1. quizzes' = [quizzes EXCEPT ![q] = t] /\ UNCHANGED runs
    BY <1>4 DEF Grade
  <2>2. /\ t.status = quizzes[q].status /\ t.questions = quizzes[q].questions
        /\ t.seed = quizzes[q].seed /\ t.run_start = quizzes[q].run_start
        /\ t.cursor = quizzes[q].cursor /\ quizzes[q].cursor \in Int
    BY <1>0 DEF Regraded, Quiz
  <2>3. quizzes[q].grades \in [Questions -> Grades \cup {Ungraded}] /\ g # Ungraded
    BY <1>0 DEF Quiz, Grades, Ungraded
  <2>4. \A j \in Questions : quizzes[q].grades[j] # Ungraded => t.grades[j] # Ungraded
    <3>1. t.grades = [quizzes[q].grades EXCEPT ![i] = g]
      BY <1>0 DEF Regraded, Quiz
    <3> QED
      BY <2>3, <3>1
  <2>5. quizzes[q] \in Quiz /\ RowTiled(quizzes[q], runs[q]) /\ t.cursor \in Int
    BY <1>0, <2>2
  <2> HIDE DEF t
  <2>6. RowTiled(t, runs[q])
    BY <2>2, <2>4, <2>5, SameTiled
  <2> QED
    BY <1>3, <2>1, <2>6
<1>5. ASSUME NEW q \in QuizIds, NEW a, NEW s, NEW p \in CursorRequests,
             MoveCursor(q, a, s, p)
      PROVE  TilesInv'
  <2> DEFINE t == [quizzes[q] EXCEPT !.cursor = p]
  <2>1. /\ quizzes' = [quizzes EXCEPT ![q] = t] /\ quizzes[q].status = "active"
        /\ UNCHANGED runs
    BY <1>0, <1>5 DEF MoveCursor, Live
  <2>2. /\ t.status = quizzes[q].status /\ t.questions = quizzes[q].questions
        /\ t.seed = quizzes[q].seed /\ t.run_start = quizzes[q].run_start
        /\ t.cursor = p /\ t.grades = quizzes[q].grades
    BY <1>0 DEF Quiz
  <2>3. p \in Nat /\ quizzes[q].run_start \in Int /\ quizzes[q].cursor \in Int
    BY <1>0, BoundAssumption DEF Quiz
  <2>4. quizzes[q].cursor \in Nat /\ quizzes[q].cursor < Count(quizzes[q])
    BY <1>0, <2>1, <2>3 DEF RowTiled, Tiled
  <2>5. RunEnd(quizzes[q]) \in Int /\ RunEnd(quizzes[q]) <= Count(quizzes[q])
    BY <1>0, <2>4, RunEndBounds
  <2>6. quizzes[q].run_start <= p /\ p < RunEnd(quizzes[q])
    BY <1>5 DEF MoveCursor, CursorInRun
  <2>7. p < Count(quizzes[q])
    BY <1>0, <2>3, <2>5, <2>6, CountOf
  <2> HIDE DEF t
  <2>8. RowTiled(t, runs[q])
    BY <1>0, <2>2, <2>3, <2>6, <2>7, SameTiled
  <2> QED
    BY <1>3, <2>1, <2>8
<1>6. ASSUME NEW q \in QuizIds, NEW a, NEW s, NEW seed \in Seeds,
             NEW new \in QuizIds, Finish(q, a, s, seed, new)
      PROVE  TilesInv'
  <2> DEFINE r == quizzes[q]
             away == [r EXCEPT !.status = "cleared"]
             again == Reset(r, ResetSeed[seed])
  <2>1. /\ quizzes[new].status = "absent" /\ r.status = "active" /\ new # q
        /\ r.correct + r.missed = Count(r) /\ r \in Quiz /\ r.questions # {}
        /\ RowTiled(r, runs[q]) /\ Counted(r)
    BY <1>0, <1>6 DEF Finish, FinishChecks, IdFree, Live, RowTiled, GradesInv
  <2>2. RowTiled(again, {})
    BY <2>1, RuleTiles
  <2>3. RowTiled(away, runs[q])
    <3>1. away.questions = r.questions /\ away.status = "cleared"
      BY <2>1 DEF Quiz
    <3> HIDE DEF away, r
    <3> QED
      BY <2>1, <3>1, AwayTiled
  <2>4. CASE Complete(q, seed) \/ Reshuffle(q, seed)
    <3>1. quizzes' = [quizzes EXCEPT ![q] = again] /\ runs' = [runs EXCEPT ![q] = {}]
      BY <2>4 DEF Complete, Reshuffle
    <3> HIDE DEF again
    <3> QED
      BY <1>1, <2>2, <3>1
  <2>5. CASE Descend(q, seed, new)
    <3> DEFINE u == Descent(cascade, r, q, seed)
    <3>1. /\ quizzes' = [quizzes EXCEPT ![q] = again, ![new] = u]
          /\ runs' = [runs EXCEPT ![q] = {}]
      BY <2>5 DEF Descend
    <3>2. Misses(r) # {}
      BY <1>0, <2>1, <2>5, FewerMisses DEF Descend, Descends
    <3>3. RowTiled(u, {})
      BY <2>1, <3>2, RuleTiles
    <3> HIDE DEF again, u
    <3> QED
      BY <1>2, <2>1, <2>2, <3>1, <3>3
  <2>6. CASE PutAway(q, seed, new)
    <3> DEFINE u == Replacement(cascade, r, q, seed)
    <3>1. /\ \/ quizzes' = [quizzes EXCEPT ![q] = away]
             \/ Misses(r) # {} /\ quizzes' = [quizzes EXCEPT ![q] = away, ![new] = u]
          /\ runs' = runs
      BY <2>6 DEF PutAway
    <3>2. Misses(r) # {} => RowTiled(u, {})
      BY <2>1, RuleTiles
    <3>3. runs' = [runs EXCEPT ![q] = runs[q]]
      BY <1>0, <3>1
    <3> HIDE DEF away, u
    <3>4. CASE quizzes' = [quizzes EXCEPT ![q] = away]
      BY <1>3, <2>3, <3>1, <3>4
    <3>5. CASE Misses(r) # {} /\ quizzes' = [quizzes EXCEPT ![q] = away, ![new] = u]
      BY <1>2, <2>1, <2>3, <3>2, <3>3, <3>5
    <3> QED
      BY <3>1, <3>4, <3>5
  <2> QED
    BY <1>6, <2>4, <2>5, <2>6 DEF Finish
<1>7. ASSUME NEW q \in QuizIds, NEW a, NEW s, NEW seed \in Seeds,
             NEW new \in QuizIds, NEW e \in Positions(Questions),
             FinishSegment(q, a, s, e, seed, new)
      PROVE  TilesInv'
  <2> DEFINE r == quizzes[q]
             moved == [r EXCEPT !.cursor = e, !.run_start = e]
             drill == Drill(cascade, r, q, e, seed)
             R == runs[q] \cup {<<r.run_start, e>>}
  <2>1. /\ quizzes[new].status = "absent" /\ r.status = "active" /\ new # q
        /\ r \in Quiz /\ RowTiled(r, runs[q])
        /\ r.cursor < e /\ e < Count(r)
        /\ \A i \in At(r, 0 .. e - 1) : r.grades[i] # Ungraded
    BY <1>0, <1>7 DEF FinishSegment, SegmentChecks, IdFree, Live, SegmentEnd, PastCursor, Quiz
  <2>2. e \in Int
    BY PositionsAreInts
  <2>3. RowTiled(moved, R)
    BY <1>0, <2>1, <2>2, MovedTiled
  <2>4. /\ \/ quizzes' = [quizzes EXCEPT ![q] = moved]
           \/ RunMisses(r, e) # {} /\ quizzes' = [quizzes EXCEPT ![q] = moved, ![new] = drill]
        /\ runs' = [runs EXCEPT ![q] = R]
    BY <1>0, <1>7 DEF FinishSegment
  <2>5. RunMisses(r, e) # {} => RowTiled(drill, {})
    BY <2>1, RuleTiles
  <2> HIDE DEF moved, drill, R
  <2> QED
    BY <1>1, <1>2, <2>1, <2>3, <2>4, <2>5
<1>8. ASSUME NEW q \in QuizIds, NEW seed \in Seeds, RestoreQuiz(q, seed)
      PROVE  TilesInv'
  <2> DEFINE t == Restored(cascade, quizzes[q], seed)
  <2>1. /\ quizzes' = [quizzes EXCEPT ![q] = t] /\ runs' = [runs EXCEPT ![q] = {}]
        /\ quizzes[q].status = "cleared"
    BY <1>8 DEF RestoreQuiz
  <2>2. RowTiled(t, {})
    BY <1>0, <2>1, RuleTiles DEF RowTiled
  <2> HIDE DEF t
  <2> QED
    BY <1>1, <2>1, <2>2
<1>9. ASSUME NEW q \in QuizIds, PurgeQuiz(q) PROVE TilesInv'
  <2> DEFINE apart(x) == [quizzes[x] EXCEPT !.parent = NoQuiz]
  <2>1. ASSUME NEW x \in QuizIds PROVE RowTiled(quizzes'[x], runs'[x])
    <3>1. CASE x = q
      <4>1. quizzes'[x] = NoRow("purged")
        BY <1>9, <3>1 DEF PurgeQuiz
      <4> QED
        BY <4>1, NoRowTiled
    <3>2. CASE x # q
      <4>1. quizzes'[x] \in {apart(x), quizzes[x]} /\ runs'[x] = runs[x]
        BY <1>0, <1>9, <3>2 DEF PurgeQuiz
      <4>2. /\ apart(x).status = quizzes[x].status
            /\ apart(x).questions = quizzes[x].questions
            /\ apart(x).seed = quizzes[x].seed /\ apart(x).grades = quizzes[x].grades
            /\ apart(x).run_start = quizzes[x].run_start
            /\ apart(x).cursor = quizzes[x].cursor /\ quizzes[x].cursor \in Int
        BY <1>0, <2>1 DEF Quiz
      <4> HIDE DEF apart
      <4>3. RowTiled(apart(x), runs[x])
        BY <1>0, <2>1, <4>2, SameTiled
      <4> QED
        BY <1>0, <2>1, <4>1, <4>3
    <3> QED
      BY <3>1, <3>2
  <2> QED
    BY <2>1 DEF TilesInv
<1>10. CASE PurgeCascade
  <2>1. ASSUME NEW x \in QuizIds PROVE RowTiled(quizzes'[x], runs'[x])
    <3>1. runs'[x] = {}
      BY <1>10, <2>1 DEF PurgeCascade
    <3>2. \/ quizzes'[x] = NoRow("purged")
          \/ quizzes[x].status = "absent" /\ quizzes'[x] = quizzes[x]
      BY <1>10, <2>1 DEF PurgeCascade, IdFree
    <3>3. quizzes[x].status = "absent" => RowTiled(quizzes[x], {})
      BY DEF RowTiled
    <3> QED
      BY <3>1, <3>2, <3>3, NoRowTiled
  <2> QED
    BY <2>1 DEF TilesInv
<1>11. ASSUME NEW q \in QuizIds, NEW o \in Opts, NEW f \in OptionRequests,
              SetQuizOptions(q, o, f)
       PROVE  TilesInv'
  <2> DEFINE t == [quizzes[q] EXCEPT !.opts = Merge(quizzes[q].opts, o, f)]
  <2>1. quizzes' = [quizzes EXCEPT ![q] = t] /\ UNCHANGED runs
    BY <1>0, <1>11 DEF SetQuizOptions, Live
  <2>2. /\ t.status = quizzes[q].status /\ t.questions = quizzes[q].questions
        /\ t.seed = quizzes[q].seed /\ t.grades = quizzes[q].grades
        /\ t.run_start = quizzes[q].run_start /\ t.cursor = quizzes[q].cursor
        /\ quizzes[q].cursor \in Int
    BY <1>0 DEF Quiz
  <2> HIDE DEF t
  <2>3. RowTiled(t, runs[q])
    BY <1>0, <2>2, SameTiled
  <2> QED
    BY <1>3, <2>1, <2>3
<1>12. CASE TrashCascade \/ RestoreCascade \/ UNCHANGED vars
  BY <1>12 DEF TrashCascade, RestoreCascade, vars, TilesInv
<1>13. ASSUME NEW o \in Opts, NEW f, SetCascadeOptions(o, f) PROVE TilesInv'
  BY <1>13 DEF SetCascadeOptions, TilesInv
<1> QED
  BY <1>4, <1>5, <1>6, <1>7, <1>8, <1>9, <1>10, <1>11, <1>12, <1>13 DEF Next

\* Whatever the segment size becomes and whichever drills are purged, the runs
\* finished in an attempt tile the positions passed: none is drilled twice, none is
\* skipped, and the indicator reads within its bounds (ops.rs finish_segment,
\* move_cursor; rules.rs run_end).
THEOREM RunsCorrect == Spec => []RunsTileThePassedPart
<1>1. TypeOK /\ TypeOK' /\ GradesInv /\ [Next]_vars => GradesInv'
  BY GradesStep
<1>2. TypeOK /\ TypeOK' /\ GradesInv /\ TilesInv /\ [Next]_vars => TilesInv'
  BY TilesStep
<1> QED
  BY <1>1, <1>2, InitGrades, InitTiles, TilesImply, TypeCorrect, PTL DEF Spec

-----------------------------------------------------------------------------
(* The refinement of LevelStack                                            *)

\* The stack and the Trash of the refinement, and what keeps the first in order.
IsStack(A, f, d) ==
  /\ d \in Nat
  /\ \A q \in A : f[q].level \in 1 .. d
  /\ \A l \in 1 .. d : \E q \in A : f[q].level = l
  /\ \A q, r \in A : f[q].level = f[r].level => q = r

StackIn(A, f, d) == [l \in 1 .. d |-> f[CHOOSE q \in A : f[q].level = l].questions]

\* S has the questions of every quiz of A at its level.
Placed(A, f, S, n) ==
  /\ S = [l \in 1 .. n |-> S[l]]
  /\ \A q \in A : f[q].level \in 1 .. n /\ f[q].questions = S[f[q].level]

Levels  == StackIn(Active, quizzes, cascade.depth)
Cleared == {q \in QuizIds : quizzes[q].status = "cleared"}
Away    == {quizzes[q].questions : q \in Cleared}

\* The stack has as many levels as the cascade is deep.
LEMMA LevelsLen == cascade.depth \in Nat => Len(Levels) = cascade.depth
BY DEF Levels, StackIn

\* The quiz at a level is the one that has it.
LEMMA AtLevel ==
  ASSUME NEW A, NEW f, NEW d, IsStack(A, f, d)
  PROVE  \A q \in A : StackIn(A, f, d)[f[q].level] = f[q].questions
<1> SUFFICES ASSUME NEW q \in A PROVE StackIn(A, f, d)[f[q].level] = f[q].questions
  OBVIOUS
<1>1. (CHOOSE x \in A : f[x].level = f[q].level) = q
  BY DEF IsStack
<1>2. f[q].level \in 1 .. d
  BY DEF IsStack
<1> QED
  BY <1>1, <1>2 DEF StackIn

\* A sequence with every quiz's questions at its level is the stack.
LEMMA StackIs ==
  ASSUME NEW A, NEW f, NEW d, NEW S, IsStack(A, f, d), Placed(A, f, S, d)
  PROVE  StackIn(A, f, d) = S
<1>1. ASSUME NEW l \in 1 .. d PROVE StackIn(A, f, d)[l] = S[l]
  <2>1. PICK q \in A : f[q].level = l
    BY DEF IsStack
  <2> QED
    BY <2>1, AtLevel DEF Placed
<1> QED
  BY <1>1 DEF StackIn, Placed

\* LevelsAreAStack in the terms of the refinement, before and after a step.
LEMMA StackShape ==
  /\ TypeOK /\ LevelsAreAStack /\ cascade.status # "purged"
       => IsStack(Active, quizzes, cascade.depth) /\ cascade.depth >= 1
  /\ TypeOK' /\ LevelsAreAStack' /\ cascade'.status # "purged"
       => IsStack(Active', quizzes', cascade'.depth)
<1>1. ASSUME TypeOK, LevelsAreAStack, cascade.status # "purged"
      PROVE  IsStack(Active, quizzes, cascade.depth) /\ cascade.depth >= 1
  <2>1. cascade.depth \in Int
    BY <1>1 DEF TypeOK, Cascades
  <2>2. 1 \in 1 .. cascade.depth
    BY <1>1, <2>1 DEF LevelsAreAStack
  <2> QED
    BY <1>1, <2>1, <2>2 DEF LevelsAreAStack, IsStack
<1>2. ASSUME TypeOK', LevelsAreAStack', cascade'.status # "purged"
      PROVE  IsStack(Active', quizzes', cascade'.depth)
  <2>1. cascade'.depth \in Int
    BY <1>2 DEF TypeOK, Cascades
  <2>2. 1 \in 1 .. cascade'.depth
    BY <1>2, <2>1 DEF LevelsAreAStack
  <2> QED
    BY <1>2, <2>1, <2>2 DEF LevelsAreAStack, IsStack
<1> QED
  BY <1>1, <1>2

\* The refinement in these terms.
LEMMA StackTerms ==
  /\ Rows \ Active = Cleared
  /\ Stack!svars = <<Levels, Away, cascade.status = "open">>
<1>1. Rows \ Active = Cleared
  BY DEF Rows, Active, Cleared
<1>2. [l \in 1 .. cascade.depth |-> quizzes[QuizAt(l)].questions] = Levels
  BY DEF Levels, StackIn, QuizAt
<1>3. Stack!svars = <<Levels, Away, cascade.status = "open">>
  BY <1>1, <1>2 DEF Stack!svars, Away
<1> QED
  BY <1>1, <1>3

\* The steps of LevelStack, in the same terms.
LEMMA DescendMaps ==
  ASSUME cascade.status = "open", cascade'.status = "open", Away' = Away,
         cascade.depth \in Nat \ {0},
         NEW T, T \in SUBSET Levels[cascade.depth], T # {}, T # Levels[cascade.depth],
         Levels' = Append(Levels, T)
  PROVE  Stack!Descend
<1>1. Rows \ Active = Cleared /\ Rows' \ Active' = Cleared'
  BY DEF Rows, Active, Cleared
<1>2. /\ [l \in 1 .. cascade.depth |-> quizzes[QuizAt(l)].questions] = Levels
      /\ [l \in 1 .. cascade.depth |-> quizzes[QuizAt(l)].questions]' = Levels'
  BY DEF Levels, StackIn, QuizAt
<1>3. Len(Levels) = cascade.depth
  BY LevelsLen
<1> QED
  BY <1>1, <1>2, <1>3 DEF Stack!Descend, Stack!Fewer, Stack!Last, Away

LEMMA PutAwayMaps ==
  ASSUME cascade.status = "open", cascade'.status = "open", cascade.depth \in Nat,
         cascade.depth > 1, Away' = Away \cup {Levels[cascade.depth]},
         NEW F, F = SubSeq(Levels, 1, cascade.depth - 1),
         \/ Levels' = F
         \/ \E T \in SUBSET Levels[cascade.depth] :
              T # {} /\ T # Levels[cascade.depth] /\ Levels' = Append(F, T)
  PROVE  Stack!PutAway
<1>1. Rows \ Active = Cleared /\ Rows' \ Active' = Cleared'
  BY DEF Rows, Active, Cleared
<1>2. /\ [l \in 1 .. cascade.depth |-> quizzes[QuizAt(l)].questions] = Levels
      /\ [l \in 1 .. cascade.depth |-> quizzes[QuizAt(l)].questions]' = Levels'
  BY DEF Levels, StackIn, QuizAt
<1>3. Len(Levels) = cascade.depth
  BY LevelsLen
<1>4. Stack!Last(Levels) = Levels[cascade.depth] /\ Stack!Front(Levels) = F
  BY <1>3 DEF Stack!Last, Stack!Front
<1>5. \/ Levels' = Stack!Front(Levels)
      \/ \E T \in Stack!Fewer(Stack!Last(Levels)) : Levels' = Append(Stack!Front(Levels), T)
  BY <1>4 DEF Stack!Fewer
<1>6. Away' = Away \cup {Stack!Last(Levels)} /\ Len(Levels) > 1
  BY <1>3, <1>4
<1> QED
  BY <1>1, <1>2, <1>5, <1>6 DEF Stack!PutAway, Away

LEMMA RestoreMaps ==
  ASSUME NEW T \in Away, Levels' = Append(Levels, T), Away' \in {Away, Away \ {T}},
         cascade'.status = "open"
  PROVE  Stack!Restore
<1>1. Rows \ Active = Cleared /\ Rows' \ Active' = Cleared'
  BY DEF Rows, Active, Cleared
<1>2. /\ [l \in 1 .. cascade.depth |-> quizzes[QuizAt(l)].questions] = Levels
      /\ [l \in 1 .. cascade.depth |-> quizzes[QuizAt(l)].questions]' = Levels'
  BY DEF Levels, StackIn, QuizAt
<1> QED
  BY <1>1, <1>2 DEF Stack!Restore, Away

LEMMA PurgeMaps ==
  ASSUME NEW T \in Away, Levels' = Levels, Away' \in {Away, Away \ {T}},
         cascade'.status = "open", cascade.status = "open"
  PROVE  Stack!Purge \/ UNCHANGED Stack!svars
<1>1. Rows \ Active = Cleared /\ Rows' \ Active' = Cleared'
  BY DEF Rows, Active, Cleared
<1>2. /\ [l \in 1 .. cascade.depth |-> quizzes[QuizAt(l)].questions] = Levels
      /\ [l \in 1 .. cascade.depth |-> quizzes[QuizAt(l)].questions]' = Levels'
  BY DEF Levels, StackIn, QuizAt
<1>3. CASE Away' = Away
  BY <1>1, <1>2, <1>3 DEF Stack!svars, Away
<1>4. CASE Away' = Away \ {T}
  BY <1>1, <1>2, <1>4 DEF Stack!Purge, Away
<1> QED
  BY <1>3, <1>4

LEMMA ToggleMaps ==
  ASSUME Levels' = Levels, Away' = Away, cascade.depth \in Nat \ {0},
         (cascade'.status = "open") = (cascade.status # "open")
  PROVE  Stack!Toggle
<1>1. Rows \ Active = Cleared /\ Rows' \ Active' = Cleared'
  BY DEF Rows, Active, Cleared
<1>2. /\ [l \in 1 .. cascade.depth |-> quizzes[QuizAt(l)].questions] = Levels
      /\ [l \in 1 .. cascade.depth |-> quizzes[QuizAt(l)].questions]' = Levels'
  BY DEF Levels, StackIn, QuizAt
<1>3. Len(Levels) = cascade.depth
  BY LevelsLen
<1>4. Levels # <<>>
  BY <1>3
<1> QED
  BY <1>1, <1>2, <1>4 DEF Stack!Toggle, Away

LEMMA EndMaps ==
  ASSUME cascade.status # "open", cascade'.status # "open", cascade'.depth = 0, Away' = {}
  PROVE  Stack!End
<1>1. Rows' \ Active' = Cleared'
  BY DEF Rows, Active, Cleared
<1>2. [l \in 1 .. cascade.depth |-> quizzes[QuizAt(l)].questions]' = <<>>
  OBVIOUS
<1> QED
  BY <1>1, <1>2 DEF Stack!End, Away

LEMMA StutterMaps ==
  ASSUME Levels' = Levels, Away' = Away, (cascade'.status = "open") = (cascade.status = "open")
  PROVE  UNCHANGED Stack!svars
<1>1. Rows \ Active = Cleared /\ Rows' \ Active' = Cleared'
  BY DEF Rows, Active, Cleared
<1>2. /\ [l \in 1 .. cascade.depth |-> quizzes[QuizAt(l)].questions] = Levels
      /\ [l \in 1 .. cascade.depth |-> quizzes[QuizAt(l)].questions]' = Levels'
  BY DEF Levels, StackIn, QuizAt
<1> QED
  BY <1>1, <1>2 DEF Stack!svars, Away

-----------------------------------------------------------------------------
(* What happens to a stack                                                 *)

\* The same quizzes at the same levels.
LEMMA SameLevels ==
  ASSUME NEW A, NEW f, NEW g, NEW d, IsStack(A, f, d),
         \A q \in A : g[q].level = f[q].level /\ g[q].questions = f[q].questions
  PROVE  StackIn(A, g, d) = StackIn(A, f, d)
<1>1. IsStack(A, g, d)
  BY DEF IsStack
<1>2. ASSUME NEW l \in 1 .. d PROVE StackIn(A, g, d)[l] = StackIn(A, f, d)[l]
  <2>1. PICK q \in A : f[q].level = l
    BY DEF IsStack
  <2>2. StackIn(A, f, d)[l] = f[q].questions
    BY <2>1, AtLevel
  <2>3. StackIn(A, g, d)[l] = g[q].questions
    BY <1>1, <2>1, AtLevel
  <2> QED
    BY <2>2, <2>3
<1> QED
  BY <1>2 DEF StackIn

\* Append, under a name of its own for the lemma below.
OnTop(R, T) == Append(R, T)

\* new is on top of the quizzes of B, whose questions are those of R.
Topped(B, new, g, R, n) ==
  /\ n \in Nat /\ R \in Seq(SUBSET Questions) /\ Len(R) = n
  /\ Placed(B, g, R, n)
  /\ g[new].level = n + 1 /\ g[new].questions \in SUBSET Questions

\* Then its questions are the last of the stack.
LEMMA TopLevel ==
  ASSUME NEW B, NEW new, NEW g, NEW R, NEW n \in Nat, Topped(B, new, g, R, n),
         IsStack(B \cup {new}, g, n + 1)
  PROVE  StackIn(B \cup {new}, g, n + 1) = OnTop(R, g[new].questions)
<1> DEFINE S == Append(R, g[new].questions)
<1>1. /\ S = [l \in 1 .. n + 1 |-> S[l]]
      /\ S[n + 1] = g[new].questions /\ \A l \in 1 .. n : S[l] = R[l]
  BY DEF Topped
<1> HIDE DEF S
<1>2. n \in Nat /\ g[new].level = n + 1
  BY DEF Topped
<1>3. \A q \in B : g[q].level \in 1 .. n /\ S[g[q].level] = g[q].questions
  BY <1>1 DEF Topped, Placed
<1>4. \A q \in B \cup {new} : g[q].level \in 1 .. n + 1 /\ g[q].questions = S[g[q].level]
  <2> SUFFICES ASSUME NEW q \in B \cup {new}
               PROVE  g[q].level \in 1 .. n + 1 /\ g[q].questions = S[g[q].level]
    OBVIOUS
  <2>1. CASE q \in B
    BY <1>2, <1>3, <2>1
  <2>2. CASE q = new
    BY <1>1, <1>2, <2>2
  <2> QED
    BY <2>1, <2>2
<1>5. StackIn(B \cup {new}, g, n + 1) = S
  <2>1. Placed(B \cup {new}, g, S, n + 1)
    BY <1>1, <1>4 DEF Placed
  <2> QED
    BY <2>1, StackIs
<1> QED
  BY <1>5 DEF S, OnTop

\* The stack of a cascade that is not purged.
LEMMA LevelsFacts ==
  ASSUME TypeOK, LevelsAreAStack, cascade.status # "purged"
  PROVE  /\ cascade.depth \in Nat /\ cascade.depth >= 1
         /\ Levels \in Seq(SUBSET Questions) /\ Len(Levels) = cascade.depth
         /\ \A q \in Active : /\ quizzes[q].level \in 1 .. cascade.depth
                              /\ Levels[quizzes[q].level] = quizzes[q].questions
<1>1. IsStack(Active, quizzes, cascade.depth) /\ cascade.depth >= 1
  BY StackShape
<1>2. cascade.depth \in Nat
  BY <1>1 DEF IsStack
<1>3. \A q \in Active : /\ quizzes[q].level \in 1 .. cascade.depth
                        /\ Levels[quizzes[q].level] = quizzes[q].questions
  BY <1>1, AtLevel DEF IsStack, Levels
<1>4. ASSUME NEW l \in 1 .. cascade.depth PROVE Levels[l] \in SUBSET Questions
  <2>1. PICK q \in Active : quizzes[q].level = l
    BY <1>1 DEF IsStack
  <2>2. quizzes[q].questions \in SUBSET Questions
    BY DEF TypeOK, Active, Quiz
  <2> QED
    BY <1>3, <2>1, <2>2
<1>5. Levels = [l \in 1 .. cascade.depth |-> Levels[l]]
  BY DEF Levels, StackIn
<1>6. Levels \in Seq(SUBSET Questions)
  BY <1>2, <1>4, <1>5
<1> QED
  BY <1>1, <1>2, <1>3, <1>6, LevelsLen

\* A row the step leaves where it is.
Same(q) ==
  /\ quizzes'[q].status = quizzes[q].status
  /\ quizzes'[q].level = quizzes[q].level
  /\ quizzes'[q].questions = quizzes[q].questions

\* The four things an operation does to the stack and the Trash.
LEMMA NothingMoves ==
  ASSUME TypeOK, LevelsAreAStack, cascade.status # "purged",
         cascade'.depth = cascade.depth, \A q \in QuizIds : Same(q)
  PROVE  Levels' = Levels /\ Away' = Away
<1>1. Active' = Active /\ Cleared' = Cleared
  BY DEF Active, Cleared, Same
<1>2. IsStack(Active, quizzes, cascade.depth)
  BY StackShape
<1>3. \A q \in Active : /\ quizzes'[q].level = quizzes[q].level
                        /\ quizzes'[q].questions = quizzes[q].questions
  BY DEF Active, Same
<1>4. StackIn(Active, quizzes', cascade.depth) = StackIn(Active, quizzes, cascade.depth)
  BY <1>2, <1>3, SameLevels
<1>5. Levels' = Levels
  BY <1>1, <1>4 DEF Levels
<1>6. Away' = Away
  BY <1>1 DEF Away, Cleared, Same
<1> QED
  BY <1>5, <1>6

LEMMA PushMoves ==
  ASSUME TypeOK, LevelsAreAStack, cascade.status # "purged",
         TypeOK', LevelsAreAStack', cascade'.status # "purged",
         NEW new \in QuizIds, quizzes[new].status # "active",
         cascade'.depth = cascade.depth + 1, quizzes'[new].status = "active",
         quizzes'[new].level = cascade.depth + 1, \A q \in QuizIds \ {new} : Same(q)
  PROVE  /\ Levels' = Append(Levels, quizzes'[new].questions)
         /\ Cleared' = Cleared \ {new}
         /\ Away' = {quizzes[q].questions : q \in Cleared \ {new}}
<1>1. Active' = Active \cup {new} /\ Cleared' = Cleared \ {new}
  BY DEF Active, Cleared, Same
<1>2. IsStack(Active', quizzes', cascade'.depth)
  BY StackShape
<1>3. \A q \in Active : q \in QuizIds \ {new}
  BY DEF Active
<1>4. \A q \in Active : /\ quizzes'[q].level = quizzes[q].level
                        /\ quizzes[q].level \in 1 .. cascade.depth
                        /\ quizzes'[q].questions = Levels[quizzes[q].level]
  BY <1>3, LevelsFacts DEF Same
<1>5. StackIn(Active \cup {new}, quizzes', cascade.depth + 1)
        = OnTop(Levels, quizzes'[new].questions)
  <2>1. IsStack(Active \cup {new}, quizzes', cascade.depth + 1)
    BY <1>1, <1>2
  <2>2. Levels = [l \in 1 .. cascade.depth |-> Levels[l]]
    BY DEF Levels, StackIn
  <2>3. Placed(Active, quizzes', Levels, cascade.depth)
    BY <1>4, <2>2 DEF Placed
  <2>4. quizzes'[new].questions \in SUBSET Questions
    BY DEF TypeOK, Quiz
  <2>5. Topped(Active, new, quizzes', Levels, cascade.depth)
    BY <2>3, <2>4, LevelsFacts DEF Topped
  <2>6. cascade.depth \in Nat
    BY LevelsFacts
  <2> QED
    BY <2>1, <2>5, <2>6, TopLevel
<1>6. Levels' = Append(Levels, quizzes'[new].questions)
  BY <1>1, <1>5 DEF Levels, OnTop
<1>7. Away' = {quizzes[q].questions : q \in Cleared \ {new}}
  BY <1>1 DEF Away, Cleared, Same
<1> QED
  BY <1>1, <1>6, <1>7

LEMMA PopMoves ==
  ASSUME TypeOK, LevelsAreAStack, cascade.status # "purged",
         TypeOK', LevelsAreAStack', cascade'.status # "purged",
         NEW old \in Active, quizzes[old].level = cascade.depth,
         cascade'.depth = cascade.depth - 1, quizzes'[old].status = "cleared",
         quizzes'[old].questions = quizzes[old].questions,
         \A q \in QuizIds \ {old} : Same(q)
  PROVE  /\ Levels' = SubSeq(Levels, 1, cascade.depth - 1)
         /\ Away' = Away \cup {Levels[cascade.depth]}
<1> DEFINE n == cascade.depth - 1
           F == SubSeq(Levels, 1, n)
<1>0. /\ n \in Nat /\ Levels \in Seq(SUBSET Questions) /\ Len(Levels) = n + 1
      /\ cascade.depth = n + 1
  BY LevelsFacts
<1>1. Active' = Active \ {old} /\ Cleared' = Cleared \cup {old} /\ old \in QuizIds
  BY DEF Active, Cleared, Same
<1>2. IsStack(Active', quizzes', n)
  BY StackShape
<1>3. \A l \in 1 .. n : F[l] = Levels[l]
  BY <1>0
<1>4. F = [l \in 1 .. n |-> F[l]]
  BY <1>0
<1>5. \A q \in Active' : quizzes'[q].level \in 1 .. n
  BY <1>2 DEF IsStack
<1>6. \A q \in Active' : /\ quizzes'[q].level = quizzes[q].level
                         /\ quizzes'[q].questions = Levels[quizzes[q].level]
  BY <1>1, LevelsFacts DEF Same, Active
<1> HIDE DEF F, n
<1>7. \A q \in Active' : F[quizzes'[q].level] = quizzes'[q].questions
  BY <1>3, <1>5, <1>6
<1>8. StackIn(Active', quizzes', n) = F
  <2>1. Placed(Active', quizzes', F, n)
    BY <1>4, <1>5, <1>7 DEF Placed
  <2> QED
    BY <1>2, <2>1, StackIs
<1>9. Levels' = F
  BY <1>8 DEF Levels, n
<1>10. Away' = Away \cup {quizzes[old].questions}
  BY <1>1 DEF Away, Cleared, Same
<1>11. Levels[cascade.depth] = quizzes[old].questions
  BY LevelsFacts
<1> QED
  BY <1>9, <1>10, <1>11 DEF F, n

LEMMA SwapMoves ==
  ASSUME TypeOK, LevelsAreAStack, cascade.status # "purged",
         TypeOK', LevelsAreAStack', cascade'.status # "purged",
         NEW old \in Active, quizzes[old].level = cascade.depth,
         NEW new \in QuizIds, quizzes[new].status = "absent",
         cascade'.depth = cascade.depth, quizzes'[old].status = "cleared",
         quizzes'[old].questions = quizzes[old].questions,
         quizzes'[new].status = "active", quizzes'[new].level = cascade.depth,
         \A q \in QuizIds \ {old, new} : Same(q)
  PROVE  /\ Levels' = Append(SubSeq(Levels, 1, cascade.depth - 1), quizzes'[new].questions)
         /\ Away' = Away \cup {Levels[cascade.depth]}
<1> DEFINE n == cascade.depth - 1
           F == SubSeq(Levels, 1, n)
           B == Active \ {old}
<1>0. /\ n \in Nat /\ Levels \in Seq(SUBSET Questions) /\ Len(Levels) = n + 1
      /\ cascade.depth = n + 1
  BY LevelsFacts
<1>1. Active' = B \cup {new} /\ Cleared' = Cleared \cup {old} /\ old \in QuizIds /\ new # old
  BY DEF Active, Cleared, Same
<1>2. IsStack(Active', quizzes', n + 1)
  BY <1>0, StackShape
<1>3. F \in Seq(SUBSET Questions) /\ Len(F) = n /\ \A l \in 1 .. n : F[l] = Levels[l]
  BY <1>0
<1>4. \A q \in B : q \in Active /\ q # new /\ q \in QuizIds
  BY DEF Active
<1>5. \A q \in B : /\ quizzes'[q].level = quizzes[q].level
                   /\ quizzes'[q].questions = Levels[quizzes[q].level]
                   /\ quizzes[q].level \in 1 .. n + 1
  BY <1>0, <1>4, LevelsFacts DEF Same
<1>6. \A q \in B : quizzes[q].level # n + 1
  BY <1>0, <1>4 DEF LevelsAreAStack
<1> HIDE DEF F, n, B
<1>7. \A q \in B : /\ quizzes'[q].level = quizzes[q].level /\ quizzes[q].level \in 1 .. n
                   /\ quizzes'[q].questions = F[quizzes[q].level]
  BY <1>0, <1>3, <1>5, <1>6
<1>8. StackIn(B \cup {new}, quizzes', n + 1) = OnTop(F, quizzes'[new].questions)
  <2>1. IsStack(B \cup {new}, quizzes', n + 1)
    BY <1>1, <1>2
  <2>2. F = [l \in 1 .. n |-> F[l]]
    BY <1>0, <1>3
  <2>3. Placed(B, quizzes', F, n)
    BY <1>7, <2>2 DEF Placed
  <2>4. quizzes'[new].level = n + 1 /\ quizzes'[new].questions \in SUBSET Questions
    BY <1>0 DEF TypeOK, Quiz
  <2>5. Topped(B, new, quizzes', F, n)
    BY <1>0, <1>3, <2>3, <2>4 DEF Topped
  <2>6. n \in Nat
    BY <1>0
  <2> QED
    BY <2>1, <2>5, <2>6, TopLevel
<1>9. Levels' = Append(F, quizzes'[new].questions)
  BY <1>0, <1>1, <1>8 DEF Levels, OnTop
<1>10. Away' = Away \cup {quizzes[old].questions}
  BY <1>1 DEF Away, Cleared, Same
<1>11. Levels[cascade.depth] = quizzes[old].questions
  BY LevelsFacts
<1> QED
  BY <1>9, <1>10, <1>11 DEF F, n
-----------------------------------------------------------------------------
(* Each operation is a step of the stack or none                           *)

LEMMA StatusOf ==
  ASSUME NEW c \in Cascades
  PROVE  /\ PushDepth(c).status = c.status
         /\ CountAttempt(c).status = c.status
         /\ PushDepth(CountAttempt(c)).status = c.status
         /\ AfterCompletion(c).status = c.status
         /\ [CountAttempt(c) EXCEPT !.depth = @ - 1].status = c.status
BY DEF PushDepth, CountAttempt, AfterCompletion, Cascades

LEMMA FinishMaps ==
  ASSUME TypeOK, LevelsAreAStack, TypeOK', LevelsAreAStack', GradesInv, NEW q \in QuizIds,
         NEW a, NEW s, NEW seed \in Seeds, NEW new \in QuizIds, Finish(q, a, s, seed, new)
  PROVE  Stack!Next \/ UNCHANGED Stack!svars
<1> DEFINE r == quizzes[q]
           again == Reset(r, ResetSeed[seed])
           away == [r EXCEPT !.status = "cleared"]
<1>1. /\ cascade.status = "open" /\ cascade.status # "purged" /\ r.status = "active"
      /\ r.level = cascade.depth /\ quizzes[new].status = "absent" /\ q \in Active /\ new # q
      /\ r.correct + r.missed = Count(r)
  BY DEF Finish, FinishChecks, Live, Deepest, IdFree, Active
<1>2. /\ r \in Quiz /\ cascade \in Cascades /\ quizzes \in [QuizIds -> Quiz] /\ Counted(r)
  BY DEF TypeOK, GradesInv
<1>3. again.status = r.status /\ again.level = r.level /\ again.questions = r.questions
  BY <1>2 DEF Reset, Quiz
<1>4. away.status = "cleared" /\ away.level = r.level /\ away.questions = r.questions
  BY <1>2 DEF Quiz
<1>5. cascade.depth \in Nat /\ cascade.depth >= 1 /\ Levels[cascade.depth] = r.questions
  BY <1>1, LevelsFacts
<1> HIDE DEF again, away
<1>6. CASE Complete(q, seed) \/ Reshuffle(q, seed)
  <2>1. quizzes' = [quizzes EXCEPT ![q] = again]
    BY <1>6 DEF Complete, Reshuffle, again
  <2>2. cascade'.depth = cascade.depth /\ cascade'.status = cascade.status
    BY <1>2, <1>6, DepthOf, StatusOf DEF Complete, Reshuffle
  <2>3. \A x \in QuizIds : Same(x)
    BY <1>2, <1>3, <2>1 DEF Same
  <2> QED
    BY <1>1, <2>2, <2>3, NothingMoves, StutterMaps
<1>7. CASE Descend(q, seed, new)
  <2> DEFINE u == Descent(cascade, r, q, seed)
  <2>1. quizzes' = [quizzes EXCEPT ![q] = again, ![new] = u]
    BY <1>7 DEF Descend, again
  <2>2. u.status = "active" /\ u.level = cascade.depth + 1 /\ u.questions = Misses(r)
    BY <1>1 DEF Descent, NewQuiz
  <2>3. cascade'.depth = cascade.depth + 1 /\ cascade'.status = "open"
    BY <1>1, <1>2, <1>7, DepthOf, StatusOf DEF Descend
  <2>4. Descends(cascade, r) /\ ~Reshuffles(r) /\ ~Completes(r)
    BY <1>7 DEF Descend, Descends
  <2>5. Misses(r) # {} /\ Misses(r) # r.questions /\ Misses(r) \subseteq r.questions
    BY <1>1, <1>2, <2>4, FewerMisses
  <2> HIDE DEF u
  <2>6. \A x \in QuizIds \ {new} : Same(x)
    BY <1>1, <1>2, <1>3, <2>1 DEF Same
  <2>7. quizzes'[new] = u
    BY <1>1, <1>2, <2>1
  <2>8. quizzes[new].status # "active" /\ new \notin Cleared
    BY <1>1 DEF Cleared
  <2>9. /\ Levels' = Append(Levels, Misses(r))
        /\ Away' = {quizzes[x].questions : x \in Cleared \ {new}}
    BY <1>1, <2>2, <2>3, <2>6, <2>7, <2>8, PushMoves
  <2>10. Away' = Away
    BY <2>8, <2>9 DEF Away
  <2>11. Stack!Descend
    <3> DEFINE T == Misses(r)
    <3>1. /\ T \in SUBSET Levels[cascade.depth] /\ T # {} /\ T # Levels[cascade.depth]
          /\ Levels' = Append(Levels, T)
      BY <1>5, <2>5, <2>9
    <3>2. cascade.depth \in Nat \ {0}
      BY <1>5
    <3> HIDE DEF T
    <3> QED
      BY <1>1, <2>3, <2>10, <3>1, <3>2, DescendMaps
  <2> QED
    BY <2>11 DEF Stack!Next
<1>8. CASE PutAway(q, seed, new)
  <2> DEFINE F == SubSeq(Levels, 1, cascade.depth - 1)
             u == Replacement(cascade, r, q, seed)
  <2>1. ~Reshuffles(r) /\ ~Completes(r) /\ r.level # 1
    BY <1>8 DEF PutAway, PutsAway, Descends
  <2>2. cascade.depth > 1
    BY <1>1, <1>5, <2>1
  <2>3. Misses(r) # r.questions /\ Misses(r) \subseteq r.questions
    BY <1>1, <1>2, <2>1, FewerMisses
  <2>4. /\ cascade'.status = "open"
        /\ Away' = Away \cup {Levels[cascade.depth]}
        /\ \/ Levels' = F
           \/ \E T \in SUBSET Levels[cascade.depth] :
                T # {} /\ T # Levels[cascade.depth] /\ Levels' = Append(F, T)
    <3>1. CASE Misses(r) = {}
      <4>1. quizzes' = [quizzes EXCEPT ![q] = away]
        BY <1>8, <3>1 DEF PutAway, away
      <4>2. cascade'.depth = cascade.depth - 1 /\ cascade'.status = "open"
        BY <1>1, <1>2, <1>8, <3>1, DepthOf, StatusOf DEF PutAway
      <4>3. \A x \in QuizIds \ {q} : Same(x)
        BY <1>2, <4>1 DEF Same
      <4>4. quizzes'[q] = away
        BY <1>2, <4>1
      <4>5. Levels' = F /\ Away' = Away \cup {Levels[cascade.depth]}
        BY <1>1, <1>4, <4>2, <4>3, <4>4, PopMoves
      <4> QED
        BY <4>2, <4>5
    <3>2. CASE Misses(r) # {}
      <4>1. quizzes' = [quizzes EXCEPT ![q] = away, ![new] = u]
        BY <1>8, <3>2 DEF PutAway, away
      <4>2. cascade'.depth = cascade.depth /\ cascade'.status = "open"
        BY <1>1, <1>2, <1>8, <3>2, DepthOf, StatusOf DEF PutAway
      <4>3. u.status = "active" /\ u.level = cascade.depth /\ u.questions = Misses(r)
        BY <1>1 DEF Replacement, NewQuiz
      <4> HIDE DEF u
      <4>4. \A x \in QuizIds \ {q, new} : Same(x)
        BY <1>2, <4>1 DEF Same
      <4>5. quizzes'[q] = away /\ quizzes'[new] = u
        BY <1>1, <1>2, <4>1
      <4>6. Levels' = Append(F, Misses(r)) /\ Away' = Away \cup {Levels[cascade.depth]}
        BY <1>1, <1>4, <4>2, <4>3, <4>4, <4>5, SwapMoves
      <4>7. /\ Misses(r) \in SUBSET Levels[cascade.depth] /\ Misses(r) # {}
            /\ Misses(r) # Levels[cascade.depth]
        BY <1>5, <2>3, <3>2
      <4> QED
        BY <4>2, <4>6, <4>7
    <3> QED
      BY <3>1, <3>2
  <2> HIDE DEF F
  <2>5. Stack!PutAway
    BY <1>1, <1>5, <2>2, <2>4, PutAwayMaps DEF F
  <2> QED
    BY <2>5 DEF Stack!Next
<1> QED
  BY <1>6, <1>7, <1>8 DEF Finish

\* The misses of a run that ends inside the quiz are not the whole quiz.
LEMMA FewerInRun ==
  ASSUME NEW r \in Quiz, NEW e \in Int, 0 < e, e < Count(r), r.run_start \in Nat
  PROVE  RunMisses(r, e) # r.questions /\ RunMisses(r, e) \subseteq r.questions
<1>1. RunMisses(r, e) \subseteq r.questions
  BY DEF RunMisses, Misses, GradedAs
<1>2. ASSUME r.questions \subseteq At(r, 0 .. e - 1) PROVE FALSE
  <2> DEFINE h == Shuffle(r.questions, r.seed)
             f == [p \in 1 .. e |-> h[p - 1]]
  <2>1. Count(r) \in Nat /\ r.questions \in SUBSET Questions /\ r.seed \in Seeds
    BY CountOf DEF Quiz
  <2>2. h \in [Positions(r.questions) -> r.questions]
    BY <2>1, RulesAssumption
  <2>3. \A p \in 1 .. e : p - 1 \in Positions(r.questions)
    BY <2>1 DEF Positions, Count
  <2>4. f \in [1 .. e -> r.questions]
    BY <2>2, <2>3
  <2>5. ASSUME NEW i \in r.questions PROVE \E p \in 1 .. e : f[p] = i
    <3>1. PICK p \in 0 .. e - 1 : i = h[p]
      BY <1>2 DEF At
    <3> HIDE DEF h
    <3>2. f[p + 1] = i /\ p + 1 \in 1 .. e
      BY <3>1
    <3> QED
      BY <3>2
  <2> HIDE DEF f
  <2>6. f \in Surjection(1 .. e, r.questions)
    BY <2>4, <2>5 DEF Surjection
  <2>7. Count(r) <= e
    BY <2>6, FS_SurjCardinalityBound DEF ExistsSurjection, Count
  <2> QED
    BY <2>1, <2>7
<1>3. RunMisses(r, e) \subseteq At(r, 0 .. e - 1)
  BY DEF RunMisses, At
<1> QED
  BY <1>1, <1>2, <1>3
LEMMA FinishSegmentMaps ==
  ASSUME TypeOK, LevelsAreAStack, TypeOK', LevelsAreAStack', TilesInv, NEW q \in QuizIds,
         NEW a, NEW s, NEW seed \in Seeds, NEW new \in QuizIds, NEW e \in Int,
         FinishSegment(q, a, s, e, seed, new)
  PROVE  Stack!Next \/ UNCHANGED Stack!svars
<1> DEFINE r == quizzes[q]
           moved == [r EXCEPT !.cursor = e, !.run_start = e]
           u == Drill(cascade, r, q, e, seed)
<1>1. /\ cascade.status = "open" /\ cascade.status # "purged" /\ r.status = "active"
      /\ r.level = cascade.depth /\ quizzes[new].status = "absent" /\ q \in Active /\ new # q
      /\ 0 < e /\ e < Count(r)
  BY DEF FinishSegment, SegmentChecks, SegmentEnd, Live, Deepest, IdFree, Active
<1>2. r \in Quiz /\ cascade \in Cascades /\ quizzes \in [QuizIds -> Quiz]
  BY DEF TypeOK
<1>3. r.run_start \in Nat
  BY <1>1, <1>2 DEF TilesInv, RowTiled, Tiled, Quiz
<1>4. moved.status = r.status /\ moved.level = r.level /\ moved.questions = r.questions
  BY <1>2 DEF Quiz
<1>5. cascade.depth \in Nat /\ cascade.depth >= 1 /\ Levels[cascade.depth] = r.questions
  BY <1>1, LevelsFacts
<1> HIDE DEF moved
<1>6. CASE RunMisses(r, e) = {}
  <2>1. quizzes' = [quizzes EXCEPT ![q] = moved] /\ cascade' = cascade
    BY <1>6 DEF FinishSegment, moved
  <2>2. \A x \in QuizIds : Same(x)
    BY <1>2, <1>4, <2>1 DEF Same
  <2> QED
    BY <1>1, <2>1, <2>2, NothingMoves, StutterMaps
<1>7. CASE RunMisses(r, e) # {}
  <2>1. /\ quizzes' = [quizzes EXCEPT ![q] = moved, ![new] = u]
        /\ cascade' = PushDepth(cascade)
    BY <1>7 DEF FinishSegment, moved
  <2>2. u.status = "active" /\ u.level = cascade.depth + 1 /\ u.questions = RunMisses(r, e)
    BY <1>1 DEF Drill, NewQuiz
  <2>3. cascade'.depth = cascade.depth + 1 /\ cascade'.status = "open"
    BY <1>1, <1>2, <2>1, DepthOf, StatusOf
  <2> HIDE DEF u
  <2>4. \A x \in QuizIds \ {new} : Same(x)
    BY <1>1, <1>2, <1>4, <2>1 DEF Same
  <2>5. quizzes'[new] = u
    BY <1>1, <1>2, <2>1
  <2>6. quizzes[new].status # "active" /\ new \notin Cleared
    BY <1>1 DEF Cleared
  <2>7. /\ Levels' = Append(Levels, RunMisses(r, e))
        /\ Away' = {quizzes[x].questions : x \in Cleared \ {new}}
    BY <1>1, <2>2, <2>3, <2>4, <2>5, <2>6, PushMoves
  <2>8. Away' = Away
    BY <2>6, <2>7 DEF Away
  <2>9. Stack!Descend
    <3> DEFINE T == RunMisses(r, e)
    <3>1. /\ T \in SUBSET Levels[cascade.depth] /\ T # {} /\ T # Levels[cascade.depth]
          /\ Levels' = Append(Levels, T)
      BY <1>1, <1>2, <1>3, <1>5, <1>7, <2>7, FewerInRun
    <3>2. cascade.depth \in Nat \ {0}
      BY <1>5
    <3> HIDE DEF T
    <3> QED
      BY <1>1, <2>3, <2>8, <3>1, <3>2, DescendMaps
  <2> QED
    BY <2>9 DEF Stack!Next
<1> QED
  BY <1>6, <1>7

LEMMA RestoreQuizMaps ==
  ASSUME TypeOK, LevelsAreAStack, TypeOK', LevelsAreAStack', NEW q \in QuizIds,
         NEW seed \in Seeds, RestoreQuiz(q, seed)
  PROVE  Stack!Next
<1> DEFINE t == Restored(cascade, quizzes[q], seed)
           T == quizzes[q].questions
<1>1. /\ cascade.status # "purged" /\ quizzes[q].status = "cleared"
      /\ quizzes' = [quizzes EXCEPT ![q] = t]
      /\ cascade' = [PushDepth(cascade) EXCEPT !.status = "open"]
  BY DEF RestoreQuiz
<1>2. quizzes[q] \in Quiz /\ cascade \in Cascades /\ quizzes \in [QuizIds -> Quiz]
  BY DEF TypeOK
<1>3. cascade'.depth = cascade.depth + 1 /\ cascade'.status = "open"
  BY <1>1, <1>2 DEF PushDepth, Cascades
<1>4. t.status = "active" /\ t.level = cascade.depth + 1 /\ t.questions = quizzes[q].questions
  BY <1>2 DEF Restored, Reset, Quiz
<1> HIDE DEF t
<1>5. quizzes'[q] = t /\ \A x \in QuizIds \ {q} : Same(x)
  BY <1>1, <1>2 DEF Same
<1>6. /\ Levels' = Append(Levels, T)
      /\ Away' = {quizzes[x].questions : x \in Cleared \ {q}}
  BY <1>1, <1>3, <1>4, <1>5, PushMoves
<1>7. q \in Cleared /\ T \in Away
  BY <1>1 DEF Cleared, Away
<1>8. Away' \in {Away, Away \ {T}}
  BY <1>6, <1>7 DEF Away
<1> HIDE DEF T
<1>9. Stack!Restore
  BY <1>3, <1>6, <1>7, <1>8, RestoreMaps
<1> QED
  BY <1>9 DEF Stack!Next

LEMMA PurgeQuizMaps ==
  ASSUME TypeOK, LevelsAreAStack, NEW q \in QuizIds, PurgeQuiz(q)
  PROVE  Stack!Next \/ UNCHANGED Stack!svars
<1> DEFINE T == quizzes[q].questions
<1>1. /\ cascade.status = "open" /\ cascade.status # "purged" /\ quizzes[q].status = "cleared"
      /\ cascade' = cascade
  BY DEF PurgeQuiz
<1>2. quizzes \in [QuizIds -> Quiz]
  BY DEF TypeOK
<1>3. quizzes'[q].status = "purged"
  BY NoRowGrades DEF PurgeQuiz
<1>4. ASSUME NEW x \in QuizIds \ {q} PROVE Same(x)
  <2>1. quizzes'[x] \in {[quizzes[x] EXCEPT !.parent = NoQuiz], quizzes[x]}
    BY <1>4 DEF PurgeQuiz
  <2> QED
    BY <1>2, <2>1 DEF Same, Quiz
<1>5. Active' = Active /\ Cleared' = Cleared \ {q} /\ q \in Cleared /\ q \notin Active
  BY <1>1, <1>3, <1>4 DEF Active, Cleared, Same
<1>6. \A x \in Active : /\ quizzes'[x].level = quizzes[x].level
                        /\ quizzes'[x].questions = quizzes[x].questions
  BY <1>4, <1>5 DEF Same, Active
<1>7. IsStack(Active, quizzes, cascade.depth)
  BY <1>1, StackShape
<1>8. StackIn(Active, quizzes', cascade.depth) = StackIn(Active, quizzes, cascade.depth)
  BY <1>6, <1>7, SameLevels
<1>9. Levels' = Levels
  BY <1>1, <1>5, <1>8 DEF Levels
<1>10. \A x \in Cleared \ {q} : quizzes'[x].questions = quizzes[x].questions
  BY <1>4 DEF Same, Cleared
<1>11. Away' = {quizzes[x].questions : x \in Cleared \ {q}}
  BY <1>5, <1>10 DEF Away
<1>12. T \in Away /\ Away' \in {Away, Away \ {T}}
  BY <1>5, <1>11 DEF Away
<1> HIDE DEF T
<1>13. Stack!Purge \/ UNCHANGED Stack!svars
  BY <1>1, <1>9, <1>12, PurgeMaps
<1> QED
  BY <1>13 DEF Stack!Next

\* Every step of the cascade is a step of the stack or none.
LEMMA StackNext ==
  TypeOK /\ LevelsAreAStack /\ GradesInv /\ TilesInv /\ TypeOK' /\ LevelsAreAStack'
    /\ [Next]_vars => [Stack!Next]_(Stack!svars)
<1> SUFFICES ASSUME TypeOK, LevelsAreAStack, GradesInv, TilesInv, TypeOK', LevelsAreAStack',
                    [Next]_vars
             PROVE  Stack!Next \/ UNCHANGED Stack!svars
  OBVIOUS
<1>0. cascade \in Cascades /\ quizzes \in [QuizIds -> Quiz]
  BY DEF TypeOK
<1>1. ASSUME cascade.status # "purged", cascade'.depth = cascade.depth,
             cascade'.status = cascade.status, \A x \in QuizIds : Same(x)
      PROVE  UNCHANGED Stack!svars
  BY <1>1, NothingMoves, StutterMaps
<1>2. ASSUME NEW q \in QuizIds, NEW t, quizzes' = [quizzes EXCEPT ![q] = t],
             t.status = quizzes[q].status, t.level = quizzes[q].level,
             t.questions = quizzes[q].questions, cascade.status # "purged",
             UNCHANGED cascade
      PROVE  UNCHANGED Stack!svars
  <2>1. \A x \in QuizIds : Same(x)
    BY <1>0, <1>2 DEF Same
  <2> QED
    BY <1>1, <1>2, <2>1
<1>3. ASSUME NEW q \in QuizIds, NEW a, NEW s, NEW i \in Questions,
             NEW g \in Grades, Grade(q, a, s, i, g)
      PROVE  UNCHANGED Stack!svars
  <2> DEFINE t == Regraded(quizzes[q], i, g)
  <2>1. /\ quizzes' = [quizzes EXCEPT ![q] = t] /\ cascade.status # "purged"
        /\ UNCHANGED cascade
    BY <1>3 DEF Grade, Live
  <2>2. /\ t.status = quizzes[q].status /\ t.level = quizzes[q].level
        /\ t.questions = quizzes[q].questions
    BY <1>0 DEF Regraded, Quiz
  <2> HIDE DEF t
  <2> QED
    BY <1>2, <2>1, <2>2
<1>4. ASSUME NEW q \in QuizIds, NEW a, NEW s, NEW p \in CursorRequests,
             MoveCursor(q, a, s, p)
      PROVE  UNCHANGED Stack!svars
  <2> DEFINE t == [quizzes[q] EXCEPT !.cursor = p]
  <2>1. /\ quizzes' = [quizzes EXCEPT ![q] = t] /\ cascade.status # "purged"
        /\ UNCHANGED cascade
    BY <1>0, <1>4 DEF MoveCursor, Live
  <2>2. /\ t.status = quizzes[q].status /\ t.level = quizzes[q].level
        /\ t.questions = quizzes[q].questions
    BY <1>0 DEF Quiz
  <2> HIDE DEF t
  <2> QED
    BY <1>2, <2>1, <2>2
<1>5. ASSUME NEW q \in QuizIds, NEW o \in Opts, NEW f \in OptionRequests,
             SetQuizOptions(q, o, f)
      PROVE  UNCHANGED Stack!svars
  <2> DEFINE t == [quizzes[q] EXCEPT !.opts = Merge(quizzes[q].opts, o, f)]
  <2>1. /\ quizzes' = [quizzes EXCEPT ![q] = t] /\ cascade.status # "purged"
        /\ UNCHANGED cascade
    BY <1>0, <1>5 DEF SetQuizOptions, Live
  <2>2. /\ t.status = quizzes[q].status /\ t.level = quizzes[q].level
        /\ t.questions = quizzes[q].questions
    BY <1>0 DEF Quiz
  <2> HIDE DEF t
  <2> QED
    BY <1>2, <2>1, <2>2
<1>6. ASSUME NEW o \in Opts, NEW f \in OptionRequests, SetCascadeOptions(o, f)
      PROVE  UNCHANGED Stack!svars
  <2>1. /\ cascade.status # "purged" /\ cascade'.depth = cascade.depth
        /\ cascade'.status = cascade.status /\ UNCHANGED quizzes
    BY <1>0, <1>6 DEF SetCascadeOptions, Cascades
  <2> QED
    BY <1>1, <2>1 DEF Same
<1>7. ASSUME NEW q \in QuizIds, NEW a, NEW s, NEW seed \in Seeds, NEW new \in QuizIds,
             NEW e \in Positions(Questions), FinishSegment(q, a, s, e, seed, new)
      PROVE  Stack!Next \/ UNCHANGED Stack!svars
  <2>1. e \in Int
    BY PositionsAreInts
  <2> QED
    BY <1>7, <2>1, FinishSegmentMaps
<1>8. ASSUME TrashCascade \/ RestoreCascade PROVE Stack!Toggle
  <2>1. /\ cascade.status # "purged" /\ cascade'.depth = cascade.depth
        /\ UNCHANGED quizzes
        /\ (cascade'.status = "open") = (cascade.status # "open")
    BY <1>0, <1>8 DEF TrashCascade, RestoreCascade, Cascades
  <2>2. Levels' = Levels /\ Away' = Away
    BY <2>1, NothingMoves DEF Same
  <2>3. cascade.depth \in Nat \ {0}
    BY <2>1, LevelsFacts
  <2> QED
    BY <2>1, <2>2, <2>3, ToggleMaps
<1>9. ASSUME PurgeCascade PROVE Stack!End
  <2>1. cascade.status # "open" /\ cascade'.status # "open" /\ cascade'.depth = 0
    BY <1>0, <1>9 DEF PurgeCascade, Cascades
  <2>2. \A x \in QuizIds : quizzes'[x].status # "cleared"
    BY <1>9, NoRowGrades DEF PurgeCascade, IdFree
  <2>3. Away' = {}
    BY <2>2 DEF Away, Cleared
  <2> QED
    BY <2>1, <2>3, EndMaps
<1>10. ASSUME UNCHANGED vars PROVE UNCHANGED Stack!svars
  BY <1>10 DEF vars, Stack!svars, Rows, Active, QuizAt
<1> QED
  BY <1>3, <1>4, <1>5, <1>6, <1>7, <1>8, <1>9, <1>10, FinishMaps, RestoreQuizMaps,
     PurgeQuizMaps DEF Next, Stack!Next

LEMMA StackInit == Init => Stack!Init
<1> SUFFICES ASSUME Init PROVE Stack!Init
  OBVIOUS
<1>1. cascade.status = "open" /\ cascade.depth = 1 /\ Source \in QuizIds
  BY RulesAssumption DEF Init
<1>2. quizzes[Source].status = "active" /\ quizzes[Source].questions = Questions
  BY <1>1 DEF Init, NewQuiz
<1>3. \A x \in QuizIds \ {Source} : quizzes[x].status = "absent"
  BY NoRowGrades DEF Init
<1>4. Active = {Source} /\ Rows \ Active = {}
  BY <1>1, <1>2, <1>3 DEF Active, Rows
<1>5. quizzes[Source].level = 1
  BY <1>1 DEF Init, NewQuiz
<1>6. QuizAt(1) = Source
  BY <1>4, <1>5 DEF QuizAt
<1>7. [l \in 1 .. cascade.depth |-> quizzes[QuizAt(l)].questions] = <<Questions>>
  BY <1>1, <1>2, <1>6
<1> QED
  BY <1>1, <1>4, <1>7 DEF Stack!Init

\* What the eleven operations do to a cascade is what LevelStack does: only the top
\* is played, a descent and a drill put fewer questions on it, a quiz put away leaves
\* fewer or none, and only what is in the Trash comes back (ops.rs, rules.rs).
THEOREM CascadeImplementsLevelStack == Spec => ImplementsLevelStack
<1>1. TypeOK /\ TypeOK' /\ GradesInv /\ [Next]_vars => GradesInv'
  BY GradesStep
<1>2. TypeOK /\ TypeOK' /\ GradesInv /\ TilesInv /\ [Next]_vars => TilesInv'
  BY TilesStep
<1> QED
  BY <1>1, <1>2, InitGrades, InitTiles, TypeCorrect, StackCorrect, StackInit, StackNext, PTL
     DEF Spec, Stack!Spec, ImplementsLevelStack
=============================================================================
