--------------------------- MODULE DownloadsProofs ---------------------------
(***************************************************************************)
(* The theorems of Downloads, for any number of questions, attempts, page  *)
(* sizes, managers and events: a quiz that counts as ready to play has     *)
(* every row, each at its position in the attempt the device holds         *)
(* (ReadyIsWhole), and shows every grade of that attempt which its cursor  *)
(* has passed (ReadyIsUpToDate).                                           *)
(*                                                                         *)
(* WitnessIsHonest looks at one row; what is inductive is that a quiz      *)
(* without its pending mark has no placed row at all, or all of them, and  *)
(* that rows without a quiz have no position (WholeInv).                   *)
(*                                                                         *)
(* ReadyIsCurrent looks at one moment; what is inductive says at every     *)
(* stage of a cycle and of a fetch up to which sequence the rows are paid  *)
(* (CurrentInv): a pulled quiz row stands for a set of graded questions,   *)
(* and rows that are as many as it counts are those.                       *)
(***************************************************************************)
EXTENDS Downloads, FiniteSetTheorems, TLAPS

-----------------------------------------------------------------------------
(* Types                                                                   *)

QuizRows == [attempt : Attempts, graded : Nat, pending : BOOLEAN]
Partial  == UNION {[S -> Grades] : S \in SUBSET Questions}
Pulls    == [stage : {"idle", "quizzes", "grades", "write", "rebase", "advance"},
             cur : Int, seq : Nat, qrf : BOOLEAN,
             quiz : QuizRows \cup {NoQuiz}, grades : Partial, fresh : SUBSET Questions]
Fetches  == [stage : {"idle", "sync", "label", "page", "lay"},
             seen : QuizRows \cup {NoQuiz}, grades : BOOLEAN, tries : Nat,
             from : Nat, label : Nat, got : Partial, crossed : BOOLEAN]

ServerTyped ==
  /\ attempt \in Attempts
  /\ grade \in [Questions -> Grades \cup {Ungraded}]
  /\ sync_seq \in Nat

\* A manager at work goes by a quiz row the device had.
FetchesTyped ==
  /\ dl \in [Managers -> Fetches]
  /\ \A m \in Managers : dl[m].stage # "idle" => dl[m].seen \in QuizRows

TypeInv ==
  /\ ServerTyped
  /\ quiz \in QuizRows \cup {NoQuiz}
  /\ Held \subseteq Questions
  /\ cursor \in Nat
  /\ pull \in Pulls
  /\ FetchesTyped

LEMMA AttemptsArePositive == Attempts \subseteq Nat \ {0}
BY FS_CardinalityType, DownloadsAssumption

LEMMA QuizRowsAreQuizzes == \A p \in QuizRows : p # NoQuiz /\ p.attempt # NoQuiz.attempt
BY AttemptsArePositive DEF QuizRows, NoQuiz, Null

LEMMA MarkTyped ==
  ASSUME NEW p \in QuizRows, NEW b \in BOOLEAN
  PROVE  [p EXCEPT !.pending = b] \in QuizRows /\ [p EXCEPT !.pending = b].attempt = p.attempt
BY DEF QuizRows

LEMMA PartialDomain == \A f \in Partial : DOMAIN f \subseteq Questions
BY DEF Partial

LEMMA NoGradesTyped == NoGrades \in Partial
<1>1. NoGrades \in [{} -> Grades]
  BY DEF NoGrades
<1> QED
  BY <1>1 DEF Partial

LEMMA OverTyped ==
  ASSUME NEW f \in Partial, NEW g \in Partial
  PROVE  Over(f, g) \in Partial
<1> DEFINE S == DOMAIN f \cup DOMAIN g
<1>1. S \in SUBSET Questions
  BY PartialDomain
<1>2. Over(f, g) \in [S -> Grades]
  BY DEF Over, Partial
<1> QED
  BY <1>1, <1>2 DEF Partial

LEMMA GradedTyped ==
  ASSUME grade \in [Questions -> Grades \cup {Ungraded}]
  PROVE  /\ Cardinality(Graded(grade)) \in Nat
         /\ \A G \in SUBSET Graded(grade) : [q \in G |-> grade[q]] \in Partial
<1>1. Graded(grade) \subseteq Questions
  BY DEF Graded
<1>2. IsFiniteSet(Graded(grade))
  BY <1>1, FS_Subset, DownloadsAssumption
<1>3. ASSUME NEW G \in SUBSET Graded(grade) PROVE [q \in G |-> grade[q]] \in Partial
  <2>1. [q \in G |-> grade[q]] \in [G -> Grades]
    BY DEF Graded
  <2> QED
    BY <1>1, <2>1 DEF Partial
<1> QED
  BY <1>2, <1>3, FS_CardinalityType

LEMMA NothingUnderWay ==
  /\ NoPull \in Pulls
  /\ NoFetch \in Fetches /\ NoFetch.stage = "idle"
BY NoGradesTyped DEF NoPull, NoFetch, Pulls, Fetches, Null

\* A manager's step.
LEMMA ToTyped ==
  ASSUME FetchesTyped, NEW m \in Managers, NEW d \in Fetches, To(m, d),
         d.stage # "idle" => d.seen \in QuizRows
  PROVE  FetchesTyped'
BY DEF FetchesTyped, To

LEMMA CrossedTyped ==
  ASSUME FetchesTyped, dl' = Crossed
  PROVE  FetchesTyped'
<1>1. ASSUME NEW m \in Managers
      PROVE  /\ Crossed[m] \in Fetches
             /\ Crossed[m].stage = dl[m].stage /\ Crossed[m].seen = dl[m].seen
  BY DEF Crossed, FetchesTyped, Fetches
<1> QED
  BY <1>1 DEF Crossed, FetchesTyped

-----------------------------------------------------------------------------
(* All the rows or none                                                    *)

Placed(r) == {q \in DOMAIN r : r[q].order # 0}

AllAt(r, a) == DOMAIN r = Questions /\ \A q \in Questions : r[q].order = a

WholeInv ==
  /\ quiz = NoQuiz => Placed(rows) = {}
  /\ quiz # NoQuiz /\ ~quiz.pending => Placed(rows) = {} \/ AllAt(rows, quiz.attempt)

DownloadsInv == TypeInv /\ WholeInv

\* A row pulled into the base has no position; one held keeps its own.
LEMMA SettledRows ==
  ASSUME DownloadsInv, NEW p \in QuizRows, quiz.pending = FALSE
  PROVE  LET r == Settled(p) IN
         /\ r.quiz \in QuizRows /\ r.quiz.attempt = p.attempt
         /\ DOMAIN r.rows \subseteq Questions
         /\ r.fresh \subseteq Questions
         /\ Placed(r.rows) = {} \/ AllAt(r.rows, p.attempt)
<1> DEFINE implied == source /\ (pull.qrf \/ Held # {})
           known == implied \/ Held = Questions
           bare == [q \in Questions |-> Row(Ungraded, 0)]
           kept == IF SeedChanged(p) THEN IF known THEN bare ELSE NoRows
                   ELSE IF known THEN Over(rows, bare) ELSE rows
           pulled == [q \in DOMAIN pull.grades |-> Row(pull.grades[q], 0)]
           laid == Over(pulled, kept)
           whole == DOMAIN laid = Questions
           final == IF whole THEN [q \in Questions |-> Row(laid[q].grade, p.attempt)] ELSE laid
           short == [quiz |-> p, rows |-> rows, fresh |-> pull.fresh]
           behind == Cardinality(Graded(GradesOf(final))) < p.graded
           long == [quiz |-> [p EXCEPT !.pending = behind],
                    rows |-> final,
                    fresh |-> pull.fresh \cup
                                (IF whole THEN Questions ELSE DOMAIN pull.grades)]
           enough == quiz # NoQuiz /\ ~SeedChanged(p) /\ DOMAIN pull.grades = {} /\ Witness
<1>1. Settled(p) = IF enough THEN short ELSE long
  BY DEF Settled
<1>2. /\ Held \subseteq Questions
      /\ DOMAIN pull.grades \subseteq Questions /\ pull.fresh \subseteq Questions
  BY PartialDomain DEF DownloadsInv, TypeInv, Pulls
<1> HIDE DEF behind
<1>3. behind \in BOOLEAN
  BY DEF behind
<1>4. long.quiz \in QuizRows /\ long.quiz.attempt = p.attempt
  BY <1>3, MarkTyped
<1>5. CASE enough
  <2>1. quiz.attempt = p.attempt /\ Placed(rows) # {}
    BY <1>5 DEF SeedChanged, Witness, Placed, Held
  <2>2. AllAt(rows, p.attempt)
    BY <1>5, <2>1 DEF DownloadsInv, WholeInv
  <2>3. Settled(p).quiz = p /\ Settled(p).rows = rows /\ Settled(p).fresh = pull.fresh
    BY <1>1, <1>5
  <2> QED
    BY <1>2, <2>2, <2>3 DEF AllAt
<1>6. CASE ~enough
  <2>1. DOMAIN kept \subseteq Questions /\ (Placed(kept) = {} \/ DOMAIN kept = Questions)
    <3>1. CASE SeedChanged(p)
      BY <3>1 DEF Placed, Row, NoRows
    <3>2. CASE ~SeedChanged(p) /\ known
      <4>1. DOMAIN kept = Questions
        BY <1>2, <3>2 DEF Over, Held
      <4> QED
        BY <4>1
    <3>3. CASE ~SeedChanged(p) /\ ~known
      <4>1. kept = rows
        BY <3>3
      <4> QED
        BY <1>2, <4>1 DEF Held, DownloadsInv, WholeInv, AllAt
    <3> QED
      BY <3>1, <3>2, <3>3
  <2>2. DOMAIN laid = DOMAIN pull.grades \cup DOMAIN kept
    BY DEF Over
  <2>3. \A q \in DOMAIN laid :
          laid[q] = IF q \in DOMAIN pull.grades THEN Row(pull.grades[q], 0) ELSE kept[q]
    BY DEF Over
  <2>4. CASE whole
    <3>1. AllAt(final, p.attempt)
      BY <2>4 DEF AllAt, Row
    <3>2. DOMAIN final = Questions
      BY <3>1 DEF AllAt
    <3> HIDE DEF final
    <3>4. long.rows = final /\ long.fresh \subseteq Questions
      BY <1>2
    <3> QED
      BY <1>1, <1>6, <1>4, <3>1, <3>2, <3>4
  <2>5. CASE ~whole
    <3>1. Placed(kept) = {}
      BY <1>2, <2>1, <2>2, <2>5
    <3>2. Placed(laid) = {}
      <4> HIDE DEF laid, kept
      <4>1. \A q \in DOMAIN kept : kept[q].order = 0
        BY <3>1 DEF Placed
      <4>2. \A q \in DOMAIN laid : laid[q].order = 0
        <5> TAKE q \in DOMAIN laid
        <5>1. CASE q \in DOMAIN pull.grades
          BY <2>3, <5>1 DEF Row
        <5>2. CASE q \notin DOMAIN pull.grades
          BY <2>2, <2>3, <4>1, <5>2
        <5> QED
          BY <5>1, <5>2
      <4> QED
        BY <4>2 DEF Placed
    <3>3. final = laid /\ DOMAIN laid \subseteq Questions
      BY <1>2, <2>1, <2>2, <2>5
    <3> HIDE DEF final, laid
    <3>5. long.rows = final /\ long.fresh \subseteq Questions
      BY <1>2
    <3> QED
      BY <1>1, <1>6, <1>4, <3>2, <3>3, <3>5
  <2> QED
    BY <2>4, <2>5
<1> QED
  BY <1>5, <1>6

-----------------------------------------------------------------------------
(* Preserved by every step                                                 *)

LEMMA DownloadsInit == Init => DownloadsInv
<1> SUFFICES ASSUME Init PROVE DownloadsInv
  OBVIOUS
<1>1. PICK s \in Starts :
        /\ grade = [q \in Questions |-> IF q \in s.graded THEN "correct" ELSE Ungraded]
        /\ quiz = [attempt |-> 1, graded |-> Cardinality(s.graded), pending |-> s.graded # {}]
  BY DEF Init
<1>2. s.graded \subseteq Questions
  BY DownloadsAssumption
<1>3. Cardinality(s.graded) \in Nat
  BY <1>2, FS_Subset, FS_CardinalityType, DownloadsAssumption
<1>4. 1 \in Attempts
  <2>1. Cardinality(Attempts) \in Nat
    BY FS_CardinalityType, DownloadsAssumption
  <2>2. attempt = 1
    BY DEF Init
  <2>3. Attempts # {}
    BY DownloadsAssumption
  <2> QED
    BY <2>1, <2>3, DownloadsAssumption
<1>5. ServerTyped
  BY <1>1, <1>4 DEF Init, ServerTyped, Grades
<1>6. quiz \in QuizRows
  BY <1>1, <1>3, <1>4 DEF QuizRows
<1>7. Held = {} /\ Placed(rows) = {}
  BY DEF Init, Held, NoRows, Placed
<1>8. FetchesTyped
  BY NothingUnderWay DEF Init, FetchesTyped
<1> QED
  BY <1>5, <1>6, <1>7, <1>8, NothingUnderWay DEF Init, DownloadsInv, TypeInv, WholeInv

\* Steps that leave the device's rows alone.
LEMMA ElsewhereStep == DownloadsInv /\ Elsewhere => DownloadsInv'
<1> SUFFICES ASSUME DownloadsInv, Elsewhere PROVE DownloadsInv'
  OBVIOUS
<1>1. UNCHANGED device /\ ServerTyped
  BY DEF Elsewhere, GradeElsewhere, ResetElsewhere, RaiseFloor, DownloadsInv, TypeInv
<1>2. ServerTyped'
  BY <1>1 DEF ServerTyped, Elsewhere, GradeElsewhere, ResetElsewhere, RaiseFloor, Stamped
<1> QED
  BY <1>1, <1>2 DEF device, base, DownloadsInv, TypeInv, WholeInv, FetchesTyped, Held

\* A step of the cycle that only moves the pull on, or the triggers and the window.
LEMMA QuietStep ==
  ASSUME DownloadsInv, UNCHANGED <<server, base, cursor>>, pull' \in Pulls, FetchesTyped'
  PROVE  DownloadsInv'
BY DEF server, base, DownloadsInv, TypeInv, ServerTyped, WholeInv, Held

LEMMA CycleQuiet ==
  DownloadsInv /\ (Send \/ ReadQuizzes \/ ReadGrades \/ SyncFails) => DownloadsInv'
<1> SUFFICES ASSUME DownloadsInv, Send \/ ReadQuizzes \/ ReadGrades \/ SyncFails
             PROVE  DownloadsInv'
  OBVIOUS
<1>1. pull \in Pulls /\ FetchesTyped /\ ServerTyped /\ cursor \in Nat
  BY DEF DownloadsInv, TypeInv
<1>2. UNCHANGED dl => FetchesTyped'
  BY <1>1 DEF FetchesTyped
<1>3. CASE Send
  <2> DEFINE cur == IF cursor < floor THEN Null ELSE cursor
             qrf == wanted \/ Held # {}
             asked == [NoPull EXCEPT !.stage = "quizzes", !.cur = cur,
                                     !.seq = sync_seq, !.qrf = qrf]
  <2>3. cur \in Int /\ qrf \in BOOLEAN
    BY <1>1 DEF Null
  <2>4. pull' = asked
    BY <1>3 DEF Send
  <2> HIDE DEF cur, qrf
  <2>1. pull' \in Pulls
    BY <1>1, <2>3, <2>4, NoGradesTyped DEF NoPull, Pulls, ServerTyped
  <2>2. FetchesTyped'
    BY <1>1, <1>3, CrossedTyped DEF Send
  <2> QED
    BY <1>3, <2>1, <2>2, QuietStep DEF Send
<1>4. CASE ReadQuizzes
  <2> DEFINE now == [attempt |-> attempt, graded |-> Cardinality(Graded(grade)),
                    pending |-> FALSE]
  <2>1. now \in QuizRows
    BY <1>1, GradedTyped DEF ServerTyped, QuizRows
  <2>2. pull' \in Pulls
    BY <1>1, <1>4, <2>1 DEF ReadQuizzes, Pulls
  <2> QED
    BY <1>2, <1>4, <2>2, QuietStep DEF ReadQuizzes
<1>5. CASE ReadGrades
  <2> DEFINE G == {q \in Graded(grade) : pull.qrf /\ InRange(stamp[q])}
  <2>1. [q \in G |-> grade[q]] \in Partial
    BY <1>1, GradedTyped DEF ServerTyped
  <2> HIDE DEF G
  <2>2. pull' = [pull EXCEPT !.stage = "write", !.grades = [q \in G |-> grade[q]]]
    BY <1>5 DEF ReadGrades, G
  <2>3. pull' \in Pulls
    BY <1>1, <2>1, <2>2 DEF Pulls
  <2> QED
    BY <1>2, <1>5, <2>3, QuietStep DEF ReadGrades
<1>6. CASE SyncFails
  BY <1>2, <1>6, NothingUnderWay, QuietStep DEF SyncFails
<1> QED
  BY <1>3, <1>4, <1>5, <1>6

LEMMA ManagerQuiet ==
  ASSUME DownloadsInv, NEW m \in Managers,
         Start(m) \/ Reread(m) \/ Label(m) \/ Page(m) \/ FetchFails(m)
  PROVE  DownloadsInv'
<1>1. pull \in Pulls /\ FetchesTyped /\ ServerTyped /\ quiz \in QuizRows \cup {NoQuiz}
  BY DEF DownloadsInv, TypeInv
<1>2. dl[m] \in Fetches /\ (dl[m].stage # "idle" => dl[m].seen \in QuizRows)
  BY <1>1 DEF FetchesTyped
<1>3. UNCHANGED <<server, base, cursor, pull>>
  BY DEF Start, Reread, Label, Page, FetchFails
<1>4. SUFFICES ASSUME NEW d \in Fetches, d.stage # "idle" => d.seen \in QuizRows, To(m, d)
               PROVE  DownloadsInv'
  <2>1. CASE Start(m)
    <3> DEFINE fetch == quiz.pending /\ quiz.graded > 0
               d == [NoFetch EXCEPT !.seen = quiz, !.grades = fetch,
                                    !.stage = IF fetch THEN "sync" ELSE "lay",
                                    !.crossed = ~fetch /\ pull.stage # "idle"]
    <3>1. quiz \in QuizRows
      BY <1>1, <2>1 DEF Start
    <3>2. fetch \in BOOLEAN
      BY <3>1 DEF QuizRows
    <3>3. To(m, d)
      BY <2>1 DEF Start
    <3> HIDE DEF fetch
    <3>4. d \in Fetches /\ d.seen \in QuizRows
      BY <3>1, <3>2, NoGradesTyped DEF NoFetch, Fetches
    <3> QED
      BY <1>4, <3>3, <3>4
  <2>2. CASE Reread(m)
    <3> DEFINE row == IF quiz = NoQuiz THEN dl[m].seen ELSE quiz
               crossed == pull.stage # "idle"
               tries == dl[m].tries + 1
               d == [dl[m] EXCEPT !.stage = "label", !.tries = tries, !.seen = row,
                                  !.crossed = crossed]
    <3>1. row \in QuizRows
      BY <1>1, <1>2, <2>2 DEF Reread
    <3>3. To(m, d)
      BY <1>2, <2>2 DEF Reread, Fetches
    <3>4. crossed \in BOOLEAN /\ tries \in Nat
      BY <1>2 DEF Fetches
    <3> HIDE DEF row, crossed, tries
    <3>2. d \in Fetches /\ d.seen \in QuizRows
      BY <1>2, <3>1, <3>4 DEF Fetches
    <3> QED
      BY <1>4, <3>2, <3>3
  <2>3. CASE Label(m)
    <3> DEFINE d == [dl[m] EXCEPT !.stage = "page", !.label = attempt]
    <3>1. d \in Fetches /\ d.seen \in QuizRows
      BY <1>1, <1>2, <2>3, AttemptsArePositive DEF Label, Fetches, ServerTyped
    <3>2. To(m, d)
      BY <2>3 DEF Label
    <3> QED
      BY <1>4, <3>1, <3>2
  <2>4. CASE Page(m)
    <3> DEFINE end == dl[m].from + INDEX_PAGE
               G == {q \in Graded(grade) : dl[m].from <= q /\ q < end}
               got == Over([q \in G |-> grade[q]], dl[m].got)
               again == IF dl[m].tries < 2
                        THEN [NoFetch EXCEPT !.stage = "sync", !.seen = dl[m].seen,
                                             !.grades = TRUE, !.tries = dl[m].tries]
                        ELSE NoFetch
               next == [dl[m] EXCEPT !.stage = "label", !.from = end, !.label = 0, !.got = got]
               last == [dl[m] EXCEPT !.stage = "lay", !.from = 0, !.label = 0, !.got = got]
    <3>1. dl[m].seen \in QuizRows
      BY <1>2, <2>4 DEF Page
    <3>2. end \in Nat
      BY <1>2, DownloadsAssumption DEF Fetches
    <3>3. got \in Partial
      <4>1. [q \in G |-> grade[q]] \in Partial
        BY <1>1, GradedTyped DEF ServerTyped
      <4>2. dl[m].got \in Partial
        BY <1>2 DEF Fetches
      <4> QED
        BY <4>1, <4>2, OverTyped
    <3>4. To(m, again) \/ To(m, next) \/ To(m, last)
      BY <2>4 DEF Page
    <3> HIDE DEF end, got
    <3>5. again \in Fetches /\ (again.stage # "idle" => again.seen \in QuizRows)
      BY <1>2, <3>1, NothingUnderWay, NoGradesTyped DEF NoFetch, Fetches
    <3>6. next \in Fetches /\ next.seen \in QuizRows
      BY <1>2, <3>1, <3>2, <3>3 DEF Fetches
    <3>7. last \in Fetches /\ last.seen \in QuizRows
      BY <1>2, <3>1, <3>3 DEF Fetches
    <3> HIDE DEF again, next, last
    <3> QED
      BY <1>4, <3>4, <3>5, <3>6, <3>7
  <2>5. CASE FetchFails(m)
    BY <1>4, <2>5, NothingUnderWay DEF FetchFails
  <2> QED
    BY <2>1, <2>2, <2>3, <2>4, <2>5
<1>5. FetchesTyped'
  BY <1>1, <1>4, ToTyped
<1> QED
  BY <1>1, <1>3, <1>5, QuietStep

\* A page's grades keep the positions of the rows held, and bring none.
LEMMA WritePageStep == DownloadsInv /\ WritePage => DownloadsInv'
<1> SUFFICES ASSUME DownloadsInv, WritePage PROVE DownloadsInv'
  OBVIOUS
<1> DEFINE G == DOMAIN pull.grades
           Order(q) == IF q \in Held THEN rows[q].order ELSE 0
           new == [q \in G |-> Row(pull.grades[q], Order(q))]
<1>1. pull \in Pulls /\ G \subseteq Questions /\ Held \subseteq Questions
  BY PartialDomain DEF DownloadsInv, TypeInv, Pulls
<1>2. pull' \in Pulls
  BY <1>1, NoGradesTyped DEF WritePage, Pulls
<1>3. TypeInv' /\ WholeInv'
  <2>1. UNCHANGED <<server, quiz, cursor, dl>>
    BY DEF WritePage
  <2>2. CASE UNCHANGED rows
    BY <1>2, <2>1, <2>2
       DEF server, DownloadsInv, TypeInv, ServerTyped, FetchesTyped, WholeInv, Held
  <2>3. CASE rows' = Over(new, rows)
    <3>1. DOMAIN rows' = G \cup Held
      BY <2>3 DEF Over, Held
    <3>2. \A q \in DOMAIN rows' : rows'[q].order = Order(q)
      <4> TAKE q \in DOMAIN rows'
      <4>1. CASE q \in G
        <5>1. rows'[q] = Row(pull.grades[q], Order(q))
          BY <2>3, <3>1, <4>1 DEF Over, Held
        <5> QED
          BY <5>1 DEF Row
      <4>2. CASE q \notin G
        <5>1. rows'[q] = rows[q] /\ q \in Held
          BY <2>3, <3>1, <4>2 DEF Over, Held
        <5> QED
          BY <5>1
      <4> QED
        BY <4>1, <4>2
    <3>3. Placed(rows) = {} => Placed(rows') = {}
      BY <3>2 DEF Placed, Held
    <3>4. ASSUME AllAt(rows, quiz.attempt) PROVE AllAt(rows', quiz.attempt)
      BY <1>1, <3>1, <3>2, <3>4 DEF AllAt, Held
    <3>5. Held' \subseteq Questions
      BY <1>1, <3>1 DEF Held
    <3> QED
      BY <1>2, <2>1, <3>3, <3>4, <3>5
         DEF server, DownloadsInv, TypeInv, ServerTyped, FetchesTyped, WholeInv
  <2> QED
    BY <2>2, <2>3 DEF WritePage
<1> QED
  BY <1>3 DEF DownloadsInv

\* Rows taken away make the quiz pending; without any, the rows are as settled.
LEMMA RebaseStep == DownloadsInv /\ Rebase => DownloadsInv'
<1> SUFFICES ASSUME DownloadsInv, Rebase PROVE DownloadsInv'
  OBVIOUS
<1>1. pull \in Pulls /\ quiz \in QuizRows \cup {NoQuiz} /\ Held \subseteq Questions
  BY DEF DownloadsInv, TypeInv
<1>2. UNCHANGED <<server, cursor, dl>> /\ pull' \in Pulls
  BY <1>1 DEF Rebase, Pulls
<1>3. SUFFICES /\ quiz' \in QuizRows \cup {NoQuiz}
               /\ Held' \subseteq Questions
               /\ WholeInv'
  BY <1>2, <1>3 DEF server, DownloadsInv, TypeInv, ServerTyped, FetchesTyped
<1>4. CASE pull.quiz # NoQuiz
  <2> DEFINE full == pull.cur = Null
             r == Settled(pull.quiz)
             gone == IF full /\ pull.qrf THEN Graded(GradesOf(r.rows)) \ r.fresh ELSE {}
             mark == r.quiz.pending \/ gone # {}
  <2>1. pull.quiz \in QuizRows
    BY <1>1, <1>4 DEF Pulls
  <2>2. /\ quiz' = [r.quiz EXCEPT !.pending = mark]
        /\ rows' = Restrict(r.rows, DOMAIN r.rows \ gone)
    BY <1>4 DEF Rebase
  <2>3. CASE quiz.pending
    <3>1. r.quiz = [pull.quiz EXCEPT !.pending = TRUE] /\ r.rows = rows
      BY <2>3 DEF Settled
    <3>2. r.quiz \in QuizRows /\ r.quiz.pending = TRUE
      BY <2>1, <3>1 DEF QuizRows
    <3>3. mark = TRUE
      BY <3>2
    <3> HIDE DEF mark, r, gone
    <3>4. quiz' \in QuizRows /\ quiz'.pending = TRUE
      BY <2>2, <3>2, <3>3 DEF QuizRows
    <3>5. Held' \subseteq Questions
      BY <1>1, <2>2, <3>1 DEF Restrict, Held
    <3> QED
      BY <3>4, <3>5, QuizRowsAreQuizzes DEF WholeInv
  <2>4. CASE ~quiz.pending
    <3>1. quiz.pending = FALSE
      BY <1>1, <2>4 DEF QuizRows, NoQuiz
    <3>2. /\ r.quiz \in QuizRows /\ r.quiz.attempt = pull.quiz.attempt
          /\ DOMAIN r.rows \subseteq Questions
          /\ Placed(r.rows) = {} \/ AllAt(r.rows, pull.quiz.attempt)
      BY <2>1, <3>1, SettledRows
    <3> HIDE DEF r
    <3>3. mark \in BOOLEAN
      BY <3>2 DEF QuizRows
    <3>4. Held' \subseteq Questions
      BY <2>2, <3>2 DEF Restrict, Held
    <3>5. quiz' \in QuizRows /\ quiz'.attempt = pull.quiz.attempt /\ quiz'.pending = mark
      <4> HIDE DEF mark
      <4> QED
        BY <2>2, <3>2, <3>3 DEF QuizRows
    <3>6. ASSUME ~quiz'.pending PROVE Placed(rows') = {} \/ AllAt(rows', quiz'.attempt)
      <4>1. gone = {}
        BY <3>5, <3>6
      <4> HIDE DEF gone
      <4>2. DOMAIN rows' = DOMAIN r.rows /\ \A q \in DOMAIN r.rows : rows'[q] = r.rows[q]
        BY <2>2, <4>1 DEF Restrict
      <4> QED
        BY <3>2, <3>5, <4>2 DEF Placed, AllAt
    <3> QED
      BY <3>4, <3>5, <3>6, QuizRowsAreQuizzes DEF WholeInv
  <2> QED
    BY <2>3, <2>4
<1>5. CASE pull.quiz = NoQuiz /\ pull.cur = Null
  <2>1. quiz' = NoQuiz /\ (rows' = NoRows \/ (quiz = NoQuiz /\ rows' = rows))
    BY <1>5 DEF Rebase
  <2>2. Held' \subseteq Questions /\ Placed(rows') = {}
    BY <1>1, <2>1 DEF Held, NoRows, Placed, DownloadsInv, WholeInv
  <2> QED
    BY <2>1, <2>2 DEF WholeInv
<1>6. CASE pull.quiz = NoQuiz /\ pull.cur # Null
  BY <1>1, <1>6 DEF Rebase, base, Held, DownloadsInv, WholeInv
<1> QED
  BY <1>4, <1>5, <1>6

\* The transaction writes every row, or none.
LEMMA LayStep ==
  ASSUME DownloadsInv, NEW m \in Managers, Lay(m)
  PROVE  DownloadsInv'
<1>1. /\ pull \in Pulls /\ FetchesTyped
      /\ quiz \in QuizRows \cup {NoQuiz}
      /\ dl[m].seen \in QuizRows
  BY DEF DownloadsInv, TypeInv, FetchesTyped, Lay
<1>2. FetchesTyped'
  BY <1>1, NothingUnderWay, ToTyped DEF Lay
<1>3. UNCHANGED <<server, cursor>>
  BY DEF Lay
<1>4. CASE quiz.attempt = dl[m].seen.attempt
  <2> DEFINE GradeOf(q) == IF dl[m].grades
                           THEN IF q \in DOMAIN dl[m].got THEN dl[m].got[q] ELSE Ungraded
                           ELSE IF q \in Held THEN rows[q].grade ELSE Ungraded
  <2>1. quiz \in QuizRows
    BY <1>1, <1>4, QuizRowsAreQuizzes
  <2>2. /\ rows' = [q \in Questions |-> Row(GradeOf(q), quiz.attempt)]
        /\ quiz' = [quiz EXCEPT !.pending = FALSE]
        /\ pull' = [pull EXCEPT !.fresh = @ \ (IF dl[m].grades THEN DOMAIN dl[m].got ELSE {})]
    BY <1>4 DEF Lay
  <2>3. quiz' \in QuizRows /\ quiz'.attempt = quiz.attempt
    BY <2>1, <2>2, MarkTyped
  <2>4. AllAt(rows', quiz.attempt)
    BY <2>2 DEF AllAt, Row
  <2>5. Held' = Questions
    BY <2>4 DEF AllAt, Held
  <2>6. pull' \in Pulls
    BY <1>1, <2>2 DEF Pulls
  <2> QED
    BY <1>2, <1>3, <2>3, <2>4, <2>5, <2>6, QuizRowsAreQuizzes
       DEF server, DownloadsInv, TypeInv, ServerTyped, WholeInv
<1>5. CASE quiz.attempt # dl[m].seen.attempt
  BY <1>1, <1>2, <1>3, <1>5, QuietStep DEF Lay
<1> QED
  BY <1>4, <1>5

LEMMA DropStep == DownloadsInv /\ Drop => DownloadsInv'
<1> SUFFICES ASSUME DownloadsInv, Drop PROVE DownloadsInv'
  OBVIOUS
<1>1. FetchesTyped'
  BY CrossedTyped DEF Drop, DownloadsInv, TypeInv
<1>2. Held' = {} /\ Placed(rows') = {}
  BY DEF Drop, Held, NoRows, Placed
<1>3. quiz' \in QuizRows \cup {NoQuiz}
  <2> DEFINE awaits == AwaitsGrades(quiz)
  <2>1. quiz' = [quiz EXCEPT !.pending = awaits]
    BY DEF Drop
  <2>2. awaits \in BOOLEAN
    BY DEF AwaitsGrades
  <2>3. CASE quiz = NoQuiz
    <3>1. awaits = FALSE
      BY <2>3 DEF AwaitsGrades, NoQuiz
    <3> HIDE DEF awaits
    <3>2. [NoQuiz EXCEPT !.pending = FALSE] = NoQuiz
      <4> DEFINE T == [attempt : {Null}, graded : {0}, pending : BOOLEAN]
      <4>1. NoQuiz \in T /\ NoQuiz.pending = FALSE
        BY DEF NoQuiz
      <4>2. \A z \in T : z.pending = FALSE => [z EXCEPT !.pending = FALSE] = z
        OBVIOUS
      <4> QED
        BY <4>1, <4>2
    <3> QED
      BY <2>1, <2>3, <3>1, <3>2
  <2>4. CASE quiz \in QuizRows
    <3> HIDE DEF awaits
    <3> QED
      BY <2>1, <2>2, <2>4, MarkTyped
  <2> QED
    BY <2>3, <2>4 DEF DownloadsInv, TypeInv
<1> QED
  BY <1>1, <1>2, <1>3 DEF Drop, server, DownloadsInv, TypeInv, ServerTyped, WholeInv

LEMMA DownloadsStep == DownloadsInv /\ [Next]_vars => DownloadsInv'
<1> SUFFICES ASSUME DownloadsInv, [Next]_vars PROVE DownloadsInv'
  OBVIOUS
<1>1. pull \in Pulls /\ FetchesTyped /\ cursor \in Nat /\ ServerTyped
  BY DEF DownloadsInv, TypeInv
<1>2. UNCHANGED dl => FetchesTyped'
  BY <1>1 DEF FetchesTyped
<1>3. CASE Open \/ Lapse
  BY <1>1, <1>2, <1>3, QuietStep DEF Open, Lapse
<1>4. CASE Advance
  <2>1. cursor' \in Nat /\ pull' \in Pulls
    BY <1>1, <1>4, NothingUnderWay DEF Advance, Pulls
  <2> QED
    BY <1>2, <1>4, <2>1
       DEF Advance, server, base, DownloadsInv, TypeInv, ServerTyped, WholeInv, Held
<1>5. CASE Close
  <2>1. FetchesTyped'
    BY <1>5, NothingUnderWay DEF Close, FetchesTyped
  <2> QED
    BY <1>5, <2>1, NothingUnderWay, QuietStep DEF Close
<1>6. CASE UNCHANGED vars
  BY <1>1, <1>2, <1>6, QuietStep DEF vars
<1>7. CASE Next
  BY <1>3, <1>4, <1>5, <1>7, ElsewhereStep, CycleQuiet, ManagerQuiet, WritePageStep,
     RebaseStep, LayStep, DropStep
     DEF Next, Cycle, Materialise
<1> QED
  BY <1>6, <1>7

LEMMA WholeWhenReady == DownloadsInv /\ Ready => AllAt(rows, quiz.attempt)
<1> SUFFICES ASSUME DownloadsInv, Ready PROVE AllAt(rows, quiz.attempt)
  OBVIOUS
<1>1. quiz # NoQuiz /\ ~quiz.pending /\ Placed(rows) # {}
  BY DEF Ready, Complete, Witness, Placed, Held
<1> QED
  BY <1>1 DEF DownloadsInv, WholeInv

\* A quiz that counts as ready to play has every row, each at its position in
\* the present attempt, whatever the other devices, the cycles, the managers of
\* the tabs, the drop pass and a closed app do between its steps (downloads.ts
\* complete).
THEOREM ReadyIsWhole == Spec => []WitnessIsHonest
<1>1. DownloadsInv => WitnessIsHonest
  BY WholeWhenReady DEF WitnessIsHonest, AllAt, Held
<1> QED
  BY <1>1, DownloadsInit, DownloadsStep, PTL DEF Spec

-----------------------------------------------------------------------------
(* What a device owes the server                                           *)

\* The graded rows held.
Shown == {q \in Held : rows[q].grade # Ungraded}

\* They are as the server has them, up to sequence c; and all it has up to c is
\* held.  A quiz counted ungraded without its rows may lack what its row missed.
RightBy(c) ==
  \A q \in Shown : q \in Graded(grade) /\ (rows[q].grade = grade[q] \/ stamp[q] > c)
FullBy(c) ==
  \A q \in Graded(grade) : stamp[q] <= c => q \in Held /\ rows[q].grade = grade[q]
PaidBy(c) == RightBy(c) /\ (FullBy(c) \/ (quiz.graded = 0 /\ ~Witness))

Written == {"rebase", "advance"}

\* Attempts and sequences only grow.
OrderInv ==
  /\ stamp \in [Questions -> Nat] /\ excused \in BOOLEAN
  /\ cursor <= sync_seq /\ \A q \in Questions : stamp[q] <= sync_seq
  /\ pull.stage # "idle" => /\ cursor <= pull.seq /\ pull.seq <= sync_seq
                            /\ pull.cur = Null \/ pull.cur = cursor
  /\ quiz.attempt <= attempt
  /\ pull.quiz # NoQuiz => quiz.attempt <= pull.quiz.attempt /\ pull.quiz.attempt <= attempt
  /\ pull.quiz.pending = FALSE
  /\ pull.stage \in {"idle", "quizzes"} => pull.quiz = NoQuiz
  /\ pull.stage \in {"idle", "quizzes", "grades"} => pull.grades = NoGrades

\* What the counter of the quiz row says of the rows.
CountInv ==
  /\ quiz # NoQuiz /\ ~quiz.pending /\ Held = {} => quiz.graded = 0
  /\ quiz.attempt = attempt /\ quiz.graded > 0 => Graded(grade) # {}
  /\ pull.quiz # NoQuiz /\ quiz.attempt = pull.quiz.attempt /\ quiz.graded > 0 =>
       pull.quiz.graded > 0
  /\ ~excused /\ quiz # NoQuiz /\ quiz.pending /\ quiz.graded = 0 => Shown = {}

\* The rows of a quiz without its mark, and rows without a quiz, which only a
\* page waiting for its rebase leaves.
HeldInv ==
  /\ ~excused /\ ~quiz.pending /\ quiz.attempt = attempt =>
       /\ pull.stage \notin Written => PaidBy(cursor)
       /\ pull.stage \in Written => PaidBy(pull.seq)
  /\ ~excused /\ quiz = NoQuiz /\ Held # {} =>
       /\ pull.stage = "rebase" /\ pull.quiz # NoQuiz
       /\ pull.quiz.attempt = attempt => RightBy(pull.seq)

\* The grades a page brought, of the attempt the device or the page has.
PageInv ==
  /\ pull.stage \in {"quizzes", "grades", "write", "rebase"} /\ ~pull.qrf /\ ~excused =>
       Held = {}
  /\ ~pull.qrf => pull.grades = NoGrades
  /\ pull.stage \in {"write", "rebase"}
       /\ (quiz.attempt = attempt \/ pull.quiz.attempt = attempt) =>
         \A q \in DOMAIN pull.grades :
           q \in Graded(grade) /\ (pull.grades[q] = grade[q] \/ stamp[q] > pull.seq)
  /\ pull.stage = "write" /\ pull.qrf
       /\ (quiz.attempt = attempt \/ pull.quiz.attempt = attempt) =>
         \A q \in Graded(grade) : InRange(stamp[q]) => q \in DOMAIN pull.grades
  /\ pull.quiz # NoQuiz /\ attempt # pull.quiz.attempt =>
       \A q \in Graded(grade) : stamp[q] > pull.seq
  /\ pull.stage = "rebase" =>
       \/ pull.grades = NoGrades
       \/ pull.quiz # NoQuiz /\ quiz # NoQuiz /\ quiz.attempt # pull.quiz.attempt

\* A pulled quiz row counts the graded questions S of its attempt.
Counts(S) ==
  /\ Cardinality(S) = pull.quiz.graded
  /\ DOMAIN pull.grades \subseteq S
  /\ attempt = pull.quiz.attempt =>
       /\ S \subseteq Graded(grade)
       /\ \A q \in Graded(grade) : stamp[q] <= pull.seq => q \in S
  /\ ~excused /\ (quiz = NoQuiz \/ (~quiz.pending /\ quiz.attempt = pull.quiz.attempt)) =>
       Shown \subseteq S
PulledInv ==
  pull.stage \in {"grades", "write", "rebase"} /\ pull.quiz # NoQuiz =>
    \E S \in SUBSET Questions : Counts(S)

\* What a manager goes by, and has fetched so far, between no sync and no drop.
FetchOK(d) ==
  /\ d.stage # "idle" => d.seen.attempt <= attempt
  /\ d.label <= attempt
  /\ d.stage = "sync" => d.got = NoGrades /\ d.from = 0
  /\ d.stage \in {"sync", "label", "page"} => d.grades
  /\ d.stage \in {"label", "page", "lay"} /\ ~d.crossed =>
       /\ pull.stage = "idle"
       /\ d.stage = "lay" /\ ~d.grades /\ quiz.attempt = d.seen.attempt =>
            ~quiz.pending \/ quiz.graded = 0
       /\ d.grades /\ d.seen.attempt = attempt =>
            /\ \A q \in DOMAIN d.got :
                 q \in Graded(grade) /\ (d.got[q] = grade[q] \/ stamp[q] > cursor)
            /\ \A q \in Graded(grade) :
                 (d.stage = "lay" \/ q < d.from) /\ stamp[q] <= cursor => q \in DOMAIN d.got
FetchInv == \A m \in Managers : FetchOK(dl[m])

\* Inductive beside DownloadsInv.
CurrentInv == OrderInv /\ CountInv /\ HeldInv /\ PageInv /\ PulledInv /\ FetchInv

-----------------------------------------------------------------------------
(* Facts, and what a step leaves alone                                     *)

LEMMA Facts ==
  ASSUME DownloadsInv
  PROVE  /\ attempt \in Nat \ {0} /\ sync_seq \in Nat /\ cursor \in Nat
         /\ quiz.attempt \in Int /\ quiz.graded \in Nat /\ quiz.pending \in BOOLEAN
         /\ pull.quiz.attempt \in Int /\ pull.quiz.graded \in Nat
         /\ pull.seq \in Nat /\ pull.qrf \in BOOLEAN
         /\ quiz.attempt = attempt => quiz # NoQuiz
         /\ pull.quiz.attempt = attempt => pull.quiz # NoQuiz
         /\ quiz # NoQuiz => quiz \in QuizRows
         /\ pull.quiz # NoQuiz => pull.quiz \in QuizRows
         /\ Held \subseteq Questions /\ Graded(grade) \subseteq Questions
         /\ DOMAIN pull.grades \subseteq Questions
<1>1. /\ attempt \in Attempts /\ sync_seq \in Nat /\ cursor \in Nat
      /\ grade \in [Questions -> Grades \cup {Ungraded}]
      /\ quiz \in QuizRows \cup {NoQuiz} /\ pull \in Pulls /\ Held \subseteq Questions
  BY DEF DownloadsInv, TypeInv, ServerTyped
<1>2. attempt \in Nat \ {0}
  BY <1>1, AttemptsArePositive
<1>3. \A p \in QuizRows \cup {NoQuiz} :
        /\ p.attempt \in Int /\ p.graded \in Nat /\ p.pending \in BOOLEAN
        /\ p.attempt = attempt => p # NoQuiz
        /\ p # NoQuiz => p \in QuizRows
  <2> TAKE p \in QuizRows \cup {NoQuiz}
  <2>1. CASE p \in QuizRows
    <3>1. p.attempt \in Attempts /\ p.graded \in Nat /\ p.pending \in BOOLEAN
      BY <2>1 DEF QuizRows
    <3>2. \A a \in Attempts : a \in Int
      BY AttemptsArePositive
    <3>3. p.attempt \in Int
      BY <3>1, <3>2
    <3> QED
      BY <2>1, <3>1, <3>3, QuizRowsAreQuizzes
  <2>2. CASE p = NoQuiz
    <3>1. p.attempt = Null /\ p.graded = 0
      BY <2>2 DEF NoQuiz
    <3>2. Null \in Int /\ Null # attempt
      BY <1>2 DEF Null
    <3>3. p.attempt \in Int /\ p.attempt # attempt
      BY <3>1, <3>2
    <3>4. p.pending \in BOOLEAN
      BY <2>2 DEF NoQuiz
    <3> QED
      BY <2>2, <3>1, <3>3, <3>4
  <2> QED
    BY <2>1, <2>2
<1>4. pull.quiz \in QuizRows \cup {NoQuiz} /\ pull.seq \in Nat /\ pull.qrf \in BOOLEAN
      /\ pull.grades \in Partial
  BY <1>1 DEF Pulls
<1>5. Graded(grade) \subseteq Questions
  BY <1>1 DEF Graded
<1>6. DOMAIN pull.grades \subseteq Questions
  BY <1>4, PartialDomain
<1> HIDE DEF QuizRows, Pulls
<1> QED
  BY <1>1, <1>2, <1>3, <1>4, <1>5, <1>6

LEMMA ShownGrades == Graded(GradesOf(rows)) = Shown
BY DEF Graded, GradesOf, Shown, Held

LEMMA PaidEarlier ==
  ASSUME NEW c \in Nat, NEW d \in Nat, d <= c, PaidBy(c),
         stamp \in [Questions -> Nat], Graded(grade) \subseteq Questions
  PROVE  PaidBy(d)
<1>1. RightBy(d)
  <2> SUFFICES ASSUME NEW q \in Shown
               PROVE  q \in Graded(grade) /\ (rows[q].grade = grade[q] \/ stamp[q] > d)
    BY DEF RightBy
  <2>1. q \in Graded(grade) /\ (rows[q].grade = grade[q] \/ stamp[q] > c)
    BY DEF PaidBy, RightBy
  <2>2. stamp[q] \in Nat
    BY <2>1
  <2> QED
    BY <2>1, <2>2
<1>2. FullBy(c) => FullBy(d)
  BY DEF FullBy
<1> QED
  BY <1>1, <1>2 DEF PaidBy

\* The rows and the server as they were.
LEMMA Same ==
  ASSUME UNCHANGED <<server, base>>
  PROVE  /\ Shown' = Shown /\ Held' = Held /\ Witness' = Witness
         /\ Graded(grade)' = Graded(grade)
         /\ \A c \in Nat : RightBy(c)' = RightBy(c) /\ FullBy(c)' = FullBy(c)
                           /\ PaidBy(c)' = PaidBy(c)
BY DEF server, base, Shown, Held, Witness, Graded, RightBy, FullBy, PaidBy

\* The managers, when none goes by an answer that the step could make stale.
LEMMA FetchesCrossed ==
  ASSUME FetchInv, UNCHANGED attempt,
         \A m \in Managers : dl[m].stage \in {"label", "page", "lay"} => dl[m].crossed,
         UNCHANGED dl
  PROVE  FetchInv'
BY DEF FetchInv, FetchOK

\* While a pull is under way every manager at work has been crossed.
LEMMA BusyCrossed ==
  ASSUME FetchInv, pull.stage # "idle"
  PROVE  \A m \in Managers : dl[m].stage \in {"label", "page", "lay"} => dl[m].crossed
BY DEF FetchInv, FetchOK

\* A sync or a drop crosses every manager at work.
LEMMA AllCrossed ==
  ASSUME DownloadsInv, FetchInv, dl' = Crossed, UNCHANGED attempt
  PROVE  FetchInv'
<1> SUFFICES ASSUME NEW m \in Managers PROVE FetchOK(dl[m])'
  BY DEF FetchInv
<1>1. dl[m] \in Fetches /\ FetchOK(dl[m])
  BY DEF DownloadsInv, TypeInv, FetchesTyped, FetchInv
<1>2. dl'[m] = IF dl[m].stage \in {"idle", "sync"} THEN dl[m]
               ELSE [dl[m] EXCEPT !.crossed = TRUE]
  BY DEF Crossed
<1>3. CASE dl[m].stage \in {"idle", "sync"}
  BY <1>1, <1>2, <1>3 DEF FetchOK
<1>4. CASE dl[m].stage \notin {"idle", "sync"}
  <2>1. /\ dl'[m].crossed = TRUE /\ dl'[m].stage = dl[m].stage
        /\ dl'[m].seen = dl[m].seen /\ dl'[m].label = dl[m].label
        /\ dl'[m].grades = dl[m].grades
    BY <1>1, <1>2, <1>4 DEF Fetches
  <2> QED
    BY <1>1, <1>4, <2>1 DEF FetchOK
<1> QED
  BY <1>3, <1>4

\* Another device grades: what is not newer than its sequence is as it was.
LEMMA GradesGrow ==
  ASSUME DownloadsInv, OrderInv, GradeElsewhere
  PROVE  /\ attempt' = attempt /\ sync_seq' = sync_seq + 1
         /\ stamp' \in [Questions -> Nat] /\ \A q \in Questions : stamp'[q] <= sync_seq'
         /\ Graded(grade) \subseteq Graded(grade')
         /\ \A q \in Graded(grade') :
              \/ q \in Graded(grade) /\ grade'[q] = grade[q] /\ stamp'[q] = stamp[q]
              \/ stamp'[q] > sync_seq
<1>1. PICK q0 \in Questions, g \in Grades :
        /\ grade' = [grade EXCEPT ![q0] = g] /\ stamp' = [stamp EXCEPT ![q0] = sync_seq']
  BY DEF GradeElsewhere
<1>2. /\ attempt' = attempt /\ sync_seq' = sync_seq + 1 /\ sync_seq \in Nat
      /\ stamp \in [Questions -> Nat] /\ \A q \in Questions : stamp[q] <= sync_seq
      /\ grade \in [Questions -> Grades \cup {Ungraded}]
  BY DEF GradeElsewhere, Stamped, DownloadsInv, TypeInv, ServerTyped, OrderInv
<1>3. stamp' \in [Questions -> Nat] /\ \A q \in Questions : stamp'[q] <= sync_seq'
  BY <1>1, <1>2
<1>4. g # Ungraded
  BY DEF Grades, Ungraded
<1>5. DOMAIN grade = Questions /\ DOMAIN grade' = Questions
  BY <1>1, <1>2
<1>6. /\ Graded(grade) = {q \in Questions : grade[q] # Ungraded}
      /\ Graded(grade') = {q \in Questions : grade'[q] # Ungraded}
  BY <1>5 DEF Graded
<1>7. \A q \in Questions : q # q0 => grade'[q] = grade[q] /\ stamp'[q] = stamp[q]
  BY <1>1, <1>2
<1>8. grade'[q0] = g /\ stamp'[q0] = sync_seq + 1
  BY <1>1, <1>2
<1> QED
  BY <1>2, <1>3, <1>4, <1>6, <1>7, <1>8

-----------------------------------------------------------------------------
(* What the other devices do                                               *)

LEMMA Unmoved ==
  ASSUME CurrentInv,
         UNCHANGED <<attempt, grade, stamp, sync_seq, quiz, rows, cursor, pull, dl, excused>>
  PROVE  CurrentInv'
<1>1. /\ Held' = Held /\ Shown' = Shown /\ Witness' = Witness
      /\ Graded(grade)' = Graded(grade)
  BY DEF Held, Shown, Witness, Graded
<1>2. OrderInv' /\ CountInv' /\ PageInv'
  BY <1>1 DEF CurrentInv, OrderInv, CountInv, PageInv, InRange
<1>3. HeldInv'
  BY <1>1 DEF CurrentInv, HeldInv, PaidBy, RightBy, FullBy
<1>4. PulledInv'
  BY <1>1 DEF CurrentInv, PulledInv, Counts
<1>5. FetchInv'
  BY <1>1 DEF CurrentInv, FetchInv, FetchOK
<1> QED
  BY <1>2, <1>3, <1>4, <1>5 DEF CurrentInv

LEMMA GradeKeeps ==
  ASSUME DownloadsInv, CurrentInv, GradeElsewhere
  PROVE  CurrentInv'
<1>1. UNCHANGED <<quiz, rows, cursor, pull, dl, excused, attempt>>
  BY DEF GradeElsewhere, device, base
<1>2. Held' = Held /\ Shown' = Shown /\ Witness' = Witness
  BY <1>1 DEF Held, Shown, Witness
<1>3. /\ attempt' = attempt /\ sync_seq' = sync_seq + 1
      /\ stamp' \in [Questions -> Nat] /\ \A q \in Questions : stamp'[q] <= sync_seq'
      /\ Graded(grade) \subseteq Graded(grade')
      /\ \A q \in Graded(grade') :
           \/ q \in Graded(grade) /\ grade'[q] = grade[q] /\ stamp'[q] = stamp[q]
           \/ stamp'[q] > sync_seq
  BY GradesGrow DEF CurrentInv
<1>4. Graded(grade') = Graded(grade)'
  BY DEF Graded
<1>5. /\ sync_seq \in Nat /\ cursor \in Nat /\ pull.seq \in Nat
      /\ Graded(grade) \subseteq Questions /\ cursor <= sync_seq
      /\ pull.stage # "idle" => pull.seq <= sync_seq
      /\ pull.quiz # NoQuiz => pull.stage # "idle"
      /\ stamp \in [Questions -> Nat]
  BY Facts DEF CurrentInv, OrderInv
<1>6. \A q \in Graded(grade') : q \in Questions /\ stamp'[q] \in Nat
  BY <1>3, <1>5, Facts DEF DownloadsInv, TypeInv, ServerTyped, Graded, GradeElsewhere
<1>7. OrderInv'
  BY <1>1, <1>3, <1>5 DEF CurrentInv, OrderInv
<1>8. CountInv'
  BY <1>1, <1>2, <1>3, <1>4 DEF CurrentInv, CountInv
<1>9. ASSUME NEW c \in Nat, c <= sync_seq
      PROVE  /\ RightBy(c) => RightBy(c)'
             /\ PaidBy(c) => PaidBy(c)'
  <2>1. RightBy(c) => RightBy(c)'
    <3> SUFFICES ASSUME RightBy(c), NEW q \in Shown
                 PROVE  q \in Graded(grade') /\ (rows[q].grade = grade'[q] \/ stamp'[q] > c)
      BY <1>1, <1>2, <1>4 DEF RightBy
    <3>1. q \in Graded(grade) /\ (rows[q].grade = grade[q] \/ stamp[q] > c)
      BY DEF RightBy
    <3>2. q \in Graded(grade') /\ stamp'[q] \in Nat
      BY <1>3, <1>6, <3>1
    <3> QED
      BY <1>3, <1>5, <1>9, <3>1, <3>2
  <2>2. FullBy(c) => FullBy(c)'
    <3> SUFFICES ASSUME FullBy(c), NEW q \in Graded(grade'), stamp'[q] <= c
                 PROVE  q \in Held /\ rows[q].grade = grade'[q]
      BY <1>1, <1>2, <1>4 DEF FullBy
    <3>1. stamp'[q] \in Nat /\ ~(stamp'[q] > sync_seq)
      BY <1>5, <1>6, <1>9
    <3>2. q \in Graded(grade) /\ grade'[q] = grade[q] /\ stamp'[q] = stamp[q]
      BY <1>3, <3>1
    <3> QED
      BY <3>2 DEF FullBy
  <2> QED
    BY <1>1, <1>2, <2>1, <2>2 DEF PaidBy
<1>10. HeldInv'
  <2>1. PICK c \in Nat : c = cursor
    BY <1>5
  <2>2. PICK s \in Nat : s = pull.seq
    BY <1>5
  <2>3. PaidBy(cursor) => PaidBy(cursor)'
    BY <1>1, <1>5, <1>9, <2>1 DEF PaidBy, RightBy, FullBy
  <2>4. pull.stage # "idle" =>
          (PaidBy(pull.seq) => PaidBy(pull.seq)') /\ (RightBy(pull.seq) => RightBy(pull.seq)')
    BY <1>1, <1>5, <1>9, <2>2 DEF PaidBy, RightBy, FullBy
  <2> QED
    BY <1>1, <1>2, <1>3, <2>3, <2>4 DEF CurrentInv, HeldInv, Written
<1>11. PageInv'
  <2>1. pull.stage \in {"write", "rebase"} =>
          \A q \in DOMAIN pull.grades :
            q \in Graded(grade) /\ (pull.grades[q] = grade[q] \/ stamp[q] > pull.seq) =>
            q \in Graded(grade') /\ (pull.grades[q] = grade'[q] \/ stamp'[q] > pull.seq)
    BY <1>3, <1>5, <1>6
  <2>2. pull.stage # "idle" =>
          \A q \in Graded(grade') : stamp'[q] <= pull.seq =>
            q \in Graded(grade) /\ stamp'[q] = stamp[q]
    BY <1>3, <1>5, <1>6
  <2>3. pull.stage # "idle" =>
          \A q \in Graded(grade') : stamp'[q] > pull.seq \/
            (q \in Graded(grade) /\ stamp'[q] = stamp[q])
    BY <1>5, <1>6, <2>2
  <2> QED
    BY <1>1, <1>2, <1>3, <1>4, <1>5, <2>1, <2>2, <2>3 DEF CurrentInv, PageInv, InRange
<1>12. PulledInv'
  <2>1. \A S \in SUBSET Questions : pull.stage # "idle" /\ Counts(S) => Counts(S)'
    <3> SUFFICES ASSUME NEW S \in SUBSET Questions, pull.stage # "idle", Counts(S)
                 PROVE  Counts(S)'
      OBVIOUS
    <3>1. ASSUME attempt = pull.quiz.attempt, NEW q \in Graded(grade'), stamp'[q] <= pull.seq
          PROVE  q \in S
      <4>1. q \in Graded(grade) /\ stamp'[q] = stamp[q]
        BY <1>3, <1>5, <1>6, <3>1
      <4> QED
        BY <3>1, <4>1 DEF Counts
    <3> QED
      BY <1>1, <1>2, <1>3, <1>4, <3>1 DEF Counts
  <2> QED
    BY <1>1, <2>1 DEF CurrentInv, PulledInv
<1>13. FetchInv'
  <2> SUFFICES ASSUME NEW m \in Managers PROVE FetchOK(dl[m])'
    BY DEF FetchInv
  <2>1. FetchOK(dl[m])
    BY DEF CurrentInv, FetchInv
  <2>2. \A q \in Graded(grade') : stamp'[q] <= cursor =>
          q \in Graded(grade) /\ stamp'[q] = stamp[q]
    BY <1>3, <1>5, <1>6
  <2>3. \A q \in DOMAIN dl[m].got :
          q \in Graded(grade) /\ (dl[m].got[q] = grade[q] \/ stamp[q] > cursor) =>
          q \in Graded(grade') /\ (dl[m].got[q] = grade'[q] \/ stamp'[q] > cursor)
    BY <1>3, <1>5, <1>6
  <2> QED
    BY <1>1, <1>3, <1>4, <2>1, <2>2, <2>3 DEF FetchOK
<1> QED
  BY <1>7, <1>8, <1>10, <1>11, <1>12, <1>13 DEF CurrentInv

LEMMA NoAttempt == NoQuiz.attempt = Null /\ Null \in Int /\ Null < 0 /\ NoQuiz.pending = FALSE
BY DEF NoQuiz, Null

\* A new attempt: nothing is graded, and whoever has heard of one has heard of
\* an earlier one.
LEMMA ResetKeeps ==
  ASSUME DownloadsInv, CurrentInv, ResetElsewhere
  PROVE  CurrentInv'
<1>1. UNCHANGED <<quiz, rows, cursor, pull, dl, excused, stamp>>
  BY DEF ResetElsewhere, device, base
<1>2. Held' = Held /\ Shown' = Shown /\ Witness' = Witness
  BY <1>1 DEF Held, Shown, Witness
<1>3. attempt' = attempt + 1 /\ sync_seq' = sync_seq + 1 /\ Graded(grade)' = {}
  BY DEF ResetElsewhere, Stamped, Graded
<1>4. /\ attempt \in Nat /\ sync_seq \in Nat /\ cursor \in Nat /\ pull.seq \in Nat
      /\ quiz.attempt \in Int /\ pull.quiz.attempt \in Int
  BY Facts
<1>5. quiz.attempt < attempt' /\ pull.quiz.attempt < attempt'
  BY <1>3, <1>4, NoAttempt DEF CurrentInv, OrderInv
<1>6. OrderInv'
  BY <1>1, <1>3, <1>4 DEF CurrentInv, OrderInv
<1>7. CountInv' /\ HeldInv'
  BY <1>1, <1>2, <1>3, <1>4, <1>5 DEF CurrentInv, CountInv, HeldInv
<1>8. PageInv'
  BY <1>1, <1>2, <1>3, <1>4, <1>5 DEF CurrentInv, PageInv
<1>9. PulledInv'
  BY <1>1, <1>2, <1>3, <1>4, <1>5 DEF CurrentInv, PulledInv, Counts
<1>10. FetchInv'
  <2> SUFFICES ASSUME NEW m \in Managers PROVE FetchOK(dl[m])'
    BY DEF FetchInv
  <2>1. FetchOK(dl[m]) /\ dl[m] \in Fetches
        /\ (dl[m].stage # "idle" => dl[m].seen \in QuizRows)
    BY DEF CurrentInv, FetchInv, DownloadsInv, TypeInv, FetchesTyped
  <2>2. dl[m].label \in Nat
    BY <2>1 DEF Fetches
  <2>3. dl[m].stage # "idle" => dl[m].seen.attempt \in Nat
    <3>1. dl[m].stage # "idle" => dl[m].seen.attempt \in Attempts
      BY <2>1 DEF QuizRows
    <3> QED
      BY <3>1, AttemptsArePositive
  <2> QED
    BY <1>1, <1>3, <1>4, <1>5, <2>1, <2>2, <2>3 DEF FetchOK
<1> QED
  BY <1>6, <1>7, <1>8, <1>9, <1>10 DEF CurrentInv

LEMMA ElsewhereKeeps == DownloadsInv /\ CurrentInv /\ Elsewhere => CurrentInv'
<1>1. DownloadsInv /\ CurrentInv /\ RaiseFloor => CurrentInv'
  BY Unmoved DEF RaiseFloor, device, base
<1> QED
  BY <1>1, GradeKeeps, ResetKeeps DEF Elsewhere

-----------------------------------------------------------------------------
(* What a cycle asks and reads                                             *)

LEMMA SendKeeps ==
  ASSUME DownloadsInv, CurrentInv, Send
  PROVE  CurrentInv'
<1> DEFINE cur == IF cursor < floor THEN Null ELSE cursor
           qrf == wanted \/ Held # {}
           asked == [NoPull EXCEPT !.stage = "quizzes", !.cur = cur,
                                   !.seq = sync_seq, !.qrf = qrf]
<1>1. pull' = asked /\ pull.stage = "idle" /\ UNCHANGED <<server, base, cursor, excused>>
  BY DEF Send
<1>2. /\ pull'.stage = "quizzes" /\ pull'.seq = sync_seq /\ pull'.quiz = NoQuiz
      /\ pull'.grades = NoGrades /\ pull'.cur = cur
      /\ ~pull'.qrf => Held = {}
  <2>1. DOMAIN NoPull = {"stage", "cur", "seq", "qrf", "quiz", "grades", "fresh"}
        /\ NoPull.quiz = NoQuiz /\ NoPull.grades = NoGrades
    BY DEF NoPull
  <2> HIDE DEF cur
  <2> QED
    BY <1>1, <2>1 DEF NoPull
<1>3. /\ Shown' = Shown /\ Held' = Held /\ Witness' = Witness
      /\ Graded(grade)' = Graded(grade)
  BY <1>1, Same
<1>4. sync_seq \in Nat /\ cursor \in Nat
  BY Facts
<1>5. OrderInv'
  <2> HIDE DEF asked
  <2> QED
    BY <1>1, <1>2, <1>4, NoAttempt DEF CurrentInv, OrderInv, server, base
<1> HIDE DEF asked, cur, qrf
<1>6. CountInv'
  BY <1>1, <1>2, <1>3 DEF CurrentInv, CountInv, server, base
<1>7. HeldInv'
  BY <1>1, <1>2, <1>3 DEF CurrentInv, HeldInv, PaidBy, RightBy, FullBy, Written, server, base
<1>8. PageInv' /\ PulledInv'
  BY <1>1, <1>2, <1>3 DEF PageInv, PulledInv
<1>9. FetchInv'
  BY <1>1, AllCrossed DEF CurrentInv, Send, server
<1> QED
  BY <1>5, <1>6, <1>7, <1>8, <1>9 DEF CurrentInv

\* While a pull is under way, a step that changes neither the server's attempt
\* nor a manager.
LEMMA BusyKeeps ==
  ASSUME CurrentInv, pull.stage # "idle", UNCHANGED <<attempt, dl>>
  PROVE  FetchInv'
BY BusyCrossed, FetchesCrossed DEF CurrentInv

LEMMA ReadQuizzesKeeps ==
  ASSUME DownloadsInv, CurrentInv, ReadQuizzes
  PROVE  CurrentInv'
<1> DEFINE now == [attempt |-> attempt, graded |-> Cardinality(Graded(grade)),
                   pending |-> FALSE]
           read == IF InRange(quizStamp) THEN now ELSE NoQuiz
<1>1. /\ pull' = [pull EXCEPT !.stage = "grades", !.quiz = read]
      /\ pull.stage = "quizzes" /\ UNCHANGED <<server, base, cursor, excused, dl>>
  BY DEF ReadQuizzes
<1>2. pull \in Pulls
  BY DEF DownloadsInv, TypeInv
<1>3. now.attempt = attempt /\ now.graded = Cardinality(Graded(grade)) /\ now.pending = FALSE
  OBVIOUS
<1>4. read = now \/ read = NoQuiz
  OBVIOUS
<1> HIDE DEF now, read
<1>5. /\ pull'.stage = "grades" /\ pull'.seq = pull.seq /\ pull'.quiz = read
      /\ pull'.grades = pull.grades /\ pull'.cur = pull.cur /\ pull'.qrf = pull.qrf
  BY <1>1, <1>2 DEF Pulls
<1>6. /\ Shown' = Shown /\ Held' = Held /\ Witness' = Witness
      /\ Graded(grade)' = Graded(grade)
      /\ UNCHANGED <<attempt, grade, stamp, sync_seq, quiz, rows>>
  BY <1>1, Same DEF server, base
<1>7. /\ attempt \in Nat /\ Graded(grade) \subseteq Questions
      /\ quiz.attempt \in Int /\ quiz.graded \in Nat
  BY Facts
<1>8. OrderInv'
  BY <1>1, <1>3, <1>4, <1>5, <1>6, <1>7, NoAttempt DEF CurrentInv, OrderInv
<1>9. CountInv'
  <2>1. IsFiniteSet(Graded(grade))
    BY <1>7, FS_Subset, DownloadsAssumption
  <2>2. Graded(grade) # {} => Cardinality(Graded(grade)) > 0
    BY <2>1, FS_EmptySet, FS_CardinalityType
  <2> QED
    BY <1>1, <1>3, <1>4, <1>5, <1>6, <1>7, <2>2 DEF CurrentInv, CountInv
<1>10. HeldInv'
  BY <1>1, <1>5, <1>6 DEF CurrentInv, HeldInv, PaidBy, RightBy, FullBy, Written
<1>11. PageInv'
  BY <1>1, <1>3, <1>4, <1>5, <1>6 DEF CurrentInv, PageInv, OrderInv
<1>12. PulledInv'
  <2>1. ~excused /\ (quiz = NoQuiz \/ (~quiz.pending /\ quiz.attempt = attempt)) =>
          Shown \subseteq Graded(grade)
    BY <1>1 DEF CurrentInv, HeldInv, PaidBy, RightBy, Written, Shown
  <2>2. DOMAIN pull.grades = {}
    BY <1>1 DEF CurrentInv, OrderInv, NoGrades
  <2>3. read = now => Counts(Graded(grade))'
    BY <1>1, <1>3, <1>5, <1>6, <2>1, <2>2 DEF Counts
  <2> HIDE DEF Counts
  <2> QED
    BY <1>4, <1>5, <1>6, <1>7, <2>3 DEF PulledInv
<1>13. FetchInv'
  BY <1>1, <1>6, BusyKeeps
<1> QED
  BY <1>8, <1>9, <1>10, <1>11, <1>12, <1>13 DEF CurrentInv

LEMMA ReadGradesKeeps ==
  ASSUME DownloadsInv, CurrentInv, ReadGrades
  PROVE  CurrentInv'
<1> DEFINE G == {q \in Graded(grade) : pull.qrf /\ InRange(stamp[q])}
           got == [q \in G |-> grade[q]]
<1>1. /\ pull' = [pull EXCEPT !.stage = "write", !.grades = got]
      /\ pull.stage = "grades" /\ UNCHANGED <<server, base, cursor, excused, dl>>
  BY DEF ReadGrades
<1>2. pull \in Pulls
  BY DEF DownloadsInv, TypeInv
<1>3. DOMAIN got = G /\ \A q \in G : got[q] = grade[q]
  OBVIOUS
<1>4. G = {} => got = NoGrades
  BY DEF NoGrades
<1>5. \A q : q \in G <=> q \in Graded(grade) /\ pull.qrf /\ InRange(stamp[q])
  OBVIOUS
<1> HIDE DEF G, got
<1>6. /\ pull'.stage = "write" /\ pull'.seq = pull.seq /\ pull'.quiz = pull.quiz
      /\ pull'.grades = got /\ pull'.cur = pull.cur /\ pull'.qrf = pull.qrf
  BY <1>1, <1>2 DEF Pulls
<1>7. /\ Shown' = Shown /\ Held' = Held /\ Witness' = Witness
      /\ Graded(grade)' = Graded(grade)
      /\ UNCHANGED <<attempt, grade, stamp, sync_seq, quiz, rows>>
  BY <1>1, Same DEF server, base
<1>8. OrderInv' /\ CountInv'
  BY <1>1, <1>6, <1>7 DEF CurrentInv, OrderInv, CountInv
<1>9. HeldInv'
  BY <1>1, <1>6, <1>7 DEF CurrentInv, HeldInv, PaidBy, RightBy, FullBy, Written
<1>10. PageInv'
  <2>1. ~pull.qrf => G = {}
    BY <1>5
  <2> QED
    BY <1>1, <1>3, <1>4, <1>5, <1>6, <1>7, <2>1 DEF CurrentInv, PageInv, InRange
<1>11. PulledInv'
  <2>1. \A S \in SUBSET Questions : pull.quiz # NoQuiz /\ Counts(S) => Counts(S)'
    <3> SUFFICES ASSUME NEW S \in SUBSET Questions, pull.quiz # NoQuiz, Counts(S)
                 PROVE  Counts(S)'
      OBVIOUS
    <3>1. G \subseteq S
      <4>1. CASE attempt = pull.quiz.attempt
        BY <1>5, <4>1 DEF Counts, InRange
      <4>2. CASE attempt # pull.quiz.attempt
        <5>1. \A q \in Graded(grade) : stamp[q] > pull.seq
          BY <4>2 DEF CurrentInv, PageInv
        <5>2. pull.seq \in Nat /\ \A q \in Graded(grade) : stamp[q] \in Nat
          BY Facts DEF CurrentInv, OrderInv
        <5> QED
          BY <1>5, <5>1, <5>2 DEF InRange
      <4> QED
        BY <4>1, <4>2
    <3> QED
      BY <1>1, <1>3, <1>6, <1>7, <3>1 DEF Counts
  <2> QED
    BY <1>1, <1>6, <2>1 DEF CurrentInv, PulledInv
<1>12. FetchInv'
  BY <1>1, <1>7, BusyKeeps
<1> QED
  BY <1>8, <1>9, <1>10, <1>11, <1>12 DEF CurrentInv

\* A pull ends: nothing is left of it, and what it wrote is paid up to the cursor.
LEMMA EndKeeps ==
  ASSUME DownloadsInv, CurrentInv, pull' = NoPull, UNCHANGED <<server, base>>,
         cursor' \in Nat, cursor' <= sync_seq, excused' \in BOOLEAN,
         ~excused' => ~excused /\ (quiz = NoQuiz => Held = {}),
         ~excused' /\ ~quiz.pending /\ quiz.attempt = attempt => PaidBy(cursor)'
  PROVE  OrderInv' /\ CountInv' /\ HeldInv' /\ PageInv' /\ PulledInv'
<1>1. /\ Shown' = Shown /\ Held' = Held /\ Witness' = Witness
      /\ Graded(grade)' = Graded(grade)
      /\ UNCHANGED <<attempt, grade, stamp, sync_seq, quiz, rows>>
  BY Same DEF server, base
<1>2. /\ pull'.stage = "idle" /\ pull'.quiz = NoQuiz /\ pull'.grades = NoGrades
  BY DEF NoPull
<1>3. OrderInv'
  BY <1>1, <1>2, NoAttempt DEF CurrentInv, OrderInv
<1>4. CountInv'
  BY <1>1, <1>2 DEF CurrentInv, CountInv
<1>5. HeldInv'
  BY <1>1, <1>2 DEF HeldInv, Written
<1>6. PageInv' /\ PulledInv'
  BY <1>2 DEF PageInv, PulledInv
<1> QED
  BY <1>3, <1>4, <1>5, <1>6

\* What is paid up to the pull's sequence is paid up to the cursor before it.
LEMMA PaidBefore ==
  ASSUME DownloadsInv, CurrentInv, pull.stage # "idle", PaidBy(pull.seq)
  PROVE  PaidBy(cursor)
<1>1. /\ cursor \in Nat /\ pull.seq \in Nat /\ cursor <= pull.seq
      /\ stamp \in [Questions -> Nat] /\ Graded(grade) \subseteq Questions
  BY Facts DEF CurrentInv, OrderInv
<1> QED
  BY <1>1, PaidEarlier

LEMMA SyncFailsKeeps ==
  ASSUME DownloadsInv, CurrentInv, SyncFails
  PROVE  CurrentInv'
<1>1. /\ pull' = NoPull /\ UNCHANGED <<server, base, cursor, excused, dl>>
      /\ pull.stage \in {"quizzes", "grades"}
  BY DEF SyncFails
<1>2. cursor' \in Nat /\ cursor' <= sync_seq /\ excused' \in BOOLEAN
  BY <1>1, Facts DEF CurrentInv, OrderInv
<1>3. ~excused => (quiz = NoQuiz => Held = {})
  BY <1>1 DEF CurrentInv, HeldInv
<1>4. ~excused /\ ~quiz.pending /\ quiz.attempt = attempt => PaidBy(cursor)'
  BY <1>1 DEF CurrentInv, HeldInv, Written, PaidBy, RightBy, FullBy, server, base, Shown, Held,
              Witness, Graded
<1>5. OrderInv' /\ CountInv' /\ HeldInv' /\ PageInv' /\ PulledInv'
  BY <1>1, <1>2, <1>3, <1>4, EndKeeps
<1>6. FetchInv'
  BY <1>1, BusyKeeps DEF server
<1> QED
  BY <1>5, <1>6 DEF CurrentInv

\* The cursor moves to where the rows are paid.
LEMMA AdvanceKeeps ==
  ASSUME DownloadsInv, CurrentInv, Advance
  PROVE  CurrentInv'
<1>1. /\ pull' = NoPull /\ UNCHANGED <<server, base, excused, dl>>
      /\ pull.stage = "advance" /\ cursor' = pull.seq
  BY DEF Advance
<1>2. cursor' \in Nat /\ cursor' <= sync_seq /\ excused' \in BOOLEAN
  BY <1>1, Facts DEF CurrentInv, OrderInv
<1>3. ~excused => (quiz = NoQuiz => Held = {})
  BY <1>1 DEF CurrentInv, HeldInv
<1>4. ~excused /\ ~quiz.pending /\ quiz.attempt = attempt => PaidBy(cursor)'
  BY <1>1 DEF CurrentInv, HeldInv, Written, PaidBy, RightBy, FullBy, server, base, Shown, Held,
              Witness, Graded
<1>5. OrderInv' /\ CountInv' /\ HeldInv' /\ PageInv' /\ PulledInv'
  BY <1>1, <1>2, <1>3, <1>4, EndKeeps
<1>6. FetchInv'
  BY <1>1, BusyKeeps DEF server
<1> QED
  BY <1>5, <1>6 DEF CurrentInv

\* Managers that have nothing under way.
LEMMA IdleManagers ==
  ASSUME DownloadsInv', dl' = [m \in Managers |-> NoFetch]
  PROVE  FetchInv'
<1>1. /\ NoFetch.stage = "idle" /\ NoFetch.label = 0
  BY DEF NoFetch
<1>2. attempt' \in Nat
  BY AttemptsArePositive DEF DownloadsInv, TypeInv, ServerTyped
<1> SUFFICES ASSUME NEW m \in Managers PROVE FetchOK(dl[m])'
  BY DEF FetchInv
<1>3. dl'[m] = NoFetch
  OBVIOUS
<1> QED
  BY <1>1, <1>2, <1>3 DEF FetchOK

LEMMA CloseKeeps ==
  ASSUME DownloadsInv, DownloadsInv', CurrentInv, Close
  PROVE  CurrentInv'
<1>1. /\ pull' = NoPull /\ UNCHANGED <<server, base, cursor>>
      /\ dl' = [m \in Managers |-> NoFetch]
      /\ excused' = (excused \/ (quiz = NoQuiz /\ Held # {}))
  BY DEF Close
<1>2. cursor' \in Nat /\ cursor' <= sync_seq /\ excused' \in BOOLEAN
  BY <1>1, Facts DEF CurrentInv, OrderInv
<1>3. ~excused' => ~excused /\ (quiz = NoQuiz => Held = {})
  BY <1>1
<1>4. ~excused /\ ~quiz.pending /\ quiz.attempt = attempt => PaidBy(cursor)
  BY PaidBefore DEF CurrentInv, HeldInv, Written
<1>5. PaidBy(cursor) => PaidBy(cursor)'
  BY <1>1 DEF PaidBy, RightBy, FullBy, server, base, Shown, Held, Witness, Graded
<1>6. ~excused' /\ ~quiz.pending /\ quiz.attempt = attempt => PaidBy(cursor)'
  BY <1>3, <1>4, <1>5
<1>7. OrderInv' /\ CountInv' /\ HeldInv' /\ PageInv' /\ PulledInv'
  BY <1>1, <1>2, <1>3, <1>6, EndKeeps
<1>8. FetchInv'
  BY <1>1, IdleManagers
<1> QED
  BY <1>7, <1>8 DEF CurrentInv

-----------------------------------------------------------------------------
(* What the manager does between its reads                                 *)

\* A manager's step that leaves the rows, the server and the pull alone.
LEMMA ManagerKeeps ==
  ASSUME CurrentInv, NEW m \in Managers, NEW d, To(m, d), FetchOK(d),
         UNCHANGED <<server, base, cursor, pull, excused>>, dl \in [Managers -> Fetches]
  PROVE  CurrentInv'
<1>1. /\ Shown' = Shown /\ Held' = Held /\ Witness' = Witness
      /\ Graded(grade)' = Graded(grade)
      /\ UNCHANGED <<attempt, grade, stamp, sync_seq, quiz, rows>>
  BY Same DEF server, base
<1>2. OrderInv' /\ CountInv' /\ PageInv'
  BY <1>1 DEF CurrentInv, OrderInv, CountInv, PageInv, InRange
<1>3. HeldInv'
  BY <1>1 DEF CurrentInv, HeldInv, PaidBy, RightBy, FullBy
<1>4. PulledInv'
  BY <1>1 DEF CurrentInv, PulledInv, Counts
<1>5. ASSUME NEW e PROVE FetchOK(e) => FetchOK(e)'
  BY <1>1 DEF FetchOK
<1>6. FetchInv'
  <2> SUFFICES ASSUME NEW n \in Managers PROVE FetchOK(dl[n])'
    BY DEF FetchInv
  <2>1. PICK e : e = dl'[n]
    OBVIOUS
  <2>2. e = d \/ e = dl[n]
    BY <2>1 DEF To
  <2>3. FetchOK(e)
    BY <2>2 DEF CurrentInv, FetchInv
  <2>4. FetchOK(e)'
    BY <1>5, <2>3
  <2> QED
    BY <2>1, <2>4 DEF FetchOK
<1> QED
  BY <1>2, <1>3, <1>4, <1>6 DEF CurrentInv

\* Nothing is held any more, and what the quiz row counts is waited for.
LEMMA DropKeeps ==
  ASSUME DownloadsInv, CurrentInv, Drop
  PROVE  CurrentInv'
<1> DEFINE awaits == AwaitsGrades(quiz)
<1>1. /\ rows' = NoRows /\ quiz' = [quiz EXCEPT !.pending = awaits]
      /\ dl' = Crossed /\ excused' = FALSE /\ UNCHANGED <<server, cursor, pull>>
  BY DEF Drop
<1>2. Held' = {} /\ Shown' = {} /\ ~Witness'
  BY <1>1 DEF Held, Shown, Witness, NoRows
<1>3. Graded(grade)' = Graded(grade) /\ UNCHANGED <<attempt, grade, stamp, sync_seq>>
  BY <1>1 DEF server, Graded
<1>4. awaits \in BOOLEAN /\ (~awaits => ~(quiz.graded > 0)) /\ quiz.graded \in Nat
  BY Facts DEF AwaitsGrades
<1>5. quiz \in QuizRows \cup {NoQuiz}
  BY DEF DownloadsInv, TypeInv
<1> HIDE DEF awaits
<1>6. /\ quiz'.attempt = quiz.attempt /\ quiz'.graded = quiz.graded
      /\ quiz'.pending <=> awaits
      /\ quiz # NoQuiz => quiz' # NoQuiz
  <2>1. CASE quiz \in QuizRows
    <3>1. quiz' \in QuizRows
      BY <1>1, <1>4, <2>1, MarkTyped
    <3> QED
      BY <1>1, <2>1, <3>1, QuizRowsAreQuizzes DEF QuizRows
  <2>2. CASE quiz = NoQuiz
    BY <1>1, <2>2 DEF NoQuiz
  <2> QED
    BY <1>5, <2>1, <2>2
<1>7. OrderInv'
  BY <1>1, <1>3, <1>6 DEF CurrentInv, OrderInv
<1>8. CountInv'
  BY <1>1, <1>2, <1>3, <1>4, <1>6 DEF CurrentInv, CountInv
<1>9. HeldInv'
  BY <1>2, <1>4, <1>6 DEF HeldInv, PaidBy, RightBy
<1>10. PageInv'
  BY <1>1, <1>2, <1>3, <1>6 DEF CurrentInv, PageInv, InRange
<1>11. PulledInv'
  <2>1. \A S \in SUBSET Questions : Counts(S) => Counts(S)'
    BY <1>1, <1>2, <1>3 DEF Counts
  <2> QED
    BY <1>1, <2>1 DEF CurrentInv, PulledInv
<1>12. FetchInv'
  BY <1>1, <1>3, AllCrossed DEF CurrentInv
<1> QED
  BY <1>7, <1>8, <1>9, <1>10, <1>11, <1>12 DEF CurrentInv

-----------------------------------------------------------------------------
(* What a page writes                                                      *)

\* What the three ways have in common.
LEMMA WriteFacts ==
  ASSUME DownloadsInv, CurrentInv, WritePage
  PROVE  /\ pull.stage = "write" /\ pull'.stage = "rebase"
         /\ pull'.cur = pull.cur /\ pull'.seq = pull.seq /\ pull'.qrf = pull.qrf
         /\ pull'.quiz = pull.quiz
         /\ UNCHANGED <<attempt, grade, stamp, sync_seq, quiz, cursor, excused, dl>>
         /\ Graded(grade)' = Graded(grade)
         /\ pull'.grades \in {pull.grades, NoGrades}
         /\ ~excused /\ quiz = NoQuiz => Held = {}
<1>1. pull \in Pulls
  BY DEF DownloadsInv, TypeInv
<1>2. pull.stage = "write" /\ UNCHANGED <<server, quiz, cursor, excused, dl>>
  BY DEF WritePage
<1>3. ~excused /\ quiz = NoQuiz => Held = {}
  BY <1>2 DEF CurrentInv, HeldInv
<1>4. \/ pull' = [pull EXCEPT !.stage = "rebase", !.grades = NoGrades]
      \/ pull' = [pull EXCEPT !.stage = "rebase", !.grades = NoGrades,
                              !.fresh = DOMAIN pull.grades]
      \/ pull' = [pull EXCEPT !.stage = "rebase"]
  BY DEF WritePage
<1>5. /\ pull'.stage = "rebase" /\ pull'.cur = pull.cur /\ pull'.seq = pull.seq
      /\ pull'.qrf = pull.qrf /\ pull'.quiz = pull.quiz
      /\ pull'.grades \in {pull.grades, NoGrades}
  BY <1>1, <1>4 DEF Pulls
<1> QED
  BY <1>2, <1>3, <1>5 DEF server, Graded

\* Whatever is written, the parts that speak of neither rows nor staged grades.
LEMMA WriteKeepsOrder ==
  ASSUME DownloadsInv, CurrentInv, WritePage
  PROVE  OrderInv' /\ FetchInv'
<1>1. OrderInv'
  BY WriteFacts DEF CurrentInv, OrderInv
<1>2. FetchInv'
  BY WriteFacts, BusyKeeps
<1> QED
  BY <1>1, <1>2

LEMMA WriteSkips ==
  ASSUME DownloadsInv, CurrentInv, WritePage, UNCHANGED rows,
         \/ /\ quiz.pending \/ quiz = NoQuiz
            /\ pull'.grades = NoGrades
         \/ /\ quiz # NoQuiz /\ pull.quiz # NoQuiz /\ quiz.attempt # pull.quiz.attempt
            /\ pull'.grades = pull.grades
  PROVE  CountInv' /\ HeldInv' /\ PageInv' /\ PulledInv'
<1>1. Held' = Held /\ Shown' = Shown /\ Witness' = Witness
  BY DEF Held, Shown, Witness
<1>2. CountInv'
  BY <1>1, WriteFacts DEF CurrentInv, CountInv
<1>3. ~quiz.pending => quiz.attempt # attempt
  <2>1. /\ quiz.attempt \in Int /\ pull.quiz.attempt \in Int /\ attempt \in Int
        /\ quiz.attempt = attempt => quiz # NoQuiz
    BY Facts
  <2>2. pull.quiz # NoQuiz => quiz.attempt <= pull.quiz.attempt /\ pull.quiz.attempt <= attempt
    BY DEF CurrentInv, OrderInv
  <2> QED
    BY <2>1, <2>2
<1>4. HeldInv'
  BY <1>1, <1>3, WriteFacts DEF HeldInv
<1>5. DOMAIN NoGrades = {}
  BY DEF NoGrades
<1>6. PageInv'
  BY <1>1, <1>5, WriteFacts DEF CurrentInv, PageInv
<1>7. PulledInv'
  <2>1. \A S \in SUBSET Questions : Counts(S) => Counts(S)'
    BY <1>1, <1>5, WriteFacts DEF Counts
  <2> QED
    BY <2>1, WriteFacts DEF CurrentInv, PulledInv
<1> QED
  BY <1>2, <1>4, <1>6, <1>7

\* Grades laid on the rows held: theirs, and those of the other rows; a row
\* held keeps its position and a new one has none.
LaidOn(G) ==
  /\ Held' = G \cup Held
  /\ Shown' = G \cup Shown
  /\ \A q \in G : rows'[q].grade = pull.grades[q]
  /\ \A q \in Held : q \notin G => rows'[q] = rows[q]
  /\ Witness' => Witness

LEMMA WriteLays ==
  ASSUME DownloadsInv,
         rows' = Over([q \in DOMAIN pull.grades |->
                         Row(pull.grades[q], IF q \in Held THEN rows[q].order ELSE 0)], rows)
  PROVE  LaidOn(DOMAIN pull.grades)
<1> DEFINE G == DOMAIN pull.grades
           Order(q) == IF q \in Held THEN rows[q].order ELSE 0
           new == [q \in G |-> Row(pull.grades[q], Order(q))]
<1>1. Held' = G \cup Held
  BY DEF Over, Held
<1>2. \A q \in G : rows'[q] = Row(pull.grades[q], Order(q))
  BY DEF Over
<1>3. \A q \in Held : q \notin G => rows'[q] = rows[q]
  BY DEF Over, Held
<1>4. \A q \in G : rows'[q].grade = pull.grades[q] /\ rows'[q].order = Order(q)
  BY <1>2 DEF Row
<1>5. \A q \in G : pull.grades[q] # Ungraded
  <2>1. pull.grades \in Partial
    BY DEF DownloadsInv, TypeInv, Pulls
  <2>2. PICK S \in SUBSET Questions : pull.grades \in [S -> Grades]
    BY <2>1 DEF Partial
  <2>3. \A q \in G : pull.grades[q] \in Grades
    BY <2>2
  <2> QED
    BY <2>3 DEF Grades, Ungraded
<1> HIDE DEF G
<1>6. Shown' = G \cup Shown
  BY <1>1, <1>3, <1>4, <1>5 DEF Shown
<1>7. \A q \in Held' : rows'[q].order # 0 => q \in Held /\ rows'[q].order = rows[q].order
  BY <1>1, <1>3, <1>4
<1>8. Witness' => Witness
  BY <1>7 DEF Witness
<1> QED
  BY <1>1, <1>3, <1>4, <1>6, <1>8 DEF LaidOn, G

\* What the rows owe after a page without a pending quiz: what its grades are of
\* and what the cursor had passed make up what the pull's sequence has passed.
LEMMA WritePays ==
  ASSUME DownloadsInv, CurrentInv, WritePage, LaidOn(DOMAIN pull.grades),
         ~excused, ~quiz.pending, quiz.attempt = attempt
  PROVE  RightBy(pull.seq)' /\ (FullBy(pull.seq)' \/ (quiz.graded = 0 /\ ~Witness'))
<1> DEFINE G == DOMAIN pull.grades
<1>1. /\ pull.stage = "write" /\ pull'.seq = pull.seq
      /\ UNCHANGED <<grade, stamp, quiz>> /\ Graded(grade)' = Graded(grade)
  BY WriteFacts
<1>2. quiz # NoQuiz /\ Graded(grade) \subseteq Questions /\ cursor \in Nat /\ pull.seq \in Nat
  BY Facts
<1>3. \A q \in Graded(grade) : stamp[q] \in Nat
  BY <1>2 DEF CurrentInv, OrderInv
<1>4. \A q \in G : q \in Graded(grade) /\ (pull.grades[q] = grade[q] \/ stamp[q] > pull.seq)
  BY <1>1 DEF CurrentInv, PageInv
<1>5. pull.cur = Null \/ pull.cur = cursor
  BY <1>1 DEF CurrentInv, OrderInv
<1>6. ASSUME pull.qrf, NEW q \in Graded(grade), stamp[q] > cursor, stamp[q] <= pull.seq
      PROVE  q \in G
  <2>1. stamp[q] \in Nat
    BY <1>3, <1>6
  <2>2. InRange(stamp[q])
    BY <1>2, <1>5, <1>6, <2>1, NoAttempt DEF InRange
  <2> QED
    BY <1>1, <1>6, <2>2 DEF CurrentInv, PageInv
<1>7. ~pull.qrf => G = {} /\ Held = {}
  BY <1>1 DEF CurrentInv, PageInv, NoGrades
<1>8. PaidBy(cursor)
  BY <1>1 DEF CurrentInv, HeldInv, Written
<1> HIDE DEF G
<1>9. LaidOn(G)
  BY DEF G
<1>10. RightBy(pull.seq)'
  <2> SUFFICES ASSUME NEW q \in G \cup Shown
               PROVE  q \in Graded(grade) /\ (rows'[q].grade = grade[q] \/ stamp[q] > pull.seq)
    BY <1>1, <1>9 DEF RightBy, LaidOn
  <2>1. CASE q \in G
    BY <1>4, <1>9, <2>1 DEF LaidOn
  <2>2. CASE q \notin G
    <3>1. /\ q \in Held /\ rows'[q] = rows[q]
          /\ q \in Graded(grade) /\ (rows[q].grade = grade[q] \/ stamp[q] > cursor)
      BY <1>8, <1>9, <2>2 DEF LaidOn, PaidBy, RightBy, Shown
    <3>2. stamp[q] > cursor => stamp[q] > pull.seq
      BY <1>2, <1>3, <1>6, <1>7, <2>2, <3>1
    <3> QED
      BY <3>1, <3>2
  <2> QED
    BY <2>1, <2>2
<1>11. CASE FullBy(cursor) /\ pull.qrf
  <2> SUFFICES ASSUME NEW q \in Graded(grade), stamp[q] <= pull.seq
               PROVE  q \in G \cup Held /\ rows'[q].grade = grade[q]
    BY <1>1, <1>9, <1>10 DEF FullBy, LaidOn
  <2>1. stamp[q] \in Nat
    BY <1>3
  <2>2. CASE q \in G
    BY <1>2, <1>4, <1>9, <2>1, <2>2 DEF LaidOn
  <2>3. CASE q \notin G
    <3>1. stamp[q] <= cursor
      BY <1>2, <1>6, <1>11, <2>1, <2>3
    <3>2. q \in Held /\ rows[q].grade = grade[q]
      BY <1>11, <3>1 DEF FullBy
    <3> QED
      BY <1>9, <2>3, <3>2 DEF LaidOn
  <2> QED
    BY <2>2, <2>3
<1>12. CASE ~pull.qrf
  <2>1. quiz.graded = 0
    BY <1>2, <1>7, <1>12 DEF CurrentInv, CountInv
  <2>2. ~Witness
    BY <1>7, <1>12 DEF Witness
  <2> QED
    BY <1>9, <1>10, <2>1, <2>2 DEF LaidOn
<1>13. CASE quiz.graded = 0 /\ ~Witness
  BY <1>9, <1>10, <1>13 DEF LaidOn
<1>14. pull.qrf \in BOOLEAN
  BY Facts
<1> QED
  BY <1>8, <1>11, <1>12, <1>13 DEF PaidBy

LEMMA WriteDirect ==
  ASSUME DownloadsInv, CurrentInv, WritePage, LaidOn(DOMAIN pull.grades), ~quiz.pending,
         pull'.grades = NoGrades,
         \/ quiz = NoQuiz /\ pull.quiz # NoQuiz
         \/ quiz # NoQuiz /\ (pull.quiz = NoQuiz \/ pull.quiz.attempt = quiz.attempt)
  PROVE  CountInv' /\ HeldInv' /\ PageInv' /\ PulledInv'
<1> DEFINE G == DOMAIN pull.grades
<1>1. Held' = G \cup Held /\ Shown' = G \cup Shown /\ (Witness' => Witness)
      /\ \A q \in G : rows'[q].grade = pull.grades[q]
  BY DEF LaidOn
<1>2. DOMAIN NoGrades = {}
  BY DEF NoGrades
<1>3. CountInv'
  BY <1>1, WriteFacts DEF CurrentInv, CountInv
<1>4. HeldInv'
  <2>1. ~excused /\ quiz.attempt = attempt => PaidBy(pull.seq)'
    BY WritePays, WriteFacts DEF PaidBy
  <2>2. ASSUME ~excused, quiz = NoQuiz, pull.quiz # NoQuiz, pull.quiz.attempt = attempt
        PROVE  RightBy(pull.seq)'
    <3>1. Held = {} /\ Shown = {}
      BY <2>2, WriteFacts DEF Shown
    <3>2. \A q \in G : q \in Graded(grade) /\ (pull.grades[q] = grade[q] \/ stamp[q] > pull.seq)
      BY <2>2, WriteFacts DEF CurrentInv, PageInv
    <3> QED
      BY <1>1, <3>1, <3>2, WriteFacts DEF RightBy
  <2> QED
    BY <2>1, <2>2, WriteFacts DEF HeldInv, Written
<1>5. PageInv'
  <2>1. ~pull.qrf => G = {}
    BY DEF CurrentInv, PageInv, NoGrades
  <2> QED
    BY <1>1, <1>2, <2>1, WriteFacts DEF CurrentInv, PageInv
<1>6. PulledInv'
  <2>1. \A S \in SUBSET Questions : Counts(S) => Counts(S)'
    <3> SUFFICES ASSUME NEW S \in SUBSET Questions, Counts(S) PROVE Counts(S)'
      OBVIOUS
    <3>1. G \subseteq S
      BY DEF Counts
    <3> QED
      BY <1>1, <1>2, <3>1, WriteFacts DEF Counts
  <2> QED
    BY <2>1, WriteFacts DEF CurrentInv, PulledInv
<1> QED
  BY <1>3, <1>4, <1>5, <1>6

LEMMA WriteKeeps ==
  ASSUME DownloadsInv, CurrentInv, WritePage
  PROVE  CurrentInv'
<1> DEFINE new == [q \in DOMAIN pull.grades |->
                     Row(pull.grades[q], IF q \in Held THEN rows[q].order ELSE 0)]
           skip == quiz.pending \/ (quiz = NoQuiz /\ pull.quiz = NoQuiz)
           direct == \/ quiz = NoQuiz
                     \/ pull.quiz = NoQuiz \/ pull.quiz.attempt = quiz.attempt
<1>1. pull \in Pulls
  BY DEF DownloadsInv, TypeInv
<1>2. CASE skip
  <2>1. pull' = [pull EXCEPT !.stage = "rebase", !.grades = NoGrades] /\ UNCHANGED rows
    BY <1>2 DEF WritePage
  <2>2. pull'.grades = NoGrades
    BY <1>1, <2>1 DEF Pulls
  <2> QED
    BY <1>2, <2>1, <2>2, WriteSkips, WriteKeepsOrder DEF CurrentInv
<1>3. CASE ~skip /\ direct
  <2>1. /\ pull' = [pull EXCEPT !.stage = "rebase", !.grades = NoGrades,
                                !.fresh = DOMAIN pull.grades]
        /\ rows' = Over(new, rows)
    BY <1>3 DEF WritePage
  <2>2. pull'.grades = NoGrades
    BY <1>1, <2>1 DEF Pulls
  <2>3. LaidOn(DOMAIN pull.grades)
    BY <2>1, WriteLays
  <2> QED
    BY <1>3, <2>2, <2>3, WriteDirect, WriteKeepsOrder DEF CurrentInv
<1>4. CASE ~skip /\ ~direct
  <2>1. pull' = [pull EXCEPT !.stage = "rebase"] /\ UNCHANGED rows
    BY <1>4 DEF WritePage
  <2>2. pull'.grades = pull.grades
    BY <1>1, <2>1 DEF Pulls
  <2> QED
    BY <1>4, <2>1, <2>2, WriteSkips, WriteKeepsOrder DEF CurrentInv
<1> QED
  BY <1>2, <1>3, <1>4

-----------------------------------------------------------------------------
(* What a manager goes by                                                  *)

LEMMA NoFetchOK == DownloadsInv => FetchOK(NoFetch)
<1>1. NoFetch.stage = "idle" /\ NoFetch.label = 0
  BY DEF NoFetch
<1> QED
  BY <1>1, Facts DEF FetchOK

LEMMA StartOK ==
  ASSUME DownloadsInv, CurrentInv, NEW m \in Managers, Start(m)
  PROVE  \E d : To(m, d) /\ FetchOK(d)
<1> DEFINE fetch == quiz.pending /\ quiz.graded > 0
           busy == ~fetch /\ pull.stage # "idle"
           d == [NoFetch EXCEPT !.seen = quiz, !.grades = fetch,
                                !.stage = IF fetch THEN "sync" ELSE "lay",
                                !.crossed = busy]
<1>1. To(m, d)
  BY DEF Start
<1>2. /\ attempt \in Nat /\ quiz.attempt <= attempt /\ quiz.graded \in Nat
  BY Facts DEF CurrentInv, OrderInv
<1>3. fetch \in BOOLEAN /\ busy \in BOOLEAN
  BY Facts
<1>4. NoFetch \in Fetches /\ NoFetch.got = NoGrades /\ NoFetch.from = 0 /\ NoFetch.label = 0
  BY NothingUnderWay DEF NoFetch
<1>5. /\ fetch => quiz.pending /\ quiz.graded > 0
      /\ ~fetch => ~quiz.pending \/ quiz.graded = 0
      /\ busy <=> ~fetch /\ pull.stage # "idle"
  BY <1>2
<1> HIDE DEF fetch, busy
<1>6. /\ d.seen = quiz /\ (d.grades <=> fetch) /\ d.got = NoGrades /\ d.from = 0 /\ d.label = 0
      /\ d.stage = (IF fetch THEN "sync" ELSE "lay") /\ (d.crossed <=> busy)
  BY <1>3, <1>4 DEF Fetches
<1> HIDE DEF d
<1>7. FetchOK(d)
  BY <1>2, <1>5, <1>6 DEF FetchOK
<1> QED
  BY <1>1, <1>7

LEMMA RereadOK ==
  ASSUME DownloadsInv, CurrentInv, NEW m \in Managers, Reread(m)
  PROVE  \E d : To(m, d) /\ FetchOK(d)
<1> DEFINE row == IF quiz = NoQuiz THEN dl[m].seen ELSE quiz
           busy == pull.stage # "idle"
           tries == dl[m].tries + 1
           d == [dl[m] EXCEPT !.stage = "label", !.tries = tries, !.seen = row,
                              !.crossed = busy]
<1>1. dl[m] \in Fetches /\ FetchOK(dl[m]) /\ dl[m].stage = "sync"
  BY DEF Reread, CurrentInv, FetchInv, DownloadsInv, TypeInv, FetchesTyped
<1>2. To(m, d)
  BY <1>1 DEF Reread, Fetches
<1>3. row.attempt <= attempt
  BY <1>1 DEF FetchOK, CurrentInv, OrderInv
<1>4. busy <=> pull.stage # "idle"
  OBVIOUS
<1>5. busy \in BOOLEAN
  OBVIOUS
<1> HIDE DEF row, busy, tries
<1>6. /\ d.stage = "label" /\ d.seen = row /\ d.grades = dl[m].grades
      /\ d.got = dl[m].got /\ d.from = dl[m].from /\ d.label = dl[m].label
      /\ d.crossed = busy
  BY <1>1 DEF Fetches
<1> HIDE DEF d
<1>7. dl[m].got = NoGrades /\ dl[m].from = 0 /\ dl[m].grades /\ dl[m].label <= attempt
  BY <1>1 DEF FetchOK
<1>8. DOMAIN NoGrades = {}
  BY DEF NoGrades
<1>9. \A q \in Graded(grade) : ~(q < 0)
  <2>1. Questions \subseteq Nat
    BY FS_CardinalityType, DownloadsAssumption
  <2>2. \A q \in Graded(grade) : q \in Nat
    BY <2>1, Facts
  <2> QED
    BY <2>2
<1>10. FetchOK(d)
  BY <1>3, <1>4, <1>6, <1>7, <1>8, <1>9 DEF FetchOK
<1> QED
  BY <1>2, <1>10

LEMMA LabelOK ==
  ASSUME DownloadsInv, CurrentInv, NEW m \in Managers, Label(m)
  PROVE  \E d : To(m, d) /\ FetchOK(d)
<1> DEFINE d == [dl[m] EXCEPT !.stage = "page", !.label = attempt]
<1>1. dl[m] \in Fetches /\ FetchOK(dl[m]) /\ dl[m].stage = "label" /\ attempt \in Nat
  BY Facts DEF Label, CurrentInv, FetchInv, DownloadsInv, TypeInv, FetchesTyped
<1>2. To(m, d)
  BY DEF Label
<1>3. /\ d.stage = "page" /\ d.seen = dl[m].seen /\ d.grades = dl[m].grades
      /\ d.got = dl[m].got /\ d.from = dl[m].from /\ d.label = attempt
      /\ d.crossed = dl[m].crossed
  BY <1>1 DEF Fetches
<1> HIDE DEF d
<1>4. FetchOK(d)
  BY <1>1, <1>3 DEF FetchOK
<1> QED
  BY <1>2, <1>4

\* A page of the attempt the row is of adds what the server has on it.
LEMMA PageOK ==
  ASSUME DownloadsInv, CurrentInv, NEW m \in Managers, Page(m)
  PROVE  \E d : To(m, d) /\ FetchOK(d)
<1> DEFINE end == dl[m].from + INDEX_PAGE
           G == {q \in Graded(grade) : dl[m].from <= q /\ q < end}
           got == Over([q \in G |-> grade[q]], dl[m].got)
           retry == [NoFetch EXCEPT !.stage = "sync", !.seen = dl[m].seen,
                                    !.grades = TRUE, !.tries = dl[m].tries]
           more == [dl[m] EXCEPT !.stage = "label", !.from = end, !.label = 0, !.got = got]
           all == [dl[m] EXCEPT !.stage = "lay", !.from = 0, !.label = 0, !.got = got]
<1>1. /\ dl[m] \in Fetches /\ FetchOK(dl[m]) /\ dl[m].stage = "page"
      /\ attempt \in Nat /\ Graded(grade) \subseteq Questions
  BY Facts DEF Page, CurrentInv, FetchInv, DownloadsInv, TypeInv, FetchesTyped
<1>2. \/ To(m, retry) \/ To(m, NoFetch) \/ To(m, more)
      \/ To(m, all) /\ ~MorePages(end)
  <2>1. To(m, IF dl[m].label # dl[m].seen.attempt
              THEN IF dl[m].tries < 2 THEN retry ELSE NoFetch
              ELSE IF MorePages(end) THEN more
              ELSE IF Cardinality(DOMAIN got) = dl[m].seen.graded THEN all
              ELSE IF dl[m].tries < 2 THEN retry ELSE NoFetch)
    BY DEF Page
  <2> HIDE DEF retry, more, all, end, got
  <2> QED
    BY <2>1
<1>3. dl[m].from \in Nat /\ end \in Nat
  BY <1>1, DownloadsAssumption DEF Fetches
<1>4. /\ DOMAIN got = G \cup DOMAIN dl[m].got
      /\ \A q \in G : got[q] = grade[q]
      /\ \A q \in DOMAIN dl[m].got : q \notin G => got[q] = dl[m].got[q]
  BY DEF Over
<1>5. FetchOK(retry)
  <2>1. /\ retry.stage = "sync" /\ retry.seen = dl[m].seen /\ retry.grades
        /\ retry.from = 0 /\ retry.label = 0 /\ retry.got = NoGrades
    BY DEF NoFetch
  <2> HIDE DEF retry
  <2> QED
    BY <1>1, <2>1 DEF FetchOK
<1>6. ASSUME ~dl[m].crossed, dl[m].seen.attempt = attempt
      PROVE  /\ \A q \in DOMAIN got :
                  q \in Graded(grade) /\ (got[q] = grade[q] \/ stamp[q] > cursor)
             /\ \A q \in Graded(grade) : q < end /\ stamp[q] <= cursor => q \in DOMAIN got
  <2>1. /\ \A q \in DOMAIN dl[m].got :
             q \in Graded(grade) /\ (dl[m].got[q] = grade[q] \/ stamp[q] > cursor)
        /\ \A q \in Graded(grade) :
             q < dl[m].from /\ stamp[q] <= cursor => q \in DOMAIN dl[m].got
    BY <1>1, <1>6 DEF FetchOK
  <2>2. \A q \in G : q \in Graded(grade)
    OBVIOUS
  <2>3. \A q \in Graded(grade) : q < end => q < dl[m].from \/ q \in G
    <3>1. Questions \subseteq Nat
      BY FS_CardinalityType, DownloadsAssumption
    <3>2. \A q \in Graded(grade) : q \in Nat
      BY <1>1, <3>1
    <3> QED
      BY <1>3, <3>2
  <2> HIDE DEF G, got, end
  <2> QED
    BY <1>4, <2>1, <2>2, <2>3
<1>7. ~MorePages(end) => \A q \in Graded(grade) : q < end
  <2>1. Questions = 0 .. Cardinality(Questions) - 1 /\ Cardinality(Questions) \in Nat
    BY FS_CardinalityType, DownloadsAssumption
  <2>2. ~MorePages(end) => Cardinality(Questions) <= end
    BY <1>3, <2>1 DEF MorePages
  <2>3. \A q \in Questions : q \in Int /\ q < Cardinality(Questions)
    BY <2>1
  <2> HIDE DEF end
  <2>4. ~MorePages(end) => \A q \in Questions : q < end
    BY <1>3, <2>1, <2>2, <2>3
  <2> QED
    BY <1>1, <2>4
<1> HIDE DEF end, G, got, retry
<1>8. FetchOK(more)
  <2>1. /\ more.stage = "label" /\ more.seen = dl[m].seen /\ more.grades = dl[m].grades
        /\ more.from = end /\ more.label = 0 /\ more.got = got
        /\ more.crossed = dl[m].crossed
    BY <1>1 DEF Fetches
  <2> HIDE DEF more
  <2> QED
    BY <1>1, <1>6, <2>1 DEF FetchOK
<1>9. ~MorePages(end) => FetchOK(all)
  <2>1. /\ all.stage = "lay" /\ all.seen = dl[m].seen /\ all.grades = dl[m].grades
        /\ all.from = 0 /\ all.label = 0 /\ all.got = got
        /\ all.crossed = dl[m].crossed
    BY <1>1 DEF Fetches
  <2>2. dl[m].grades
    BY <1>1 DEF FetchOK
  <2> HIDE DEF all
  <2> QED
    BY <1>1, <1>6, <1>7, <2>1, <2>2 DEF FetchOK
<1> HIDE DEF more, all
<1> QED
  BY <1>2, <1>5, <1>8, <1>9, NoFetchOK

LEMMA FetchKeeps ==
  ASSUME DownloadsInv, CurrentInv, NEW m \in Managers,
         Start(m) \/ Reread(m) \/ Label(m) \/ Page(m) \/ FetchFails(m)
  PROVE  CurrentInv'
<1>1. \E d : To(m, d) /\ FetchOK(d)
  <2>1. FetchFails(m) => To(m, NoFetch)
    BY DEF FetchFails
  <2> QED
    BY <2>1, NoFetchOK, StartOK, RereadOK, LabelOK, PageOK
<1>2. UNCHANGED <<server, base, cursor, pull, excused>>
  BY DEF Start, Reread, Label, Page, FetchFails
<1>3. dl \in [Managers -> Fetches]
  BY DEF DownloadsInv, TypeInv, FetchesTyped
<1>4. PICK d : To(m, d) /\ FetchOK(d)
  BY <1>1
<1> QED
  BY <1>2, <1>3, <1>4, ManagerKeeps

-----------------------------------------------------------------------------
(* What a manager lays                                                     *)

\* The rows after a transaction, with the grades it goes by.
LEMMA LaidWhole ==
  ASSUME NEW m \in Managers, Lay(m), quiz.attempt = dl[m].seen.attempt,
         DownloadsInv
  PROVE  /\ Held' = Questions
         /\ dl[m].grades =>
              /\ Shown' = DOMAIN dl[m].got
              /\ \A q \in DOMAIN dl[m].got : rows'[q].grade = dl[m].got[q]
         /\ ~dl[m].grades =>
              /\ Shown' = Shown
              /\ \A q \in Held : rows'[q].grade = rows[q].grade
<1> DEFINE d == dl[m]
           GradeOf(q) == IF d.grades THEN IF q \in DOMAIN d.got THEN d.got[q] ELSE Ungraded
                         ELSE IF q \in Held THEN rows[q].grade ELSE Ungraded
<1>1. rows' = [q \in Questions |-> Row(GradeOf(q), quiz.attempt)]
  BY DEF Lay
<1>2. /\ Held' = Questions
      /\ \A q \in Questions : rows'[q].grade = GradeOf(q)
  BY <1>1 DEF Held, Row
<1>3. Shown' = {q \in Questions : GradeOf(q) # Ungraded}
  BY <1>2 DEF Shown
<1>4. d.got \in Partial /\ Held \subseteq Questions
  BY DEF DownloadsInv, TypeInv, FetchesTyped, Fetches
<1>5. DOMAIN d.got \subseteq Questions /\ \A q \in DOMAIN d.got : d.got[q] # Ungraded
  <2>1. PICK S \in SUBSET Questions : d.got \in [S -> Grades]
    BY <1>4 DEF Partial
  <2>2. \A q \in DOMAIN d.got : d.got[q] \in Grades
    BY <2>1
  <2> QED
    BY <2>1, <2>2 DEF Grades, Ungraded
<1>6. Shown \subseteq Held /\ \A q \in Held : q \in Shown <=> rows[q].grade # Ungraded
  BY DEF Shown
<1> HIDE DEF d
<1>7. CASE d.grades
  BY <1>2, <1>3, <1>5, <1>7 DEF d
<1>8. CASE ~d.grades
  BY <1>2, <1>3, <1>4, <1>6, <1>8 DEF d
<1> QED
  BY <1>7, <1>8 DEF d

\* What is laid without a sync or a drop between is paid up to the cursor.
LEMMA LayPays ==
  ASSUME DownloadsInv, CurrentInv, NEW m \in Managers, Lay(m),
         quiz.attempt = dl[m].seen.attempt, ~dl[m].crossed,
         dl[m].grades \/ ~(excused \/ Behind), quiz.attempt = attempt
  PROVE  RightBy(cursor)' /\ FullBy(cursor)'
<1>1. /\ FetchOK(dl[m]) /\ dl[m].stage = "lay"
      /\ pull.stage = "idle" /\ UNCHANGED <<server, cursor>>
  BY DEF Lay, CurrentInv, FetchInv, FetchOK
<1>2. Graded(grade)' = Graded(grade) /\ UNCHANGED <<grade, stamp>>
  BY <1>1 DEF server, Graded
<1>3. Graded(grade) \subseteq Questions /\ cursor \in Nat /\ quiz.graded \in Nat /\ quiz # NoQuiz
  BY Facts
<1>4. \A q \in Graded(grade) : stamp[q] \in Nat
  BY <1>3 DEF CurrentInv, OrderInv
<1>5. CASE dl[m].grades
  <2>1. /\ \A q \in DOMAIN dl[m].got :
             q \in Graded(grade) /\ (dl[m].got[q] = grade[q] \/ stamp[q] > cursor)
        /\ \A q \in Graded(grade) : stamp[q] <= cursor => q \in DOMAIN dl[m].got
    BY <1>1, <1>5 DEF FetchOK
  <2>2. /\ Held' = Questions /\ Shown' = DOMAIN dl[m].got
        /\ \A q \in DOMAIN dl[m].got : rows'[q].grade = dl[m].got[q]
    BY <1>5, LaidWhole
  <2>3. RightBy(cursor)'
    BY <1>1, <1>2, <2>1, <2>2 DEF RightBy
  <2>4. FullBy(cursor)'
    BY <1>1, <1>2, <1>3, <1>4, <2>1, <2>2 DEF FullBy
  <2> QED
    BY <2>3, <2>4
<1>6. CASE ~dl[m].grades
  <2>1. ~excused /\ ~Behind /\ (~quiz.pending \/ quiz.graded = 0)
    BY <1>1, <1>6 DEF FetchOK
  <2>2. /\ Held' = Questions /\ Shown' = Shown
        /\ \A q \in Held : rows'[q].grade = rows[q].grade
    BY <1>6, LaidWhole
  <2>3. quiz.graded = 0 => \A q \in Graded(grade) : ~(stamp[q] <= cursor)
    <3> DEFINE P == {q \in Graded(grade) : stamp[q] <= cursor}
    <3>1. IsFiniteSet(P)
      BY <1>3, FS_Subset, DownloadsAssumption
    <3>2. Cardinality(P) \in Nat /\ (Cardinality(P) = 0 <=> P = {})
      BY <3>1, FS_EmptySet, FS_CardinalityType
    <3>3. ~(Cardinality(P) > quiz.graded)
      BY <2>1 DEF Behind
    <3> HIDE DEF P
    <3>4. quiz.graded = 0 => P = {}
      BY <3>2, <3>3
    <3> QED
      BY <3>4 DEF P
  <2>4. RightBy(cursor)
    <3>1. CASE ~quiz.pending
      BY <1>1, <2>1, <3>1 DEF CurrentInv, HeldInv, PaidBy, Written
    <3>2. CASE quiz.pending /\ quiz.graded = 0
      BY <1>3, <2>1, <3>2 DEF CurrentInv, CountInv, RightBy
    <3> QED
      BY <2>1, <3>1, <3>2
  <2>5. FullBy(cursor)
    <3>1. CASE quiz.graded = 0
      BY <2>3, <3>1 DEF FullBy
    <3>2. CASE quiz.graded # 0
      BY <1>1, <2>1, <3>2 DEF CurrentInv, HeldInv, PaidBy, Written
    <3> QED
      BY <3>1, <3>2
  <2>6. RightBy(cursor)'
    BY <1>1, <1>2, <2>2, <2>4 DEF RightBy, Shown
  <2>7. FullBy(cursor)'
    BY <1>1, <1>2, <1>3, <2>2, <2>5 DEF FullBy
  <2> QED
    BY <2>6, <2>7
<1> QED
  BY <1>5, <1>6

LEMMA LayKeeps ==
  ASSUME DownloadsInv, CurrentInv, NEW m \in Managers, Lay(m)
  PROVE  CurrentInv'
<1>1. /\ To(m, NoFetch) /\ UNCHANGED <<server, cursor>>
      /\ dl[m].stage = "lay" /\ dl[m] \in Fetches /\ dl[m].seen \in QuizRows
      /\ dl \in [Managers -> Fetches] /\ pull \in Pulls
  BY DEF Lay, DownloadsInv, TypeInv, FetchesTyped
<1>2. CASE quiz.attempt # dl[m].seen.attempt
  <2>1. UNCHANGED <<base, excused, pull>>
    BY <1>2 DEF Lay
  <2> QED
    BY <1>1, <2>1, NoFetchOK, ManagerKeeps
<1>3. CASE quiz.attempt = dl[m].seen.attempt
  <2> DEFINE laid == IF dl[m].grades THEN DOMAIN dl[m].got ELSE {}
             fresh == pull.fresh \ laid
  <2>1. quiz # NoQuiz /\ quiz \in QuizRows
    BY <1>1, <1>3, QuizRowsAreQuizzes, Facts
  <2>2. /\ quiz' = [quiz EXCEPT !.pending = FALSE]
        /\ pull' = [pull EXCEPT !.fresh = fresh]
        /\ excused' = (dl[m].crossed \/ (~dl[m].grades /\ (excused \/ Behind)))
    BY <1>3 DEF Lay
  <2>3. /\ quiz'.attempt = quiz.attempt /\ quiz'.graded = quiz.graded
        /\ ~quiz'.pending /\ quiz' # NoQuiz
    BY <2>1, <2>2, MarkTyped, QuizRowsAreQuizzes DEF QuizRows
  <2> HIDE DEF fresh
  <2>4. /\ pull'.stage = pull.stage /\ pull'.cur = pull.cur /\ pull'.seq = pull.seq
        /\ pull'.qrf = pull.qrf /\ pull'.quiz = pull.quiz /\ pull'.grades = pull.grades
    BY <1>1, <2>2 DEF Pulls
  <2>5. Held' = Questions /\ Questions # {}
    BY <1>3, LaidWhole, DownloadsAssumption
  <2>6. /\ Graded(grade)' = Graded(grade)
        /\ UNCHANGED <<attempt, grade, stamp, sync_seq, cursor>>
    BY <1>1 DEF server, Graded
  <2>7. ~excused' => /\ ~dl[m].crossed /\ pull.stage = "idle"
                     /\ dl[m].grades \/ ~(excused \/ Behind)
    <3>1. FetchOK(dl[m])
      BY DEF CurrentInv, FetchInv
    <3> QED
      BY <1>1, <2>2, <3>1 DEF FetchOK
  <2>8. excused' \in BOOLEAN
    BY <2>2
  <2>9. OrderInv'
    BY <2>3, <2>4, <2>6, <2>8 DEF CurrentInv, OrderInv
  <2>10. CountInv'
    BY <2>3, <2>4, <2>5, <2>6 DEF CurrentInv, CountInv
  <2>11. HeldInv'
    <3>1. ~excused' /\ quiz.attempt = attempt => RightBy(cursor)' /\ FullBy(cursor)'
      BY <1>3, <2>7, LayPays
    <3> QED
      BY <2>3, <2>4, <2>6, <2>7, <3>1 DEF HeldInv, PaidBy, Written
  <2>12. PageInv'
    BY <2>1, <2>3, <2>4, <2>6, <2>7 DEF CurrentInv, PageInv, InRange
  <2>13. PulledInv'
    <3>1. \A S \in SUBSET Questions : pull.stage # "idle" /\ Counts(S) => Counts(S)'
      BY <2>4, <2>6, <2>7 DEF Counts
    <3> QED
      BY <2>4, <3>1 DEF CurrentInv, PulledInv
  <2>14. FetchInv'
    <3> SUFFICES ASSUME NEW n \in Managers PROVE FetchOK(dl[n])'
      BY DEF FetchInv
    <3>1. PICK e : e = dl'[n]
      OBVIOUS
    <3>2. e = NoFetch \/ e = dl[n]
      BY <1>1, <3>1 DEF To
    <3>3. FetchOK(e)
      BY <3>2, NoFetchOK DEF CurrentInv, FetchInv
    <3>4. FetchOK(e)'
      BY <2>3, <2>4, <2>6, <3>3 DEF FetchOK
    <3> QED
      BY <3>1, <3>4 DEF FetchOK
  <2> QED
    BY <2>9, <2>10, <2>11, <2>12, <2>13, <2>14 DEF CurrentInv
<1> QED
  BY <1>2, <1>3

-----------------------------------------------------------------------------
(* What a rebase settles                                                   *)

ShownIn(r) == Graded(GradesOf(r))

LEMMA ShownInRows ==
  ASSUME NEW r
  PROVE  ShownIn(r) = {q \in DOMAIN r : r[q].grade # Ungraded}
BY DEF ShownIn, Graded, GradesOf

\* A pulled row that is settled and not taken as it is: a new attempt shows what
\* was staged for it, the same one and a new quiz what was held.
LEMMA SettledShows ==
  ASSUME DownloadsInv, NEW p \in QuizRows, quiz.pending = FALSE,
         ~(quiz # NoQuiz /\ ~SeedChanged(p) /\ DOMAIN pull.grades = {} /\ Witness)
  PROVE  LET r == Settled(p) IN
         /\ r.quiz.graded = p.graded
         /\ r.quiz.pending <=> Cardinality(ShownIn(r.rows)) < p.graded
         /\ SeedChanged(p) =>
              /\ ShownIn(r.rows) = DOMAIN pull.grades
              /\ \A q \in DOMAIN pull.grades : r.rows[q].grade = pull.grades[q]
         /\ ~SeedChanged(p) /\ pull.grades = NoGrades =>
              /\ ShownIn(r.rows) = Shown
              /\ \A q \in Shown : r.rows[q].grade = rows[q].grade
<1> DEFINE implied == source /\ (pull.qrf \/ Held # {})
           known == implied \/ Held = Questions
           bare == [q \in Questions |-> Row(Ungraded, 0)]
           kept == IF SeedChanged(p) THEN IF known THEN bare ELSE NoRows
                   ELSE IF known THEN Over(rows, bare) ELSE rows
           pulled == [q \in DOMAIN pull.grades |-> Row(pull.grades[q], 0)]
           laid == Over(pulled, kept)
           whole == DOMAIN laid = Questions
           final == IF whole THEN [q \in Questions |-> Row(laid[q].grade, p.attempt)] ELSE laid
           behind == Cardinality(Graded(GradesOf(final))) < p.graded
           fresh == pull.fresh \cup (IF whole THEN Questions ELSE DOMAIN pull.grades)
           long == [quiz |-> [p EXCEPT !.pending = behind], rows |-> final, fresh |-> fresh]
<1>1. Settled(p) = long
  BY DEF Settled
<1>2. Held \subseteq Questions /\ DOMAIN pull.grades \subseteq Questions
  BY Facts
<1>3. \A q \in DOMAIN pull.grades : pull.grades[q] # Ungraded
  <2>1. pull.grades \in Partial
    BY DEF DownloadsInv, TypeInv, Pulls
  <2>2. PICK S \in SUBSET Questions : pull.grades \in [S -> Grades]
    BY <2>1 DEF Partial
  <2>3. \A q \in DOMAIN pull.grades : pull.grades[q] \in Grades
    BY <2>2
  <2> QED
    BY <2>3 DEF Grades, Ungraded
<1>4. /\ DOMAIN laid = DOMAIN pull.grades \cup DOMAIN kept
      /\ \A q \in DOMAIN pull.grades : laid[q].grade = pull.grades[q]
      /\ \A q \in DOMAIN kept : q \notin DOMAIN pull.grades => laid[q] = kept[q]
  BY DEF Over, Row
<1>5. DOMAIN final = DOMAIN laid /\ \A q \in DOMAIN laid : final[q].grade = laid[q].grade
  BY DEF Row
<1>6. behind \in BOOLEAN /\ (behind <=> Cardinality(ShownIn(final)) < p.graded)
  BY DEF ShownIn
<1>7. SeedChanged(p) => \A q \in DOMAIN kept : kept[q].grade = Ungraded
  BY DEF Row, NoRows
<1>8. ~SeedChanged(p) => /\ Held \subseteq DOMAIN kept
                         /\ \A q \in Held : kept[q] = rows[q]
                         /\ \A q \in DOMAIN kept : q \notin Held => kept[q].grade = Ungraded
  BY DEF Over, Row, Held
<1> HIDE DEF behind, laid, kept
<1>9. long.quiz.graded = p.graded /\ (long.quiz.pending <=> behind) /\ long.rows = final
  BY <1>6 DEF QuizRows
<1> HIDE DEF long, final
<1>10. ShownIn(final) = {q \in DOMAIN final : final[q].grade # Ungraded}
  BY ShownInRows
<1>11. SeedChanged(p) => /\ ShownIn(final) = DOMAIN pull.grades
                         /\ \A q \in DOMAIN pull.grades : final[q].grade = pull.grades[q]
  BY <1>3, <1>4, <1>5, <1>7, <1>10
<1>12. ~SeedChanged(p) /\ pull.grades = NoGrades =>
         /\ ShownIn(final) = Shown
         /\ \A q \in Shown : final[q].grade = rows[q].grade
  <2> SUFFICES ASSUME ~SeedChanged(p), pull.grades = NoGrades
               PROVE  /\ ShownIn(final) = Shown
                      /\ \A q \in Shown : final[q].grade = rows[q].grade
    OBVIOUS
  <2>1. DOMAIN pull.grades = {}
    BY DEF NoGrades
  <2>2. DOMAIN final = DOMAIN kept /\ \A q \in DOMAIN kept : final[q].grade = kept[q].grade
    BY <1>4, <1>5, <2>1
  <2>3. \A q : q \in Shown <=> q \in Held /\ rows[q].grade # Ungraded
    BY DEF Shown
  <2> QED
    BY <1>8, <1>10, <2>2, <2>3
<1> QED
  BY <1>1, <1>6, <1>9, <1>11, <1>12

\* What a rebase with a pulled row leaves of the settled rows.
LEMMA RebaseTakes ==
  ASSUME DownloadsInv, CurrentInv, Rebase, pull.quiz # NoQuiz
  PROVE  LET r == Settled(pull.quiz) IN
         /\ quiz'.attempt = pull.quiz.attempt /\ quiz' # NoQuiz
         /\ r.quiz \in QuizRows => quiz'.graded = r.quiz.graded /\ (r.quiz.pending => quiz'.pending)
         /\ Shown' \subseteq ShownIn(r.rows)
         /\ r.quiz \in QuizRows /\ ~quiz'.pending =>
              /\ Held' = DOMAIN r.rows /\ Shown' = ShownIn(r.rows)
              /\ \A q \in Held' : rows'[q] = r.rows[q]
         /\ SeedChanged(pull.quiz) /\ ~excused' => ~quiz.pending \/ Shown = {}
         /\ ~SeedChanged(pull.quiz) => excused' = excused
<1> DEFINE r == Settled(pull.quiz)
           full == pull.cur = Null
           gone == IF full /\ pull.qrf THEN Graded(GradesOf(r.rows)) \ r.fresh ELSE {}
           mark == r.quiz.pending \/ gone # {}
<1>1. /\ quiz' = [r.quiz EXCEPT !.pending = mark]
      /\ rows' = Restrict(r.rows, DOMAIN r.rows \ gone)
      /\ excused' = IF SeedChanged(pull.quiz)
                    THEN quiz.pending /\ Graded(GradesOf(rows)) # {} ELSE excused
  BY DEF Rebase
<1>2. pull.quiz \in QuizRows /\ quiz.pending \in BOOLEAN
  BY Facts
<1>3. r.quiz \in QuizRows /\ r.quiz.attempt = pull.quiz.attempt
  <2>1. CASE quiz.pending
    <3>1. r.quiz = [pull.quiz EXCEPT !.pending = TRUE]
      BY <2>1 DEF Settled
    <3> HIDE DEF r
    <3> QED
      BY <1>2, <3>1, MarkTyped
  <2>2. CASE ~quiz.pending
    <3>1. quiz.pending = FALSE
      BY <1>2, <2>2
    <3> QED
      BY <1>2, <3>1, SettledRows
  <2> QED
    BY <2>1, <2>2
<1>4. r.quiz.pending \in BOOLEAN
  BY <1>3 DEF QuizRows
<1> HIDE DEF r
<1>5. mark \in BOOLEAN /\ (r.quiz.pending => mark) /\ (~mark => gone = {})
  BY <1>4
<1> HIDE DEF mark
<1>6. /\ quiz' \in QuizRows /\ quiz'.attempt = r.quiz.attempt
      /\ quiz'.graded = r.quiz.graded /\ (quiz'.pending <=> mark)
  BY <1>1, <1>3, <1>5, MarkTyped DEF QuizRows
<1> HIDE DEF gone
<1>7. /\ Held' = DOMAIN r.rows \ gone
      /\ \A q \in Held' : rows'[q] = r.rows[q]
  BY <1>1 DEF Restrict, Held
<1>8. ShownIn(r.rows) = {q \in DOMAIN r.rows : r.rows[q].grade # Ungraded}
  BY ShownInRows
<1>9. Shown' = {q \in Held' : rows'[q].grade # Ungraded}
  BY DEF Shown
<1>10. Shown' \subseteq ShownIn(r.rows)
  BY <1>7, <1>8, <1>9
<1>11. ~quiz'.pending => Held' = DOMAIN r.rows /\ Shown' = ShownIn(r.rows)
  BY <1>5, <1>6, <1>7, <1>8, <1>9
<1>12. quiz' # NoQuiz
  BY <1>6, QuizRowsAreQuizzes
<1>13. /\ SeedChanged(pull.quiz) /\ ~excused' => ~quiz.pending \/ Shown = {}
       /\ ~SeedChanged(pull.quiz) => excused' = excused
  BY <1>1, ShownGrades
<1> QED
  BY <1>3, <1>5, <1>6, <1>7, <1>10, <1>11, <1>12, <1>13 DEF r

\* What the rows owe once a pulled row is settled.
Settles ==
  /\ quiz'.graded = pull.quiz.graded
  /\ ~quiz'.pending /\ Held' = {} => quiz'.graded = 0
  /\ ~excused' /\ quiz'.pending /\ quiz'.graded = 0 => Shown' = {}
  /\ ~excused' /\ ~quiz'.pending /\ quiz'.attempt = attempt => PaidBy(pull.seq)'

LEMMA RebaseFacts ==
  ASSUME DownloadsInv, CurrentInv, Rebase
  PROVE  /\ pull.stage = "rebase" /\ pull'.stage = "advance"
         /\ pull'.cur = pull.cur /\ pull'.seq = pull.seq /\ pull'.qrf = pull.qrf
         /\ pull'.quiz = pull.quiz /\ pull'.grades = pull.grades
         /\ UNCHANGED <<attempt, grade, stamp, sync_seq, cursor, dl>>
         /\ Graded(grade)' = Graded(grade)
<1>1. pull \in Pulls
  BY DEF DownloadsInv, TypeInv
<1>2. /\ pull.stage = "rebase" /\ pull' = [pull EXCEPT !.stage = "advance"]
      /\ UNCHANGED <<server, cursor, dl>>
  BY DEF Rebase
<1>3. /\ pull'.stage = "advance" /\ pull'.cur = pull.cur /\ pull'.seq = pull.seq
      /\ pull'.qrf = pull.qrf /\ pull'.quiz = pull.quiz /\ pull'.grades = pull.grades
  BY <1>1, <1>2 DEF Pulls
<1> QED
  BY <1>2, <1>3 DEF server, Graded

\* A quiz that awaits its grades goes on awaiting them.
LEMMA RebasePending ==
  ASSUME DownloadsInv, CurrentInv, Rebase, pull.quiz # NoQuiz, quiz.pending
  PROVE  Settles
<1> DEFINE r == Settled(pull.quiz)
<1>1. pull.quiz \in QuizRows /\ quiz.graded \in Nat /\ pull.quiz.graded \in Nat
  BY Facts
<1>2. r.quiz = [pull.quiz EXCEPT !.pending = TRUE] /\ r.rows = rows
  BY DEF Settled
<1> HIDE DEF r
<1>3. r.quiz \in QuizRows /\ r.quiz.graded = pull.quiz.graded /\ r.quiz.pending
  BY <1>1, <1>2, MarkTyped DEF QuizRows
<1>4. /\ quiz'.pending /\ quiz'.graded = pull.quiz.graded /\ Shown' \subseteq Shown
      /\ SeedChanged(pull.quiz) /\ ~excused' => Shown = {}
      /\ ~SeedChanged(pull.quiz) => excused' = excused
  BY <1>2, <1>3, RebaseTakes, ShownGrades DEF r, ShownIn
<1>5. quiz # NoQuiz
  BY NoAttempt
<1>6. ASSUME ~excused', quiz'.graded = 0, ~SeedChanged(pull.quiz) PROVE Shown = {}
  <2>1. quiz.attempt = pull.quiz.attempt
    BY <1>5, <1>6 DEF SeedChanged
  <2>2. ~(quiz.graded > 0)
    BY <1>4, <1>6, <2>1 DEF CurrentInv, CountInv
  <2> QED
    BY <1>1, <1>4, <1>5, <1>6, <2>2 DEF CurrentInv, CountInv
<1> QED
  BY <1>4, <1>6 DEF Settles

\* A pulled row that brings nothing to a quiz laid in the same attempt.
LEMMA RebaseSame ==
  ASSUME DownloadsInv, CurrentInv, Rebase, pull.quiz # NoQuiz, quiz.pending = FALSE,
         quiz # NoQuiz, ~SeedChanged(pull.quiz), DOMAIN pull.grades = {}, Witness
  PROVE  Settles
<1> DEFINE r == Settled(pull.quiz)
<1>1. pull.quiz \in QuizRows /\ quiz.attempt = pull.quiz.attempt
  BY Facts DEF SeedChanged
<1>2. r.quiz = pull.quiz /\ r.rows = rows
  BY DEF Settled
<1> HIDE DEF r
<1>3. /\ quiz'.attempt = pull.quiz.attempt /\ quiz'.graded = pull.quiz.graded
      /\ Shown' \subseteq Shown /\ excused' = excused
      /\ ~quiz'.pending => /\ Held' = Held /\ Shown' = Shown
                           /\ \A q \in Held : rows'[q] = rows[q]
  BY <1>1, <1>2, RebaseTakes, ShownGrades DEF r, ShownIn, Held
<1>4. Held # {}
  BY DEF Witness
<1>5. ASSUME ~excused, quiz'.graded = 0 PROVE Shown = {}
  <2>1. PICK S \in SUBSET Questions : Counts(S)
    BY RebaseFacts DEF CurrentInv, PulledInv
  <2>2. Shown \subseteq S /\ Cardinality(S) = 0
    BY <1>1, <1>3, <1>5, <2>1 DEF Counts
  <2>3. IsFiniteSet(S)
    BY FS_Subset, DownloadsAssumption
  <2> QED
    BY <2>2, <2>3, FS_EmptySet
<1>6. ASSUME ~excused, ~quiz'.pending, quiz'.attempt = attempt PROVE PaidBy(pull.seq)'
  <2>1. RightBy(pull.seq) /\ FullBy(pull.seq)
    BY <1>1, <1>3, <1>6, RebaseFacts DEF CurrentInv, HeldInv, PaidBy, Written
  <2>2. RightBy(pull.seq)'
    BY <1>3, <1>6, <2>1, RebaseFacts DEF RightBy, Shown
  <2>3. FullBy(pull.seq)'
    BY <1>3, <1>6, <2>1, RebaseFacts DEF FullBy
  <2> QED
    BY <2>2, <2>3 DEF PaidBy
<1> QED
  BY <1>3, <1>4, <1>5, <1>6 DEF Settles

\* A pulled row that resets the rows, or counts those held: without the mark
\* they are as many as it counts, hence the very ones it counts.
LEMMA RebaseCounts ==
  ASSUME DownloadsInv, CurrentInv, Rebase, pull.quiz # NoQuiz, quiz.pending = FALSE,
         ~(quiz # NoQuiz /\ ~SeedChanged(pull.quiz) /\ DOMAIN pull.grades = {} /\ Witness)
  PROVE  Settles
<1> DEFINE r == Settled(pull.quiz)
           F == ShownIn(r.rows)
           changed == SeedChanged(pull.quiz)
<1>1. pull.quiz \in QuizRows /\ pull.quiz.graded \in Nat /\ pull.seq \in Nat
      /\ Graded(grade) \subseteq Questions
  BY Facts
<1>2. \A q \in Graded(grade) : stamp[q] \in Nat
  BY <1>1 DEF CurrentInv, OrderInv
<1>3. ~changed => pull.grades = NoGrades
  BY RebaseFacts DEF CurrentInv, PageInv, SeedChanged
<1>4. r.quiz \in QuizRows
  BY <1>1, SettledRows
<1>5. /\ r.quiz.graded = pull.quiz.graded
      /\ r.quiz.pending <=> Cardinality(F) < pull.quiz.graded
      /\ changed => F = DOMAIN pull.grades
                    /\ \A q \in DOMAIN pull.grades : r.rows[q].grade = pull.grades[q]
      /\ ~changed => F = Shown /\ \A q \in Shown : r.rows[q].grade = rows[q].grade
  BY <1>1, <1>3, SettledShows
<1>6. /\ quiz'.attempt = pull.quiz.attempt /\ quiz'.graded = pull.quiz.graded
      /\ r.quiz.pending => quiz'.pending
      /\ Shown' \subseteq F
      /\ ~quiz'.pending => /\ Held' = DOMAIN r.rows /\ Shown' = F
                           /\ \A q \in Held' : rows'[q] = r.rows[q]
      /\ ~changed => excused' = excused
  BY <1>4, <1>5, RebaseTakes
<1>7. PICK S \in SUBSET Questions : Counts(S)
  BY RebaseFacts DEF CurrentInv, PulledInv
<1>8. IsFiniteSet(S) /\ Cardinality(S) = pull.quiz.graded
  BY <1>7, FS_Subset, DownloadsAssumption DEF Counts
<1> HIDE DEF changed, F, r
<1>9. ~excused' => F \subseteq S
  <2>1. CASE changed
    BY <1>5, <1>7, <2>1 DEF Counts
  <2>2. CASE ~changed
    <3>1. quiz = NoQuiz \/ quiz.attempt = pull.quiz.attempt
      BY <2>2 DEF changed, SeedChanged
    <3> QED
      BY <1>5, <1>6, <1>7, <2>2, <3>1 DEF Counts
  <2> QED
    BY <2>1, <2>2
<1>10. ~quiz'.pending => ~(Cardinality(F) < pull.quiz.graded)
  BY <1>5, <1>6
<1>11. ASSUME ~quiz'.pending, Held' = {} PROVE quiz'.graded = 0
  <2>1. F = {}
    BY <1>6, <1>11 DEF Shown
  <2>2. Cardinality(F) = 0
    BY <2>1, FS_EmptySet
  <2> QED
    BY <1>1, <1>6, <1>10, <1>11, <2>2
<1>12. ASSUME ~excused', quiz'.graded = 0 PROVE Shown' = {}
  <2>1. S = {}
    BY <1>6, <1>8, <1>12, FS_EmptySet
  <2> QED
    BY <1>6, <1>9, <1>12, <2>1
<1>13. ASSUME ~excused', ~quiz'.pending, quiz'.attempt = attempt PROVE PaidBy(pull.seq)'
  <2>1. F = S
    <3>1. F \subseteq S
      BY <1>9, <1>13
    <3>2. Cardinality(F) \in Nat /\ IsFiniteSet(F)
      BY <1>8, <3>1, FS_Subset, FS_CardinalityType
    <3>3. Cardinality(F) <= Cardinality(S) /\ (Cardinality(S) = Cardinality(F) => S = F)
      BY <1>8, <3>1, FS_Subset
    <3> QED
      BY <1>1, <1>8, <1>10, <1>13, <3>2, <3>3
  <2>2. Shown' = F /\ \A q \in F : q \in Held' /\ rows'[q] = r.rows[q]
    BY <1>6, <1>13 DEF Shown
  <2>3. \A q \in F : q \in Graded(grade) /\ (r.rows[q].grade = grade[q] \/ stamp[q] > pull.seq)
    <3>1. CASE changed
      <4>1. \A q \in DOMAIN pull.grades :
              q \in Graded(grade) /\ (pull.grades[q] = grade[q] \/ stamp[q] > pull.seq)
        BY <1>6, <1>13, RebaseFacts DEF CurrentInv, PageInv
      <4> QED
        BY <1>5, <3>1, <4>1
    <3>2. CASE ~changed
      <4>1. RightBy(pull.seq)
        <5>1. CASE quiz = NoQuiz
          <6>1. Held = {} => Shown = {}
            BY DEF Shown
          <6> QED
            BY <1>6, <1>13, <3>2, <5>1, <6>1 DEF CurrentInv, HeldInv, RightBy
        <5>2. CASE quiz # NoQuiz
          <6>1. quiz.attempt = attempt
            BY <1>6, <1>13, <3>2, <5>2 DEF changed, SeedChanged
          <6> QED
            BY <1>6, <1>13, <3>2, <6>1, RebaseFacts DEF CurrentInv, HeldInv, PaidBy, Written
        <5> QED
          BY <5>1, <5>2
      <4> QED
        BY <1>5, <3>2, <4>1 DEF RightBy
    <3> QED
      BY <3>1, <3>2
  <2>4. \A q \in Graded(grade) : stamp[q] <= pull.seq => q \in F
    BY <1>6, <1>7, <1>13, <2>1 DEF Counts
  <2>5. RightBy(pull.seq)'
    BY <2>2, <2>3, RebaseFacts DEF RightBy
  <2>6. FullBy(pull.seq)'
    <3> SUFFICES ASSUME NEW q \in Graded(grade), stamp[q] <= pull.seq
                 PROVE  q \in Held' /\ rows'[q].grade = grade[q]
      BY RebaseFacts DEF FullBy
    <3>1. ~(stamp[q] > pull.seq)
      BY <1>1, <1>2
    <3> QED
      BY <2>2, <2>3, <2>4, <3>1
  <2> QED
    BY <2>5, <2>6 DEF PaidBy
<1> QED
  BY <1>6, <1>11, <1>12, <1>13 DEF Settles

LEMMA RebaseKeeps ==
  ASSUME DownloadsInv, CurrentInv, Rebase
  PROVE  CurrentInv'
<1>1. FetchInv'
  BY RebaseFacts, BusyKeeps
<1>2. PageInv'
  <2>1. pull'.stage = "advance" /\ pull'.quiz = pull.quiz /\ pull'.qrf = pull.qrf
    BY RebaseFacts
  <2> QED
    BY <2>1, RebaseFacts DEF CurrentInv, PageInv
<1>3. PulledInv'
  BY RebaseFacts DEF PulledInv
<1>4. CASE pull.quiz # NoQuiz
  <2>1. Settles
    <3>1. quiz.pending \in BOOLEAN
      BY Facts
    <3>2. CASE quiz.pending
      BY <1>4, <3>2, RebasePending
    <3>3. CASE quiz.pending = FALSE
      BY <1>4, <3>3, RebaseSame, RebaseCounts
    <3> QED
      BY <3>1, <3>2, <3>3
  <2>2. quiz'.attempt = pull.quiz.attempt /\ quiz' # NoQuiz /\ excused' \in BOOLEAN
    <3>1. excused' \in BOOLEAN
      <4>1. excused' = IF SeedChanged(pull.quiz)
                       THEN quiz.pending /\ Graded(GradesOf(rows)) # {} ELSE excused
        BY <1>4 DEF Rebase
      <4>2. excused \in BOOLEAN /\ quiz.pending \in BOOLEAN
        BY Facts DEF CurrentInv, OrderInv
      <4> QED
        BY <4>1, <4>2
    <3> QED
      BY <1>4, <3>1, RebaseTakes
  <2>3. pull.quiz.attempt <= attempt /\ pull.quiz.attempt \in Int /\ pull.quiz.graded \in Nat
    BY <1>4, Facts DEF CurrentInv, OrderInv
  <2>4. quiz'.attempt = attempt /\ quiz'.graded > 0 => Graded(grade) # {}
    <3>1. PICK S \in SUBSET Questions : Counts(S)
      BY <1>4, RebaseFacts DEF CurrentInv, PulledInv
    <3>2. Cardinality(S) = quiz'.graded
      BY <2>1, <3>1 DEF Settles, Counts
    <3>3. quiz'.attempt = attempt => S \subseteq Graded(grade)
      BY <2>2, <3>1 DEF Counts
    <3>4. S = {} => Cardinality(S) = 0
      BY FS_EmptySet
    <3> QED
      BY <3>2, <3>3, <3>4
  <2>5. OrderInv'
    <3>1. quiz'.attempt <= attempt /\ quiz'.attempt <= pull.quiz.attempt
      BY <2>2, <2>3
    <3> QED
      BY <2>2, <3>1, RebaseFacts DEF CurrentInv, OrderInv
  <2>6. CountInv'
    BY <2>1, <2>2, <2>4, RebaseFacts DEF Settles, CountInv
  <2>7. HeldInv'
    BY <2>1, <2>2, RebaseFacts DEF Settles, HeldInv, Written
  <2> QED
    BY <1>1, <1>2, <1>3, <2>5, <2>6, <2>7 DEF CurrentInv
<1>5. CASE pull.quiz = NoQuiz /\ pull.cur = Null
  <2>1. /\ quiz' = NoQuiz
        /\ rows' = NoRows \/ (quiz = NoQuiz /\ rows' = rows)
        /\ excused' = (excused /\ rows' = rows)
    BY <1>5 DEF Rebase
  <2>2. /\ quiz'.attempt < 0 /\ attempt \in Nat /\ ~quiz'.pending
        /\ quiz'.attempt # attempt /\ quiz'.attempt <= attempt
    BY <2>1, NoAttempt, Facts
  <2>3. OrderInv'
    BY <1>5, <2>1, <2>2, RebaseFacts DEF CurrentInv, OrderInv
  <2>4. CountInv'
    BY <1>5, <2>1, <2>2, RebaseFacts DEF CountInv
  <2>5. ~excused' => Held' = {}
    <3>1. rows' = NoRows => Held' = {}
      BY DEF Held, NoRows
    <3>2. rows' = rows => Held' = Held
      BY DEF Held
    <3> QED
      BY <1>5, <2>1, <3>1, <3>2 DEF CurrentInv, HeldInv
  <2>6. HeldInv'
    BY <2>2, <2>5, RebaseFacts DEF HeldInv
  <2> QED
    BY <1>1, <1>2, <1>3, <2>3, <2>4, <2>6 DEF CurrentInv
<1>6. CASE pull.quiz = NoQuiz /\ pull.cur # Null
  <2>1. UNCHANGED <<quiz, rows, excused>>
    BY <1>6 DEF Rebase, base
  <2>2. Held' = Held /\ Shown' = Shown /\ Witness' = Witness
    BY <2>1 DEF Held, Shown, Witness
  <2>3. OrderInv' /\ CountInv'
    BY <2>1, <2>2, RebaseFacts DEF CurrentInv, OrderInv, CountInv
  <2>4. HeldInv'
    BY <1>6, <2>1, <2>2, RebaseFacts DEF CurrentInv, HeldInv, PaidBy, RightBy, FullBy, Written
  <2> QED
    BY <1>1, <1>2, <1>3, <2>3, <2>4 DEF CurrentInv
<1> QED
  BY <1>4, <1>5, <1>6

-----------------------------------------------------------------------------
(* The theorem                                                             *)

LEMMA CurrentInit == Init => CurrentInv
<1> SUFFICES ASSUME Init PROVE CurrentInv
  OBVIOUS
<1>1. DownloadsInv
  BY DownloadsInit
<1>2. PICK s \in Starts :
        /\ grade = [q \in Questions |-> IF q \in s.graded THEN "correct" ELSE Ungraded]
        /\ quiz = [attempt |-> 1, graded |-> Cardinality(s.graded), pending |-> s.graded # {}]
  BY DEF Init
<1>3. /\ attempt = 1 /\ stamp = [q \in Questions |-> 0] /\ sync_seq = 0 /\ rows = NoRows
      /\ cursor = 0 /\ pull = NoPull /\ dl = [m \in Managers |-> NoFetch] /\ excused = FALSE
  BY DEF Init
<1>4. Held = {} /\ Shown = {} /\ ~Witness
  BY <1>3 DEF Held, Shown, Witness, NoRows
<1>5. pull.stage = "idle" /\ pull.quiz = NoQuiz /\ pull.grades = NoGrades
  BY <1>3 DEF NoPull
<1>6. s.graded \subseteq Questions
  BY DownloadsAssumption
<1>7. /\ IsFiniteSet(s.graded) /\ quiz.graded = Cardinality(s.graded)
      /\ quiz.pending <=> s.graded # {}
      /\ quiz.attempt = 1
  BY <1>2, <1>6, FS_Subset, DownloadsAssumption
<1>8. s.graded = {} <=> quiz.graded = 0
  BY <1>7, FS_EmptySet
<1>9. s.graded \subseteq Graded(grade)
  BY <1>2, <1>6 DEF Graded, Ungraded
<1>10. OrderInv
  <2>1. excused \in BOOLEAN
    BY DEF Init
  <2>2. stamp \in [Questions -> Nat] /\ \A q \in Questions : stamp[q] <= sync_seq
    BY <1>3
  <2>3. cursor <= sync_seq /\ quiz.attempt <= attempt
    BY <1>3, <1>7
  <2> QED
    BY <1>5, <2>1, <2>2, <2>3, NoAttempt DEF OrderInv
<1>11. CountInv
  BY <1>4, <1>5, <1>7, <1>8, <1>9 DEF CountInv
<1>12. HeldInv
  BY <1>4, <1>5, <1>7, <1>8 DEF HeldInv, PaidBy, RightBy, Written
<1>13. PageInv /\ PulledInv
  BY <1>5 DEF PageInv, PulledInv
<1>14. FetchInv
  <2> SUFFICES ASSUME NEW m \in Managers PROVE FetchOK(dl[m])
    BY DEF FetchInv
  <2>1. dl[m] = NoFetch
    BY <1>3
  <2> QED
    BY <1>1, <2>1, NoFetchOK
<1> QED
  BY <1>10, <1>11, <1>12, <1>13, <1>14 DEF CurrentInv

LEMMA CurrentStep == DownloadsInv /\ CurrentInv /\ [Next]_vars => CurrentInv'
<1> SUFFICES ASSUME DownloadsInv, CurrentInv, [Next]_vars PROVE CurrentInv'
  OBVIOUS
<1>1. DownloadsInv'
  BY DownloadsStep
<1>2. CASE Open \/ Lapse
  BY <1>2, Unmoved DEF Open, Lapse, server, base
<1>3. CASE UNCHANGED vars
  BY <1>3, Unmoved DEF vars, server, base
<1>4. CASE Next
  BY <1>1, <1>2, <1>4, ElsewhereKeeps, SendKeeps, ReadQuizzesKeeps, ReadGradesKeeps,
     WriteKeeps, RebaseKeeps, AdvanceKeeps, SyncFailsKeeps, FetchKeeps, LayKeeps,
     DropKeeps, CloseKeeps
     DEF Next, Cycle, Materialise
<1> QED
  BY <1>3, <1>4

\* A ready quiz shows, of the server's present attempt, every grade its cursor
\* has passed, whatever the other devices grade and reset, the pulls bring or
\* leave out, the managers fetch in two statements a page and the drop pass takes
\* away in between (pull.ts writePage, rebase.ts settleQuiz, downloads.ts
\* materialiseQuiz), but for the rows ReadyIsCurrent excuses.
THEOREM ReadyIsUpToDate == Spec => []ReadyIsCurrent
<1>1. DownloadsInv /\ CurrentInv => ReadyIsCurrent
  <2> SUFFICES ASSUME DownloadsInv, CurrentInv, Ready, quiz.attempt = attempt, ~excused,
                      NEW q \in Questions
               PROVE  Current(q)
    BY DEF ReadyIsCurrent
  <2>1. q \in Held
    BY WholeWhenReady DEF AllAt, Held
  <2>2. ~quiz.pending /\ Witness
    BY DEF Ready, Complete
  <2>3. PaidBy(cursor)
    BY <2>2, PaidBefore DEF CurrentInv, HeldInv, Written
  <2>4. RightBy(cursor) /\ FullBy(cursor)
    BY <2>2, <2>3 DEF PaidBy
  <2>5. /\ grade[q] # Ungraded <=> q \in Graded(grade)
        /\ stamp[q] \in Nat /\ cursor \in Nat
    BY Facts DEF DownloadsInv, TypeInv, ServerTyped, Graded, CurrentInv, OrderInv
  <2>6. CASE grade[q] # Ungraded
    BY <2>4, <2>5, <2>6 DEF FullBy, Current
  <2>7. CASE grade[q] = Ungraded
    BY <2>1, <2>4, <2>5, <2>7 DEF RightBy, Shown, Current
  <2> QED
    BY <2>6, <2>7
<1>2. Init => DownloadsInv /\ CurrentInv
  BY DownloadsInit, CurrentInit
<1>3. DownloadsInv /\ CurrentInv /\ [Next]_vars => DownloadsInv' /\ CurrentInv'
  BY DownloadsStep, CurrentStep
<1> QED
  BY <1>1, <1>2, <1>3, PTL DEF Spec
=============================================================================
