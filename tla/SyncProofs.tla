------------------------------ MODULE SyncProofs ------------------------------
(***************************************************************************)
(* Theorems of the two halves of a sync.                                   *)
(*                                                                         *)
(* SyncPull: whatever the server writes, purges and prunes between the     *)
(* statements of a pull, and wherever the pull is interrupted, the device  *)
(* misses no row its cursor has passed and keeps none that is gone.  For   *)
(* every set of cascades and quizzes and every page size.                  *)
(*                                                                         *)
(* SyncPush: however often a batch is sent, each operation is decided once *)
(* and none is lost.  For any set of tabs, any size of a batch, and any    *)
(* number of operations.                                                   *)
(***************************************************************************)
EXTENDS SyncPull, SyncPush, FiniteSetTheorems, WellFoundedInduction, TLAPS

-----------------------------------------------------------------------------
(* Numbers, and the rows a page takes                                      *)

\* Induction over the naturals for a set.
LEMMA SetInduction ==
  ASSUME NEW S, 0 \in S, \A n \in Nat : n \in S => n + 1 \in S
  PROVE  Nat \subseteq S
<1>1. SUFFICES ASSUME Nat \ S # {} PROVE FALSE
  OBVIOUS
<1>2. PICK x \in Nat \ S : \A y \in Nat \ S : <<y, x>> \notin OpToRel(<, Nat)
  BY <1>1, WFMin, NatLessThanWellFounded
<1>3. \A y \in Nat \ S : ~(y < x)
  BY <1>2 DEF OpToRel
<1>4. x # 0 /\ x - 1 \in Nat
  OBVIOUS
<1>5. x - 1 \in S
  BY <1>3, <1>4
<1> QED
  BY <1>4, <1>5

LEMMA MaxOfFinite ==
  ASSUME NEW T \in SUBSET Nat, IsFiniteSet(T), T # {}
  PROVE  Max(T) \in T /\ \A y \in T : y <= Max(T)
<1> DEFINE HasTop(U) == \E m \in U : \A y \in U : y <= m
           S == {n \in Nat : \A U \in SUBSET T : Cardinality(U) = n + 1 => HasTop(U)}
<1>1. 0 \in S
  <2> SUFFICES ASSUME NEW U \in SUBSET T, Cardinality(U) = 1 PROVE HasTop(U)
    OBVIOUS
  <2>1. PICK x : U = {x}
    BY FS_Subset, FS_Singleton
  <2> QED
    BY <2>1
<1>2. ASSUME NEW n \in Nat, n \in S PROVE n + 1 \in S
  <2> SUFFICES ASSUME NEW U \in SUBSET T, Cardinality(U) = n + 2 PROVE HasTop(U)
    OBVIOUS
  <2>1. IsFiniteSet(U)
    BY FS_Subset
  <2>2. PICK x : x \in U
    <3>1. Cardinality(U) # 0
      OBVIOUS
    <3> QED
      BY <3>1, FS_EmptySet
  <2>3. Cardinality(U \ {x}) = n + 1
    <3>1. Cardinality(U \ {x}) = Cardinality(U) - 1
      BY <2>1, <2>2, FS_RemoveElement
    <3> HIDE DEF S, HasTop
    <3> QED
      BY <3>1
  <2>4. PICK m \in U \ {x} : \A y \in U \ {x} : y <= m
    BY <1>2, <2>3
  <2> QED
    BY <2>2, <2>4
<1>3. Nat \subseteq S
  BY <1>1, <1>2, SetInduction
<1>4. Cardinality(T) \in Nat /\ Cardinality(T) # 0
  BY FS_CardinalityType, FS_EmptySet
<1>5. HasTop(T)
  BY <1>3, <1>4
<1> QED
  BY <1>5 DEF Max

LEMMA RowFacts ==
  /\ IsFiniteSet(Rows) /\ Rows \subseteq Nat \ {0}
  /\ \A r \in Rows : Of(r) \in Cascades
  /\ \A c \in Cascades : c \in Rows /\ Of(c) = c /\ c \notin Quizzes
  /\ \A c \in Cascades, r \in Rows : r \in Tree(c) <=> Of(r) = c
  /\ \A c \in Cascades : Tree(c) \subseteq Rows
<1>1. IsFiniteSet(Rows)
  BY PullAssumption, FS_Union DEF Rows
<1> QED
  BY <1>1, PullAssumption DEF Rows, Of, Tree

\* FirstOf takes at most n, and none without those before it.
LEMMA FirstOfFacts ==
  ASSUME NEW S \in SUBSET Rows, NEW n \in Nat
  PROVE  /\ FirstOf(S, n) \subseteq S
         /\ IsFiniteSet(FirstOf(S, n)) /\ Cardinality(FirstOf(S, n)) <= n
         /\ \A r \in FirstOf(S, n), s \in S : s <= r => s \in FirstOf(S, n)
<1> DEFINE before(r) == {s \in S : s < r}
<1>1. IsFiniteSet(S)
  BY RowFacts, FS_Subset
<1>2. \A r \in S : IsFiniteSet(before(r)) /\ Cardinality(before(r)) \in Nat
  BY <1>1, FS_Subset, FS_CardinalityType
<1>3. \A r, s \in S : s < r => before(s) \subseteq before(r) /\ s \in before(r) \ before(s)
  <2> SUFFICES ASSUME NEW r \in S, NEW s \in S, s < r
               PROVE  before(s) \subseteq before(r) /\ s \in before(r) \ before(s)
    OBVIOUS
  <2>1. S \subseteq Nat
    BY RowFacts
  <2>2. \A x \in S : x < s => x < r
    BY <2>1
  <2>3. ~(s < s)
    BY <2>1
  <2> QED
    BY <2>2, <2>3
<1>4. \A r, s \in S : s < r => Cardinality(before(s)) < Cardinality(before(r))
  <2> SUFFICES ASSUME NEW r \in S, NEW s \in S, s < r
               PROVE  Cardinality(before(s)) < Cardinality(before(r))
    OBVIOUS
  <2> HIDE DEF before
  <2>1. before(s) \in SUBSET before(r) /\ before(s) # before(r)
    BY <1>3
  <2> QED
    BY <1>2, <2>1, FS_Subset
<1>5. FirstOf(S, n) \subseteq S /\ IsFiniteSet(FirstOf(S, n))
  BY <1>1, FS_Subset DEF FirstOf
<1>6. \A r \in FirstOf(S, n), s \in S : s <= r => s \in FirstOf(S, n)
  <2> SUFFICES ASSUME NEW r \in FirstOf(S, n), NEW s \in S, s <= r
               PROVE  s \in FirstOf(S, n)
    OBVIOUS
  <2>1. r \in S /\ Cardinality(before(r)) < n
    BY DEF FirstOf
  <2>2. s < r \/ s = r
    BY <2>1, RowFacts
  <2>3. Cardinality(before(s)) < n
    BY <1>2, <1>4, <2>1, <2>2
  <2> QED
    BY <2>3 DEF FirstOf
<1>7. Cardinality(FirstOf(S, n)) <= n
  <2> DEFINE F == FirstOf(S, n)
             f == [r \in F |-> Cardinality(before(r))]
  <2>1. \A r \in F : Cardinality(before(r)) \in 0 .. n - 1
    BY <1>2 DEF FirstOf
  <2>2. \A r, s \in F : r # s => Cardinality(before(r)) # Cardinality(before(s))
    <3> SUFFICES ASSUME NEW r \in F, NEW s \in F, r # s
                 PROVE  Cardinality(before(r)) # Cardinality(before(s))
      OBVIOUS
    <3>1. S \subseteq Nat /\ r \in S /\ s \in S
      BY <1>5, RowFacts
    <3>2. r < s \/ s < r
      BY <3>1
    <3> HIDE DEF before
    <3> QED
      BY <1>2, <1>4, <3>1, <3>2
  <2> HIDE DEF before
  <2>3. f \in Injection(F, 0 .. n - 1)
    BY <2>1, <2>2 DEF Injection, IsInjective
  <2>4. IsFiniteSet(0 .. n - 1) /\ Cardinality(0 .. n - 1) = n
    BY FS_Interval
  <2> HIDE DEF F, f
  <2>5. Cardinality(F) <= n
    BY <2>3, <2>4, FS_Injection
  <2> QED
    BY <2>5 DEF F
<1> QED
  BY <1>5, <1>6, <1>7

\* What a query takes of what it wants.
LEMMA TakenFacts ==
  ASSUME TypeOK
  PROVE  /\ Taken \subseteq Wanted /\ Wanted \subseteq Rows
         /\ Cardinality(Taken) \in 0 .. pull.left
         /\ \A r \in Taken, s \in Wanted : s <= r => s \in Taken
         /\ Taken # {} => Max(Taken) \in Taken /\ \A r \in Taken : r <= Max(Taken)
<1>1. Wanted \subseteq Rows
  BY DEF Wanted, Rows
<1>2. pull.left \in Nat
  BY PullAssumption DEF TypeOK, Pulls
<1>3. /\ Taken \subseteq Wanted /\ IsFiniteSet(Taken) /\ Cardinality(Taken) <= pull.left
      /\ \A r \in Taken, s \in Wanted : s <= r => s \in Taken
  BY <1>1, <1>2, FirstOfFacts DEF Taken
<1>4. Taken \subseteq Nat
  BY <1>1, <1>3, RowFacts
<1> QED
  BY <1>1, <1>2, <1>3, <1>4, MaxOfFinite, FS_CardinalityType

-----------------------------------------------------------------------------
(* The invariant                                                           *)

\* A row that is gone has left a trace past sequence x: its tombstone, or the
\* floor of those that were pruned.
GoneAfter(r, x) == tomb[r] > x \/ floor > x

Pulling == pull.stage \in {"reading", "rebasing"}

\* The tables: only what is gone has a tombstone, and no quiz outlives its
\* cascade or comes before it.
RowsInv ==
  /\ \A r \in Rows : row[r] <= sync_seq /\ tomb[r] <= sync_seq
  /\ \A r \in Rows : tomb[r] # 0 => row[r] = Null
  /\ \A r \in Live : Of(r) \in Live
  /\ \A r \in Rows : row[Of(r)] = 0 => row[r] = 0

\* The request under way.
PullInv ==
  /\ Pulling => /\ pull.cur \in {Null, cursor}
                /\ cursor < pull.ceil
                /\ \A r \in pull.tombs : row[r] = Null
                /\ Full => pull.tombs = {}
  /\ pull.stage \notin {"reading", "resync", "upgrade"} => pull.sent = {}
  /\ pull.ceil <= sync_seq

\* The base: no content newer than the response that wrote it, and no quiz
\* without its cascade where no race excuses it.
BaseInv ==
  /\ \A r \in Rows : base[r].ver <= base[r].seq /\ base[r].seq <= sync_seq
  /\ \A r \in Held : base[r].ver # 0
  /\ \A r \in Held \ excused : Of(r) \in Held
  /\ pending \cup pull.sent \subseteq Held

\* A creation's answer on its way: nothing of its cascade is older than it.
CreationInv ==
  \A c \in Cascades, x \in Rows :
    creation[c][x] # 0 =>
      LET s == creation[c][c] IN
      /\ creation[c][x] = s /\ x \in Tree(c) /\ s <= sync_seq
      /\ row[c] # 0
      /\ staging[c] = 0 \/ staging[c] >= s
      /\ \A r \in Tree(c) : row[r] = 0 \/ row[r] >= s \/ (row[r] = Null /\ GoneAfter(r, s))

\* What is staged is what the server has, or it has changed past the cursor,
\* and past the ceiling of the pull that staged it.
StagingInv ==
  \A r \in Staged :
    /\ staging[r] <= sync_seq /\ row[r] # 0
    /\ row[r] \in {staging[r], Null} \/ row[r] > cursor
    /\ row[r] = Null => GoneAfter(r, cursor)
    /\ pull.stage \notin {"idle", "again"} => staging[r] <= pull.ceil
    /\ Pulling =>
         /\ row[r] \in {staging[r], Null} \/ row[r] > pull.ceil
         /\ \A x \in {r, Of(r)} : row[x] = Null => GoneAfter(x, pull.ceil)

\* What was written into the base past the ceiling is a creation, of a cascade
\* this pull has not read.
LateInv ==
  Pulling =>
    \A r \in Rows :
      /\ \A x \in {r, Of(r)} :
           base[x].seq > pull.ceil /\ row[r] = Null => GoneAfter(r, pull.ceil)
      /\ base[r].ver > pull.ceil =>
           LET c == Of(r) IN
           /\ base[c].seq > pull.ceil /\ staging[c] = 0 /\ creation[c] = NoRows
           /\ row[c] = Null \/ row[c] > pull.ceil

Passed(r)     == LET t == IF r \in Cascades THEN 1 ELSE 2
                 IN  pull.table > t \/ (pull.table = t /\ r <= pull.after)
PassedTomb(r) == pull.table > 3 \/ (pull.table = 3 /\ r <= pull.after)

\* While pages are read, what the scan has passed is staged, and a row held
\* that is gone still has its tombstone ahead of the scan or in the pull.
ReadingInv ==
  pull.stage = "reading" =>
    /\ \A r \in Live :
         Passed(r) /\ pull.cur < row[r] /\ row[r] <= pull.ceil => staging[r] = row[r]
    /\ ~Full => \A r \in Held \ (excused \cup pull.lost) :
         row[r] = Null =>
           \/ floor > pull.ceil
           \/ tomb[r] > pull.cur /\ (PassedTomb(r) => r \in pull.tombs \/ tomb[r] > pull.ceil)

\* While cascades are rebased, those done are as the ceiling has them, and the
\* others have what they lack in staging or among the tombstones.
RebasingInv ==
  pull.stage = "rebasing" =>
    /\ \A r \in Staged : Of(r) \in pull.todo
    /\ \A r \in Live : row[r] <= pull.ceil =>
         /\ Of(r) \in pull.todo /\ pull.cur < row[r] => staging[r] = row[r]
         /\ Of(r) \notin pull.todo /\ r \notin excused \cup pull.lost => base[r].ver = row[r]
    /\ \A r \in Held \ (excused \cup pull.lost) :
         row[r] = Null => \/ GoneAfter(r, pull.ceil)
                          \/ Of(r) \in pull.todo /\ (Full \/ r \in pull.tombs)

SettledInv == NothingMissed /\ \A r \in Held \ excused : row[r] = Null => GoneAfter(r, cursor)

IInv ==
  /\ TypeOK /\ RowsInv /\ PullInv /\ BaseInv /\ CreationInv /\ StagingInv /\ LateInv
  /\ ReadingInv /\ RebasingInv /\ SettledInv

-----------------------------------------------------------------------------
(* Types                                                                   *)

LEMMA ApplyTypes ==
  ASSUME TypeOK, NextSeq, NEW e, Apply(e)
  PROVE  /\ sync_seq' \in Seqs /\ sync_seq' = sync_seq + 1
         /\ row' \in [Rows -> Seqs \cup {Null}] /\ tomb' \in [Rows -> Seqs]
<1>1. sync_seq' \in Seqs /\ sync_seq' = sync_seq + 1
  BY PullAssumption DEF TypeOK, NextSeq, Seqs
<1> QED
  BY <1>1 DEF TypeOK, Apply, Null

LEMMA InitTypes == Init => TypeOK
<1> SUFFICES ASSUME Init PROVE TypeOK
  OBVIOUS
<1>1. 0 \in Seqs
  BY PullAssumption DEF Seqs
<1>2. NoRows \in [Rows -> Seqs]
  BY <1>1 DEF NoRows
<1>3. NoPull \in Pulls
  BY <1>1, PullAssumption DEF NoPull, Pulls, Stages
<1>4. base \in [Rows -> [ver : Seqs, seq : Seqs]]
  BY <1>1 DEF Init, Absent
<1> QED
  BY <1>1, <1>2, <1>3, <1>4 DEF Init, TypeOK, NoRows

LEMMA TypeStep == TypeOK /\ RowsInv /\ PullInv /\ [Next]_vars => TypeOK'
<1> SUFFICES ASSUME TypeOK, RowsInv, PullInv, [Next]_vars PROVE TypeOK'
  OBVIOUS
<1>0. /\ 0 \in Seqs /\ NoRows \in [Rows -> Seqs] /\ NoPull \in Pulls
      /\ pull.ceil \in 0 .. sync_seq /\ Seqs \subseteq Nat
  BY PullAssumption DEF NoRows, NoPull, Pulls, Stages, Seqs, TypeOK, PullInv
<1>1. CASE Write \/ CreateElsewhere
  <2>1. NextSeq /\ (\E e : Apply(e)) /\ UNCHANGED <<floor, client, creation, excused>>
    BY <1>1 DEF Write, CreateElsewhere
  <2>2. /\ sync_seq' \in Seqs /\ sync_seq' = sync_seq + 1
        /\ row' \in [Rows -> Seqs \cup {Null}] /\ tomb' \in [Rows -> Seqs]
    BY <2>1, ApplyTypes
  <2>3. floor \in 0 .. sync_seq' /\ cursor \in {Null} \cup 0 .. sync_seq'
    BY <1>0, <2>2 DEF TypeOK
  <2> QED
    BY <2>1, <2>2, <2>3 DEF TypeOK, client
<1>2. CASE Prune
  <2>1. PICK k \in 1 .. MaxSeq :
          LET old == {r \in Rows : tomb[r] \in 1 .. k} IN
          /\ k \in {tomb[r] : r \in Rows}
          /\ tomb' = [r \in Rows |-> IF r \in old THEN 0 ELSE tomb[r]]
          /\ floor' = IF k > floor THEN k ELSE floor
          /\ pull' = IF pull.stage = "reading" /\ pull.cur # Null
                     THEN [pull EXCEPT !.lost = @ \cup {r \in old : tomb[r] > pull.cur}]
                     ELSE pull
          /\ UNCHANGED <<sync_seq, row, base, cursor, staging, pending, creation, excused>>
    BY <1>2 DEF Prune
  <2>2. k <= sync_seq /\ k \in Nat
    BY <2>1 DEF RowsInv
  <2>3. tomb' \in [Rows -> Seqs] /\ floor' \in 0 .. sync_seq
    BY <1>0, <2>1, <2>2 DEF TypeOK
  <2>4. pull' \in Pulls
    BY <2>1 DEF TypeOK, Pulls
  <2> QED
    BY <2>1, <2>3, <2>4 DEF TypeOK
<1>3. ASSUME NEW c \in Creatable, Create(c) PROVE TypeOK'
  <2>1. PICK B \in NewTree(c) :
          /\ Apply([W |-> B, D |-> {}])
          /\ creation' = [creation EXCEPT
               ![c] = [r \in Rows |-> IF r \in B THEN sync_seq' ELSE 0]]
    BY <1>3 DEF Create
  <2>2. /\ sync_seq' \in Seqs /\ sync_seq' = sync_seq + 1
        /\ row' \in [Rows -> Seqs \cup {Null}] /\ tomb' \in [Rows -> Seqs]
    BY <1>3, <2>1, ApplyTypes DEF Create
  <2>3. creation' \in [Cascades -> [Rows -> Seqs]]
    BY <1>0, <2>1, <2>2 DEF TypeOK
  <2> QED
    BY <1>3, <2>2, <2>3 DEF TypeOK, Create, client
<1>4. ASSUME NEW c \in Creatable, StoreCreated(c) PROVE TypeOK'
  <2>1. c \in Cascades
    BY PullAssumption
  <2>2. base' \in [Rows -> [ver : Seqs, seq : Seqs]]
    BY <1>4, <2>1 DEF TypeOK, StoreCreated
  <2>3. creation' \in [Cascades -> [Rows -> Seqs]]
    BY <1>0, <1>4 DEF TypeOK, StoreCreated
  <2>4. excused' \subseteq Rows
    BY <1>4 DEF TypeOK, StoreCreated
  <2> QED
    BY <1>4, <2>2, <2>3, <2>4 DEF TypeOK, StoreCreated, server
<1>5. ASSUME NEW c \in Creatable, LoseCreated(c) PROVE TypeOK'
  <2>1. creation' \in [Cascades -> [Rows -> Seqs]]
    BY <1>0, <1>5 DEF TypeOK, LoseCreated
  <2> QED
    BY <1>5, <2>1 DEF TypeOK, LoseCreated, server, client
<1>6. ASSUME NEW c \in Studied, Study(c) PROVE TypeOK'
  BY <1>6, PullAssumption DEF TypeOK, Study, server
<1>7. ASSUME NEW cur \in Seqs \cup {Null}, Request(cur) PROVE TypeOK'
  <2>1. /\ sync_seq' \in Seqs /\ sync_seq' = sync_seq + 1
        /\ row' \in [Rows -> Seqs \cup {Null}] /\ tomb' \in [Rows -> Seqs]
    BY <1>7, ApplyTypes DEF Request
  <2>2. pull' \in Pulls
    <3>1. pending \subseteq Cascades
      BY DEF TypeOK
    <3>2. Reading(cur) \in Pulls
      <4>1. PAGE_ROWS \in 0 .. PAGE_ROWS /\ "reading" \in Stages
        BY PullAssumption DEF Stages
      <4> QED
        BY <1>0, <2>1, <3>1, <4>1 DEF Reading, Pulls
    <3>3. Refusal("upgrade") \in Pulls /\ Refusal("resync") \in Pulls
      <4>1. "upgrade" \in Stages /\ "resync" \in Stages
        BY DEF Stages
      <4> QED
        BY <1>0, <2>1, <3>1, <4>1 DEF Refusal, Pulls
    <3> QED
      BY <1>7, <3>2, <3>3 DEF Request
  <2>3. staging' \in [Rows -> Seqs]
    BY <1>0, <1>7 DEF TypeOK, Request, ClearedStaging
  <2>4. floor \in 0 .. sync_seq' /\ cursor \in {Null} \cup 0 .. sync_seq'
    BY <1>0, <2>1 DEF TypeOK
  <2> QED
    BY <1>7, <2>1, <2>2, <2>3, <2>4 DEF TypeOK, Request
<1>8. CASE Sync \/ Resync
  <2>1. cursor \in Seqs \cup {Null} /\ Null \in Seqs \cup {Null}
    BY PullAssumption DEF TypeOK, Seqs
  <2> QED
    BY <1>7, <1>8, <2>1 DEF Sync, Resync
<1>9. CASE TakeRefusal
  <2>1. base' \in [Rows -> [ver : Seqs, seq : Seqs]] /\ staging' \in [Rows -> Seqs]
    BY <1>0, <1>9 DEF TakeRefusal, TypeOK, Pulls
  <2>2. pull' \in Pulls
    BY <1>0, <1>9 DEF TakeRefusal, Pulls, Stages
  <2> QED
    BY <1>9, <2>1, <2>2 DEF TypeOK, TakeRefusal, server
<1>10. CASE ReadTable
  <2>1. /\ pull' = [pull EXCEPT
              !.left  = IF Taken # Wanted THEN PAGE_ROWS ELSE @ - Cardinality(Taken),
              !.table = IF Taken # Wanted THEN @ ELSE @ + 1,
              !.after = IF Taken = Wanted THEN 0 ELSE IF Taken = {} THEN @ ELSE Max(Taken),
              !.tombs = IF pull.table = 3 THEN @ \cup Taken ELSE @]
        /\ pull.table \in 1 .. 3
    BY <1>10 DEF ReadTable, TypeOK, Pulls
  <2>2. pull.left \in 0 .. PAGE_ROWS /\ PAGE_ROWS \in Nat /\ pull \in Pulls
    BY PullAssumption DEF TypeOK, Pulls
  <2>3. /\ Taken \subseteq Rows /\ Cardinality(Taken) \in 0 .. pull.left
        /\ Taken # {} => Max(Taken) \in Rows
    BY TakenFacts
  <2>4. pull' \in Pulls
    <3> DEFINE left == IF Taken # Wanted THEN PAGE_ROWS ELSE pull.left - Cardinality(Taken)
               table == IF Taken # Wanted THEN pull.table ELSE pull.table + 1
               after == IF Taken = Wanted THEN 0
                        ELSE IF Taken = {} THEN pull.after ELSE Max(Taken)
               tombs == IF pull.table = 3 THEN pull.tombs \cup Taken ELSE pull.tombs
    <3>1. left \in 0 .. PAGE_ROWS
      <4> HIDE DEF left
      <4>1. CASE Taken # Wanted
        BY <2>2, <4>1 DEF left
      <4>2. CASE Taken = Wanted
        BY <2>2, <2>3, <4>2 DEF left
      <4> QED
        BY <4>1, <4>2
    <3>2. table \in 1 .. 4
      BY <2>1
    <3>3. after \in Rows \cup {0}
      BY <2>2, <2>3 DEF Pulls
    <3>4. tombs \in SUBSET Rows
      BY <2>2, <2>3 DEF Pulls
    <3>5. pull' = [pull EXCEPT !.left = left, !.table = table, !.after = after,
                               !.tombs = tombs]
      BY <2>1
    <3> HIDE DEF left, table, after, tombs
    <3> QED
      BY <2>2, <3>1, <3>2, <3>3, <3>4, <3>5 DEF Pulls
  <2>5. staging' \in [Rows -> Seqs]
    <3> SUFFICES ASSUME pull.table # 3 PROVE staging' \in [Rows -> Seqs]
      BY <1>10 DEF ReadTable, TypeOK
    <3>1. \A r \in Taken : row[r] \in Seqs
      <4>1. \A r \in Taken : row[r] > 0
        BY <1>0, TakenFacts DEF Wanted, TypeOK, Pulls, Null
      <4> QED
        BY <2>3, <4>1 DEF TypeOK, Null
    <3> QED
      BY <1>10, <3>1 DEF ReadTable, TypeOK
  <2> QED
    BY <1>10, <2>4, <2>5 DEF TypeOK, ReadTable, server
<1>11. CASE BeginRebase
  <2>1. Touched \cup pull.sent \cup (IF Full THEN Held \cap Cascades ELSE {})
          \in SUBSET Cascades
    BY RowFacts DEF TypeOK, Pulls, Touched, Staged
  <2>2. pull' \in Pulls
    BY <1>11, <2>1 DEF BeginRebase, TypeOK, Pulls, Stages
  <2> QED
    BY <1>11, <2>2 DEF BeginRebase, TypeOK, server
<1>12. CASE EndRebase
  <2>1. excused' \subseteq Rows
    BY <1>12 DEF EndRebase, TypeOK, Pulls
  <2> QED
    BY <1>0, <1>12, <2>1 DEF EndRebase, TypeOK, server, PulledSeq
<1>13. CASE Interrupt
  <2>1. pending' \subseteq Cascades
    BY <1>13 DEF Interrupt, TypeOK, Pulls
  <2> QED
    BY <1>0, <1>13, <2>1 DEF Interrupt, TypeOK, server
<1>14. ASSUME NEW c \in Cascades, RebaseCascade(c) PROVE TypeOK'
  <2>1. base' \in [Rows -> [ver : Seqs, seq : Seqs]]
    <3>1. \E G : base' = [r \in Rows |->
            IF r \in G THEN Absent
            ELSE IF r \in Tree(c) \cap Staged THEN [ver |-> staging[r], seq |-> pull.ceil]
            ELSE base[r]]
      BY <1>14 DEF RebaseCascade
    <3> QED
      BY <1>0, <3>1 DEF TypeOK, Pulls, Absent
  <2>2. staging' \in [Rows -> Seqs]
    BY <1>0, <1>14 DEF TypeOK, RebaseCascade
  <2>3. pull' \in Pulls
    BY <1>14, RowFacts DEF TypeOK, Pulls, RebaseCascade
  <2>4. excused' \subseteq Rows /\ pending' \subseteq Cascades
    BY <1>14, RowFacts DEF TypeOK, RebaseCascade
  <2> QED
    BY <1>14, <2>1, <2>2, <2>3, <2>4 DEF TypeOK, RebaseCascade, server
<1>15. CASE UNCHANGED vars
  BY <1>15 DEF vars, server, client, TypeOK
<1> QED
  BY <1>1, <1>2, <1>3, <1>4, <1>5, <1>6, <1>8, <1>9, <1>10, <1>11, <1>12, <1>13, <1>14, <1>15
     DEF Next

-----------------------------------------------------------------------------
(* The server moves on                                                     *)

\* What any step does to the tables: a row changes past every sequence handed
\* out so far, what is gone stays gone, and its trace is never lost.
Moves ==
  /\ sync_seq' >= sync_seq
  /\ \A r \in Rows :
       /\ \/ row'[r] = row[r]
          \/ row[r] # Null /\ row'[r] > sync_seq
          \/ row[r] > 0 /\ row'[r] = Null /\ tomb'[r] > sync_seq
       /\ \A x \in Int : GoneAfter(r, x) => tomb'[r] > x \/ floor' > x

\* Of the tombstones a delta pull still has to read, none goes unseen.
TombsWatched ==
  pull.stage = "reading" /\ ~Full =>
    \A r \in Rows : tomb[r] > pull.cur => tomb'[r] > pull.cur \/ r \in pull'.lost

LEMMA ServerFacts ==
  ASSUME TypeOK
  PROVE  /\ sync_seq \in Nat /\ floor \in Nat /\ cursor \in Int /\ Null \in Int /\ Null = -1
         /\ floor <= sync_seq /\ cursor <= sync_seq
         /\ \A r \in Rows : row[r] \in Int /\ tomb[r] \in Nat /\ row[r] >= Null
         /\ pull.ceil \in Nat /\ pull.cur \in Int
BY DEF TypeOK, Pulls, Seqs, Null

LEMMA AppliedMoves ==
  ASSUME TypeOK, RowsInv, NextSeq, UNCHANGED floor, NEW e, Apply(e), e.D \subseteq Live,
         \A r \in e.W : row[r] # Null
  PROVE  Moves /\ TombsWatched
<1>0. /\ sync_seq' = sync_seq + 1 /\ sync_seq \in Nat /\ floor \in Nat /\ floor' = floor
      /\ \A r \in Rows : row[r] \in Int /\ tomb[r] \in Nat /\ tomb[r] <= sync_seq
      /\ pull.cur \in Int
  BY ServerFacts DEF NextSeq, RowsInv
<1>1. \A r \in Rows : /\ row'[r] = IF r \in e.D THEN Null
                                   ELSE IF r \in e.W THEN sync_seq' ELSE row[r]
                      /\ tomb'[r] = IF r \in e.D THEN sync_seq' ELSE tomb[r]
  BY DEF Apply
<1>2. \A r \in e.D : row[r] > 0
  BY DEF Live
<1>3. Moves
  <2>1. ASSUME NEW r \in Rows
        PROVE  \/ row'[r] = row[r]
               \/ row[r] # Null /\ row'[r] > sync_seq
               \/ row[r] > 0 /\ row'[r] = Null /\ tomb'[r] > sync_seq
    BY <1>0, <1>1, <1>2
  <2>2. ASSUME NEW r \in Rows, NEW x \in Int, GoneAfter(r, x)
        PROVE  tomb'[r] > x \/ floor' > x
    BY <1>0, <1>1, <2>2 DEF GoneAfter
  <2> QED
    BY <1>0, <2>1, <2>2 DEF Moves
<1>4. TombsWatched
  <2>1. \A r \in Rows : tomb'[r] >= tomb[r]
    BY <1>0, <1>1
  <2>2. \A r \in Rows : tomb'[r] \in Int
    BY <1>0, <1>1
  <2> QED
    BY <1>0, <2>1, <2>2 DEF TombsWatched
<1> QED
  BY <1>3, <1>4

\* Operations keep the tables in order: with a cascade goes all it has.
LEMMA EffectsRows ==
  ASSUME TypeOK, RowsInv, NextSeq, UNCHANGED floor, NEW C \in SUBSET Cascades,
         NEW e \in Effects(C), Apply(e)
  PROVE  RowsInv' /\ Moves /\ TombsWatched
<1>0. /\ sync_seq' = sync_seq + 1 /\ sync_seq \in Nat /\ sync_seq' \in Int
      /\ \A r \in Rows : /\ row[r] \in Int /\ tomb[r] \in Nat
                         /\ tomb[r] <= sync_seq /\ row[r] <= sync_seq
      /\ Null = -1
  BY ServerFacts DEF NextSeq, RowsInv
<1>1. \A r \in Rows : /\ row'[r] = IF r \in e.D THEN Null
                                   ELSE IF r \in e.W THEN sync_seq' ELSE row[r]
                      /\ tomb'[r] = IF r \in e.D THEN sync_seq' ELSE tomb[r]
  BY DEF Apply
<1>2. /\ e.D \subseteq Live /\ e.W \subseteq Rows /\ e.W \cap e.D = {}
      /\ \A r \in e.W \cup e.D : row[Of(r)] > 0
      /\ \A r \in e.W : row[r] # Null
      /\ \A c \in e.D \cap Cascades : Tree(c) \cap Live \subseteq e.D /\ Tree(c) \cap e.W = {}
  BY DEF Effects
<1>3. Live \subseteq Rows
  BY DEF Live
<1>4. Moves /\ TombsWatched
  BY <1>2, AppliedMoves
<1>5. ASSUME NEW r \in Rows
      PROVE  /\ row'[r] <= sync_seq' /\ tomb'[r] <= sync_seq'
             /\ tomb'[r] # 0 => row'[r] = Null
  <2>1. row'[r] <= sync_seq' /\ tomb'[r] <= sync_seq'
    BY <1>0, <1>1
  <2>2. tomb[r] # 0 => row[r] = Null
    BY DEF RowsInv
  <2> QED
    BY <1>1, <1>2, <2>1, <2>2
<1>6. ASSUME NEW r \in Rows, row'[r] > 0 PROVE row'[Of(r)] > 0
  <2>1. Of(r) \in Cascades /\ Of(r) \in Rows /\ r \in Tree(Of(r))
    BY RowFacts
  <2>2. r \notin e.D
    BY <1>0, <1>1, <1>6
  <2>3. row[Of(r)] > 0
    <3>1. CASE r \in e.W
      BY <1>2, <3>1
    <3>2. CASE r \notin e.W
      BY <1>1, <1>6, <2>2, <3>2 DEF RowsInv, Live
    <3> QED
      BY <3>1, <3>2
  <2>4. Of(r) \notin e.D
    <3> SUFFICES ASSUME Of(r) \in e.D PROVE FALSE
      OBVIOUS
    <3>1. r \notin e.W /\ r \notin Live
      BY <1>2, <2>1, <2>2
    <3> QED
      BY <1>1, <1>6, <2>2, <3>1 DEF Live
  <2> QED
    BY <1>0, <1>1, <2>1, <2>3, <2>4
<1>7. ASSUME NEW r \in Rows, row'[Of(r)] = 0 PROVE row'[r] = 0
  <2>1. Of(r) \in Rows
    BY RowFacts
  <2>2. row[Of(r)] = 0
    BY <1>0, <1>1, <1>7, <2>1
  <2>3. r \notin e.W \cup e.D
    BY <1>0, <1>2, <2>2
  <2> QED
    BY <1>1, <2>2, <2>3 DEF RowsInv
<1> QED
  BY <1>4, <1>5, <1>6, <1>7, RowFacts DEF RowsInv, Live

LEMMA BirthRows ==
  ASSUME TypeOK, RowsInv, NextSeq, UNCHANGED floor, NEW c \in Cascades,
         NEW B \in NewTree(c), Apply([W |-> B, D |-> {}])
  PROVE  /\ RowsInv' /\ Moves /\ TombsWatched
         /\ c \in B /\ B \subseteq Tree(c)
         /\ \A r \in Tree(c) : row[r] = 0
         /\ \A r \in Rows : row'[r] = IF r \in B THEN sync_seq' ELSE row[r]
<1>0. /\ sync_seq' = sync_seq + 1 /\ sync_seq \in Nat /\ sync_seq' \in Int
      /\ \A r \in Rows : /\ row[r] \in Int /\ tomb[r] \in Nat
                         /\ tomb[r] <= sync_seq /\ row[r] <= sync_seq
      /\ Null = -1
  BY ServerFacts DEF NextSeq, RowsInv
<1>1. \A r \in Rows : /\ row'[r] = IF r \in B THEN sync_seq' ELSE row[r]
                      /\ tomb'[r] = tomb[r]
  BY DEF Apply
<1>2. c \in B /\ B \subseteq Tree(c) /\ row[c] = 0 /\ \A r \in B : row[r] = 0 /\ r \in Rows
  <2>1. PICK x \in Cascades, q \in Quizzes : B = {x, q} /\ row[x] = 0 /\ row[q] = 0
    BY DEF NewTree, Births
  <2>2. c \in B /\ \A r \in B \ {c} : Home[r] = c
    BY DEF NewTree
  <2>3. x = c /\ Home[q] = c
    BY <2>1, <2>2, RowFacts
  <2> QED
    BY <2>1, <2>3 DEF Tree, Rows
<1>3. \A r \in Tree(c) : row[r] = 0
  BY <1>2, RowFacts DEF RowsInv
<1>4. Moves /\ TombsWatched
  <2>1. \A r \in B : row[r] # Null
    BY <1>0, <1>2
  <2> QED
    BY <2>1, AppliedMoves
<1>5. ASSUME NEW r \in Rows
      PROVE  /\ row'[r] <= sync_seq' /\ tomb'[r] <= sync_seq'
             /\ tomb'[r] # 0 => row'[r] = Null
  <2>1. row'[r] <= sync_seq' /\ tomb'[r] <= sync_seq'
    BY <1>0, <1>1
  <2>2. tomb[r] # 0 => row[r] = Null
    BY DEF RowsInv
  <2> QED
    BY <1>0, <1>1, <1>2, <2>1, <2>2
<1>6. ASSUME NEW r \in Rows, row'[r] > 0 PROVE row'[Of(r)] > 0
  <2>1. Of(r) \in Rows /\ (r \in B => Of(r) = c)
    BY <1>2, RowFacts
  <2>2. CASE r \in B
    BY <1>0, <1>1, <1>2, <2>1, <2>2
  <2>3. CASE r \notin B
    <3>1. row[Of(r)] > 0
      BY <1>1, <1>6, <2>3 DEF RowsInv, Live
    <3> QED
      BY <1>0, <1>1, <2>1, <3>1
  <2> QED
    BY <2>2, <2>3
<1>7. ASSUME NEW r \in Rows, row'[Of(r)] = 0 PROVE row'[r] = 0
  <2>1. Of(r) \in Rows /\ (r \in B => Of(r) = c)
    BY <1>2, RowFacts
  <2>2. row[Of(r)] = 0 /\ Of(r) \notin B
    BY <1>0, <1>1, <1>7, <2>1
  <2>3. r \notin B
    BY <1>2, <2>1, <2>2
  <2> QED
    BY <1>1, <2>2, <2>3 DEF RowsInv
<1> QED
  BY <1>1, <1>2, <1>3, <1>4, <1>5, <1>6, <1>7, RowFacts DEF RowsInv, Live

\* Pruning takes tombstones at or below the new floor.
LEMMA PruneRows ==
  ASSUME TypeOK, RowsInv, Prune
  PROVE  /\ RowsInv' /\ Moves /\ TombsWatched
         /\ \E L \in SUBSET Rows : pull.lost \subseteq L /\ pull' = [pull EXCEPT !.lost = L]
<1>1. PICK k \in 1 .. MaxSeq :
        LET old == {r \in Rows : tomb[r] \in 1 .. k} IN
        /\ tomb' = [r \in Rows |-> IF r \in old THEN 0 ELSE tomb[r]]
        /\ floor' = IF k > floor THEN k ELSE floor
        /\ pull' = IF pull.stage = "reading" /\ pull.cur # Null
                   THEN [pull EXCEPT !.lost = @ \cup {r \in old : tomb[r] > pull.cur}]
                   ELSE pull
  BY DEF Prune
<1>2. UNCHANGED <<sync_seq, row>>
  BY DEF Prune
<1>0. /\ sync_seq \in Nat /\ floor \in Nat /\ Null = -1
      /\ \A r \in Rows : row[r] \in Int /\ tomb[r] \in Nat
      /\ pull.cur \in Int
  BY ServerFacts
<1>3. ASSUME NEW r \in Rows
      PROVE  \/ tomb'[r] = tomb[r]
             \/ tomb'[r] = 0 /\ tomb[r] <= floor' /\ 0 < tomb[r]
  BY <1>0, <1>1
<1>4. floor' >= floor
  BY <1>0, <1>1
<1>5. RowsInv'
  BY <1>0, <1>2, <1>3 DEF RowsInv, Live
<1>6. Moves
  <2>1. ASSUME NEW r \in Rows, NEW x \in Int, GoneAfter(r, x)
        PROVE  tomb'[r] > x \/ floor' > x
    <3>1. floor' \in Int
      BY <1>0, <1>1
    <3> QED
      BY <1>0, <1>3, <1>4, <2>1, <3>1 DEF GoneAfter
  <2> QED
    BY <1>0, <1>2, <2>1 DEF Moves
<1>7. TombsWatched
  BY <1>0, <1>1 DEF TombsWatched, Full
<1>8. \E L \in SUBSET Rows : pull.lost \subseteq L /\ pull' = [pull EXCEPT !.lost = L]
  <2>1. pull.lost \in SUBSET Rows /\ pull \in Pulls
    BY DEF TypeOK, Pulls
  <2>2. CASE pull.stage = "reading" /\ pull.cur # Null
    BY <1>1, <2>1, <2>2
  <2>3. CASE ~(pull.stage = "reading" /\ pull.cur # Null)
    <3>1. pull' = [pull EXCEPT !.lost = pull.lost]
      BY <1>1, <2>1, <2>3 DEF Pulls
    <3> QED
      BY <2>1, <3>1
  <2> QED
    BY <2>2, <2>3
<1> QED
  BY <1>5, <1>6, <1>7, <1>8

LEMMA StillMoves ==
  ASSUME TypeOK, UNCHANGED server
  PROVE  Moves
BY ServerFacts DEF server, Moves, GoneAfter

-----------------------------------------------------------------------------
(* Steps of the server alone                                               *)

\* The client, creations and history stay; of the request only the history of
\* what a race touched may grow.
OnlyServer ==
  /\ UNCHANGED <<base, cursor, staging, pending, excused>>
  /\ \E L \in SUBSET Rows : pull.lost \subseteq L /\ pull' = [pull EXCEPT !.lost = L]
  /\ \A c \in Cascades : creation'[c] = creation[c] \/ row[c] = 0

LEMMA PullKept ==
  ASSUME TypeOK, OnlyServer
  PROVE  /\ pull'.stage = pull.stage /\ pull'.cur = pull.cur /\ pull'.ceil = pull.ceil
         /\ pull'.table = pull.table /\ pull'.after = pull.after /\ pull'.tombs = pull.tombs
         /\ pull'.sent = pull.sent /\ pull'.todo = pull.todo /\ pull.lost \subseteq pull'.lost
         /\ pull'.lost \subseteq Rows
BY DEF TypeOK, Pulls, OnlyServer

LEMMA ServerStep ==
  ASSUME IInv, TypeOK', RowsInv', CreationInv', Moves, TombsWatched, OnlyServer
  PROVE  IInv'
<1>0. /\ TypeOK /\ RowsInv
      /\ pull'.stage = pull.stage /\ pull'.cur = pull.cur /\ pull'.ceil = pull.ceil
      /\ pull'.table = pull.table /\ pull'.after = pull.after /\ pull'.tombs = pull.tombs
      /\ pull'.sent = pull.sent /\ pull'.todo = pull.todo /\ pull.lost \subseteq pull'.lost
      /\ base' = base /\ cursor' = cursor /\ staging' = staging /\ pending' = pending
      /\ excused' = excused
      /\ \A c \in Cascades : creation'[c] = creation[c] \/ row[c] = 0
      /\ \A r \in Rows : Of(r) \in Rows /\ Of(r) \in Cascades
  BY RowFacts, PullKept DEF IInv, OnlyServer
<1>1. /\ sync_seq \in Nat /\ sync_seq' \in Int /\ sync_seq' >= sync_seq
      /\ cursor \in Int /\ cursor <= sync_seq /\ pull.ceil \in Nat /\ pull.cur \in Int
      /\ pull.ceil <= sync_seq /\ Null = -1
      /\ \A r \in Rows : /\ row[r] \in Int /\ tomb[r] \in Int
                         /\ row'[r] \in Int /\ tomb'[r] \in Int
      /\ \A r \in Rows : base[r].ver \in Int /\ base[r].seq \in Int /\ staging[r] \in Nat
      /\ floor \in Int /\ floor' \in Int
  <2>1. \A r \in Rows : base[r].ver \in Int /\ base[r].seq \in Int /\ staging[r] \in Nat
    BY <1>0 DEF TypeOK, Seqs
  <2>2. \A r \in Rows : row'[r] \in Int /\ tomb'[r] \in Int
    BY DEF TypeOK, Seqs, Null
  <2>3. sync_seq' \in Int /\ floor' \in Int
    BY DEF TypeOK, Seqs
  <2> QED
    BY <1>0, <2>1, <2>2, <2>3, ServerFacts DEF IInv, PullInv, Moves
<1>2. \A r \in Rows :
        /\ \/ row'[r] = row[r]
           \/ row[r] # Null /\ row'[r] > sync_seq
           \/ row[r] > 0 /\ row'[r] = Null /\ tomb'[r] > sync_seq
        /\ \A x \in Int : GoneAfter(r, x) => tomb'[r] > x \/ floor' > x
  BY DEF Moves
<1>3. PullInv'
  <2>1. ASSUME Pulling' PROVE /\ pull'.cur \in {Null, cursor'} /\ cursor' < pull'.ceil
                              /\ \A r \in pull'.tombs : row'[r] = Null
                              /\ Full' => pull'.tombs = {}
    <3>1. pull.tombs \subseteq Rows
      BY <1>0 DEF TypeOK, Pulls
    <3> QED
      BY <1>0, <1>1, <1>2, <2>1, <3>1 DEF IInv, PullInv, Pulling, Full
  <2>2. /\ pull'.stage \notin {"reading", "resync", "upgrade"} => pull'.sent = {}
        /\ pull'.ceil <= sync_seq'
    BY <1>0, <1>1 DEF IInv, PullInv
  <2> QED
    BY <2>1, <2>2 DEF PullInv
<1>4. BaseInv'
  <2>1. \A r \in Rows : base'[r].ver <= base'[r].seq /\ base'[r].seq <= sync_seq'
    BY <1>0, <1>1 DEF IInv, BaseInv
  <2> QED
    BY <1>0, <2>1 DEF IInv, BaseInv, Held
<1>5. StagingInv'
  <2> SUFFICES ASSUME NEW r \in Rows, staging[r] # 0
               PROVE  /\ staging[r] <= sync_seq' /\ row'[r] # 0
                      /\ row'[r] \in {staging[r], Null} \/ row'[r] > cursor
                      /\ row'[r] = Null => tomb'[r] > cursor \/ floor' > cursor
                      /\ pull.stage \notin {"idle", "again"} => staging[r] <= pull.ceil
                      /\ Pulling =>
                           /\ row'[r] \in {staging[r], Null} \/ row'[r] > pull.ceil
                           /\ \A x \in {r, Of(r)} : row'[x] = Null =>
                                tomb'[x] > pull.ceil \/ floor' > pull.ceil
    BY <1>0 DEF StagingInv, Staged, GoneAfter, Pulling
  <2>1. /\ staging[r] <= sync_seq /\ row[r] # 0
        /\ row[r] \in {staging[r], Null} \/ row[r] > cursor
        /\ row[r] = Null => GoneAfter(r, cursor)
        /\ pull.stage \notin {"idle", "again"} => staging[r] <= pull.ceil
        /\ Pulling =>
             /\ row[r] \in {staging[r], Null} \/ row[r] > pull.ceil
             /\ \A x \in {r, Of(r)} : row[x] = Null => GoneAfter(x, pull.ceil)
    BY DEF IInv, StagingInv, Staged
  <2>2. row'[r] # 0
    BY <1>1, <1>2, <2>1
  <2>3. row'[r] \in {staging[r], Null} \/ row'[r] > cursor
    BY <1>1, <1>2, <2>1
  <2>4. row'[r] = Null => tomb'[r] > cursor \/ floor' > cursor
    BY <1>1, <1>2, <2>1
  <2>5. Pulling => row'[r] \in {staging[r], Null} \/ row'[r] > pull.ceil
    BY <1>1, <1>2, <2>1
  <2>6. Pulling => \A x \in {r, Of(r)} : row'[x] = Null =>
                      tomb'[x] > pull.ceil \/ floor' > pull.ceil
    <3> SUFFICES ASSUME Pulling, NEW x \in {r, Of(r)}, row'[x] = Null
                 PROVE  tomb'[x] > pull.ceil \/ floor' > pull.ceil
      OBVIOUS
    <3>1. x \in Rows /\ (row[x] = Null => GoneAfter(x, pull.ceil))
      BY <1>0, <2>1
    <3> QED
      BY <1>1, <1>2, <3>1
  <2>7. staging[r] <= sync_seq'
    BY <1>1, <2>1
  <2> QED
    BY <2>1, <2>2, <2>3, <2>4, <2>5, <2>6, <2>7
<1>6. LateInv'
  <2> SUFFICES ASSUME Pulling, NEW r \in Rows
               PROVE  /\ \A x \in {r, Of(r)} : base[x].seq > pull.ceil /\ row'[r] = Null =>
                            tomb'[r] > pull.ceil \/ floor' > pull.ceil
                      /\ base[r].ver > pull.ceil =>
                           LET c == Of(r) IN
                           /\ base[c].seq > pull.ceil /\ staging[c] = 0
                           /\ creation'[c] = NoRows
                           /\ row'[c] = Null \/ row'[c] > pull.ceil
    BY <1>0 DEF LateInv, Pulling, GoneAfter
  <2>1. /\ \A x \in {r, Of(r)} :
             base[x].seq > pull.ceil /\ row[r] = Null => GoneAfter(r, pull.ceil)
        /\ base[r].ver > pull.ceil =>
             LET c == Of(r) IN
             /\ base[c].seq > pull.ceil /\ staging[c] = 0 /\ creation[c] = NoRows
             /\ row[c] = Null \/ row[c] > pull.ceil
    BY DEF IInv, LateInv
  <2>2. \A x \in {r, Of(r)} : base[x].seq > pull.ceil /\ row'[r] = Null =>
          tomb'[r] > pull.ceil \/ floor' > pull.ceil
    BY <1>1, <1>2, <2>1
  <2>3. ASSUME base[r].ver > pull.ceil
        PROVE  row'[Of(r)] = Null \/ row'[Of(r)] > pull.ceil
    BY <1>0, <1>1, <1>2, <2>1, <2>3
  <2>4. ASSUME base[r].ver > pull.ceil
        PROVE  creation'[Of(r)] = NoRows
    <3>1. pull.ceil >= 0
      BY <1>0, ServerFacts
    <3> QED
      BY <1>0, <1>1, <2>1, <2>4, <3>1
  <2> QED
    BY <2>1, <2>2, <2>3, <2>4
<1>7. ReadingInv'
  <2> SUFFICES ASSUME pull.stage = "reading"
               PROVE  /\ \A r \in Rows : row'[r] > 0 =>
                           (Passed(r) /\ pull.cur < row'[r] /\ row'[r] <= pull.ceil
                              => staging[r] = row'[r])
                      /\ ~Full => \A r \in Held \ (excused \cup pull'.lost) :
                           row'[r] = Null =>
                             \/ floor' > pull.ceil
                             \/ tomb'[r] > pull.cur /\
                                  (PassedTomb(r) => r \in pull.tombs \/ tomb'[r] > pull.ceil)
    BY <1>0 DEF ReadingInv, Live, Held, Full, Passed, PassedTomb
  <2>1. \A r \in Rows : row'[r] > 0 =>
          (Passed(r) /\ pull.cur < row'[r] /\ row'[r] <= pull.ceil => staging[r] = row'[r])
    BY <1>1, <1>2 DEF IInv, ReadingInv, Live
  <2>2. ASSUME ~Full, NEW r \in Held \ (excused \cup pull'.lost), row'[r] = Null
        PROVE  \/ floor' > pull.ceil
               \/ tomb'[r] > pull.cur /\
                    (PassedTomb(r) => r \in pull.tombs \/ tomb'[r] > pull.ceil)
    <3>1. r \in Rows /\ r \notin pull.lost
      BY <1>0, <2>2 DEF Held
    <3>2. CASE row[r] # Null
      <4>1. tomb'[r] > sync_seq
        BY <1>1, <1>2, <2>2, <3>1, <3>2
      <4>2. cursor < pull.ceil /\ pull.cur \in {Null, cursor}
        BY DEF IInv, PullInv, Pulling
      <4> QED
        BY <1>1, <3>1, <4>1, <4>2
    <3>3. CASE row[r] = Null
      <4>1. \/ floor > pull.ceil
            \/ tomb[r] > pull.cur /\ (PassedTomb(r) => r \in pull.tombs \/ tomb[r] > pull.ceil)
        BY <2>2, <3>1, <3>3 DEF IInv, ReadingInv
      <4>2. CASE floor > pull.ceil
        <5>1. GoneAfter(r, pull.ceil)
          BY <4>2 DEF GoneAfter
        <5>2. pull.cur < pull.ceil
          BY <1>0, <1>1 DEF IInv, PullInv, Pulling
        <5> QED
          BY <1>1, <1>2, <3>1, <5>1, <5>2
      <4>3. CASE /\ tomb[r] > pull.cur
                 /\ PassedTomb(r) => r \in pull.tombs \/ tomb[r] > pull.ceil
        <5>1. tomb'[r] > pull.cur
          BY <2>2, <3>1, <4>3 DEF TombsWatched
        <5>2. tomb[r] > pull.ceil => tomb'[r] > pull.ceil \/ floor' > pull.ceil
          BY <1>1, <1>2, <3>1 DEF GoneAfter
        <5> QED
          BY <4>3, <5>1, <5>2
      <4> QED
        BY <4>1, <4>2, <4>3
    <3> QED
      BY <3>2, <3>3
  <2> QED
    BY <2>1, <2>2
<1>8. RebasingInv'
  <2> SUFFICES ASSUME pull.stage = "rebasing"
               PROVE  /\ \A r \in Rows : staging[r] # 0 => Of(r) \in pull.todo
                      /\ \A r \in Rows : row'[r] > 0 /\ row'[r] <= pull.ceil =>
                           /\ Of(r) \in pull.todo /\ pull.cur < row'[r] => staging[r] = row'[r]
                           /\ Of(r) \notin pull.todo /\ r \notin excused \cup pull'.lost =>
                                base[r].ver = row'[r]
                      /\ \A r \in Held \ (excused \cup pull'.lost) :
                           row'[r] = Null =>
                             \/ tomb'[r] > pull.ceil \/ floor' > pull.ceil
                             \/ Of(r) \in pull.todo /\ (Full \/ r \in pull.tombs)
    BY <1>0 DEF RebasingInv, Live, Staged, Held, Full, GoneAfter
  <2>1. \A r \in Rows : staging[r] # 0 => Of(r) \in pull.todo
    BY DEF IInv, RebasingInv, Staged
  <2>2. ASSUME NEW r \in Rows, row'[r] > 0, row'[r] <= pull.ceil
        PROVE  /\ Of(r) \in pull.todo /\ pull.cur < row'[r] => staging[r] = row'[r]
               /\ Of(r) \notin pull.todo /\ r \notin excused \cup pull'.lost =>
                    base[r].ver = row'[r]
    <3>1. row'[r] = row[r]
      BY <1>1, <1>2, <2>2
    <3>2. pull.lost \subseteq pull'.lost
      BY <1>0
    <3> QED
      BY <2>2, <3>1, <3>2 DEF IInv, RebasingInv, Live
  <2>3. ASSUME NEW r \in Held \ (excused \cup pull'.lost), row'[r] = Null
        PROVE  \/ tomb'[r] > pull.ceil \/ floor' > pull.ceil
               \/ Of(r) \in pull.todo /\ (Full \/ r \in pull.tombs)
    <3>1. r \in Rows /\ r \notin pull.lost
      BY <1>0, <2>3 DEF Held
    <3>2. CASE row[r] = Null
      <4>1. GoneAfter(r, pull.ceil) \/ (Of(r) \in pull.todo /\ (Full \/ r \in pull.tombs))
        BY <2>3, <3>1, <3>2 DEF IInv, RebasingInv
      <4> QED
        BY <1>1, <1>2, <3>1, <4>1
    <3>3. CASE row[r] # Null
      BY <1>1, <1>2, <2>3, <3>1, <3>3
    <3> QED
      BY <3>2, <3>3
  <2> QED
    BY <2>1, <2>2, <2>3
<1>9. SettledInv'
  <2>1. ASSUME NEW r \in Rows, row'[r] > 0, r \notin excused, row'[r] <= cursor
        PROVE  base[r].ver = row'[r]
    <3>1. row'[r] = row[r]
      BY <1>1, <1>2, <2>1
    <3> QED
      BY <2>1, <3>1 DEF IInv, SettledInv, NothingMissed, Live
  <2>2. ASSUME NEW r \in Held \ excused, row'[r] = Null
        PROVE  tomb'[r] > cursor \/ floor' > cursor
    <3>1. r \in Rows
      BY DEF Held
    <3>2. CASE row[r] = Null
      BY <1>1, <1>2, <2>2, <3>1, <3>2 DEF IInv, SettledInv
    <3>3. CASE row[r] # Null
      BY <1>1, <1>2, <2>2, <3>1, <3>3
    <3> QED
      BY <3>2, <3>3
  <2> QED
    BY <1>0, <2>1, <2>2 DEF SettledInv, NothingMissed, Live, Held, GoneAfter
<1> QED
  BY <1>3, <1>4, <1>5, <1>6, <1>7, <1>8, <1>9 DEF IInv

LEMMA TypesOf ==
  ASSUME TypeOK
  PROVE  /\ \A r \in Rows : row[r] \in Int /\ staging[r] \in Nat
         /\ \A c \in Cascades : row[c] \in Int /\ staging[c] \in Nat
<1>1. \A r \in Rows : row[r] \in Int /\ staging[r] \in Nat
  BY ServerFacts DEF TypeOK, Seqs
<1> QED
  BY <1>1, RowFacts

\* CreationInv after a step.
Newest(c, x) ==
  LET s == creation'[c][c] IN
  /\ creation'[c][x] = s /\ x \in Tree(c) /\ s <= sync_seq'
  /\ row'[c] # 0
  /\ staging'[c] = 0 \/ staging'[c] >= s
  /\ \A r \in Tree(c) : \/ row'[r] = 0 \/ row'[r] >= s
                        \/ row'[r] = Null /\ (tomb'[r] > s \/ floor' > s)

LEMMA CreationsAre ==
  ASSUME \A c \in Cascades, x \in Rows : creation'[c][x] # 0 => Newest(c, x)
  PROVE  CreationInv'
BY DEF CreationInv, Newest, GoneAfter

\* An answer stays the newest of its cascade whatever the server does, as long
\* as nothing older is staged.
LEMMA CreationKept ==
  ASSUME TypeOK, TypeOK', CreationInv, Moves,
         NEW c \in Cascades, NEW x \in Rows, creation[c][x] # 0,
         creation'[c] = creation[c], staging'[c] \in {staging[c], 0, row[c]},
         staging'[c] = row[c] => row[c] >= 0
  PROVE  Newest(c, x)
<1> DEFINE s == creation[c][c]
<1>1. /\ creation[c][x] = s /\ x \in Tree(c) /\ s <= sync_seq
      /\ row[c] # 0
      /\ staging[c] = 0 \/ staging[c] >= s
      /\ \A r \in Tree(c) : row[r] = 0 \/ row[r] >= s \/ (row[r] = Null /\ GoneAfter(r, s))
  BY DEF CreationInv
<1>2. /\ c \in Rows /\ c \in Tree(c) /\ s \in Nat /\ sync_seq \in Nat /\ row[c] \in Int
      /\ sync_seq' >= sync_seq /\ sync_seq' \in Int /\ Null = -1
  <2>1. c \in Rows /\ c \in Tree(c)
    BY RowFacts
  <2>2. s \in Nat /\ sync_seq \in Nat /\ sync_seq' \in Int
    BY <2>1, PullAssumption DEF TypeOK, Seqs
  <2> QED
    BY <2>1, <2>2, ServerFacts DEF Moves
<1>3. \A r \in Rows :
        /\ \/ row'[r] = row[r]
           \/ row[r] # Null /\ row'[r] > sync_seq
           \/ row[r] > 0 /\ row'[r] = Null /\ tomb'[r] > sync_seq
        /\ \A y \in Int : GoneAfter(r, y) => tomb'[r] > y \/ floor' > y
  BY DEF Moves
<1>4. creation'[c][c] = s /\ creation'[c][x] = s
  BY <1>1
<1> HIDE DEF s
<1>5. s <= sync_seq' /\ row'[c] # 0
  BY <1>1, <1>2, <1>3
<1>6. ASSUME NEW r \in Tree(c)
      PROVE  \/ row'[r] = 0 \/ row'[r] >= s
             \/ row'[r] = Null /\ (tomb'[r] > s \/ floor' > s)
  <2>1. r \in Rows
    BY RowFacts
  <2>2. row[r] \in Int /\ tomb[r] \in Int /\ row'[r] \in Int /\ tomb'[r] \in Int
    BY <2>1, ServerFacts DEF TypeOK, Seqs, Null
  <2>3. row[r] = Null /\ GoneAfter(r, s) => row'[r] = Null /\ (tomb'[r] > s \/ floor' > s)
    BY <1>2, <1>3, <2>1, <2>2
  <2>4. row[r] = 0 => row'[r] = 0 \/ row'[r] >= s
    BY <1>1, <1>2, <1>3, <2>1, <2>2
  <2>5. ASSUME row[r] >= s
        PROVE  row'[r] >= s \/ (row'[r] = Null /\ (tomb'[r] > s \/ floor' > s))
    <3>1. CASE row'[r] = row[r]
      BY <2>5, <3>1
    <3>2. CASE row'[r] > sync_seq
      BY <1>1, <1>2, <2>2, <3>2
    <3>3. CASE row'[r] = Null /\ tomb'[r] > sync_seq
      BY <1>1, <1>2, <2>2, <3>3
    <3> QED
      BY <1>3, <2>1, <3>1, <3>2, <3>3
  <2> QED
    BY <1>1, <2>3, <2>4, <2>5
<1>7. staging'[c] = 0 \/ staging'[c] >= s
  BY <1>1, <1>2
<1> QED
  BY <1>1, <1>4, <1>5, <1>6, <1>7 DEF Newest

LEMMA CreationsKept ==
  ASSUME TypeOK, TypeOK', CreationInv, Moves, UNCHANGED <<staging, creation>>
  PROVE  CreationInv'
<1>1. ASSUME NEW c \in Cascades, NEW x \in Rows, creation'[c][x] # 0
      PROVE  Newest(c, x)
  <2>1. row[c] \in Int /\ staging[c] \in Nat
    BY TypesOf
  <2> QED
    BY <1>1, <2>1, CreationKept
<1> QED
  BY <1>1, CreationsAre

LEMMA WriteStep == IInv /\ (Write \/ CreateElsewhere) /\ TypeOK' => IInv'
<1> SUFFICES ASSUME IInv, Write \/ CreateElsewhere, TypeOK' PROVE IInv'
  OBVIOUS
<1>1. /\ NextSeq /\ UNCHANGED <<floor, client, creation, excused>>
  BY DEF Write, CreateElsewhere
<1>2. RowsInv' /\ Moves /\ TombsWatched
  <2>1. CASE Write
    BY <1>1, <2>1, EffectsRows DEF Write, IInv
  <2>2. CASE CreateElsewhere
    BY <1>1, <2>2, BirthRows DEF CreateElsewhere, IInv
  <2> QED
    BY <2>1, <2>2
<1>3. OnlyServer
  <2>1. pull \in Pulls /\ pull.lost \in SUBSET Rows
    BY DEF IInv, TypeOK, Pulls
  <2>2. pull' = [pull EXCEPT !.lost = pull.lost]
    BY <1>1, <2>1 DEF client, Pulls
  <2> QED
    BY <1>1, <2>1, <2>2 DEF OnlyServer, client
<1>4. CreationInv'
  BY <1>1, <1>2, CreationsKept DEF IInv, client
<1> QED
  BY <1>2, <1>3, <1>4, ServerStep

LEMMA PruneStep == IInv /\ Prune /\ TypeOK' => IInv'
<1> SUFFICES ASSUME IInv, Prune, TypeOK' PROVE IInv'
  OBVIOUS
<1>1. UNCHANGED <<base, cursor, staging, pending, creation, excused>>
  BY DEF Prune
<1>2. /\ RowsInv' /\ Moves /\ TombsWatched
      /\ \E L \in SUBSET Rows : pull.lost \subseteq L /\ pull' = [pull EXCEPT !.lost = L]
  BY PruneRows DEF IInv
<1>3. OnlyServer
  BY <1>1, <1>2 DEF OnlyServer
<1>4. CreationInv'
  BY <1>1, <1>2, CreationsKept DEF IInv
<1> QED
  BY <1>2, <1>3, <1>4, ServerStep

LEMMA CreateStep ==
  ASSUME IInv, NEW c \in Creatable, Create(c), TypeOK'
  PROVE  IInv'
<1>0. c \in Cascades
  BY PullAssumption
<1>1. PICK B \in NewTree(c) :
        /\ Apply([W |-> B, D |-> {}])
        /\ creation' = [creation EXCEPT
             ![c] = [r \in Rows |-> IF r \in B THEN sync_seq' ELSE 0]]
  BY DEF Create
<1>2. NextSeq /\ UNCHANGED <<floor, client, excused>>
  BY DEF Create
<1>3. /\ RowsInv' /\ Moves /\ TombsWatched
      /\ c \in B /\ B \subseteq Tree(c)
      /\ \A r \in Tree(c) : row[r] = 0
      /\ \A r \in Rows : row'[r] = IF r \in B THEN sync_seq' ELSE row[r]
  BY <1>0, <1>1, <1>2, BirthRows DEF IInv
<1>4. c \in Tree(c)
  BY <1>0, RowFacts
<1>5. OnlyServer
  <2>1. pull \in Pulls /\ pull.lost \in SUBSET Rows
    BY DEF IInv, TypeOK, Pulls
  <2>2. pull' = [pull EXCEPT !.lost = pull.lost]
    BY <1>2, <2>1 DEF client, Pulls
  <2>3. \A d \in Cascades : creation'[d] = creation[d] \/ row[d] = 0
    BY <1>1, <1>3, <1>4 DEF IInv, TypeOK
  <2> QED
    BY <1>2, <2>1, <2>2, <2>3 DEF OnlyServer, client
<1>6. ASSUME NEW d \in Cascades, NEW x \in Rows, creation'[d][x] # 0
      PROVE  Newest(d, x)
  <2>1. CASE d = c
    <3>1. creation'[c] = [r \in Rows |-> IF r \in B THEN sync_seq' ELSE 0]
      BY <1>0, <1>1 DEF IInv, TypeOK
    <3>2. sync_seq' \in Nat \ {0}
      BY <1>2, ServerFacts DEF NextSeq, IInv
    <3>3. c \in Rows /\ x \in B /\ creation'[c][c] = sync_seq' /\ creation'[c][x] = sync_seq'
      BY <1>0, <1>3, <2>1, <1>6, <3>1, <3>2, RowFacts
    <3>4. staging'[c] = 0
      <4>1. staging[c] = 0
        BY <1>3, <1>4, <3>3 DEF IInv, StagingInv, Staged
      <4> QED
        BY <1>2, <4>1 DEF client
    <3>5. \A r \in Tree(c) : row'[r] = 0 \/ row'[r] >= sync_seq'
      <4>1. Tree(c) \subseteq Rows
        BY <1>0, RowFacts
      <4>2. sync_seq' >= sync_seq'
        BY <3>2
      <4> QED
        BY <1>3, <4>1, <4>2
    <3> QED
      BY <1>0, <1>3, <2>1, <3>2, <3>3, <3>4, <3>5 DEF Newest
  <2>2. CASE d # c
    <3>1. creation'[d] = creation[d] /\ staging' = staging
      BY <1>1, <1>2, <2>2 DEF IInv, TypeOK, client
    <3>2. row[d] \in Int /\ staging[d] \in Nat
      BY TypesOf DEF IInv
    <3> QED
      BY <1>3, <1>6, <3>1, <3>2, CreationKept DEF IInv
  <2> QED
    BY <2>1, <2>2
<1>7. CreationInv'
  BY <1>6, CreationsAre
<1> QED
  BY <1>3, <1>5, <1>7, ServerStep

-----------------------------------------------------------------------------
(* Steps of the device                                                     *)

LEMMA IFacts ==
  ASSUME IInv
  PROVE  /\ TypeOK /\ Null = -1
         /\ sync_seq \in Nat /\ floor \in Nat /\ cursor \in Int /\ cursor <= sync_seq
         /\ pull.ceil \in Nat /\ pull.ceil <= sync_seq /\ pull.cur \in Int
         /\ \A r \in Rows : /\ row[r] \in Int /\ row[r] >= Null
                            /\ tomb[r] \in Nat /\ staging[r] \in Nat
                            /\ base[r].ver \in Nat /\ base[r].seq \in Nat
         /\ \A r \in Rows : Of(r) \in Rows /\ Of(r) \in Cascades
<1>1. \A r \in Rows : base[r].ver \in Nat /\ base[r].seq \in Nat
  BY DEF IInv, TypeOK, Seqs
<1> QED
  BY <1>1, RowFacts, ServerFacts, TypesOf DEF IInv, PullInv

\* A device step that leaves the tables alone leaves RowsInv, and Moves.
LEMMA ServerStays ==
  ASSUME IInv, UNCHANGED server
  PROVE  /\ RowsInv' /\ Moves
         /\ sync_seq' = sync_seq /\ floor' = floor /\ row' = row /\ tomb' = tomb
<1>1. sync_seq' = sync_seq /\ floor' = floor /\ row' = row /\ tomb' = tomb
  BY DEF server
<1>2. RowsInv'
  BY <1>1 DEF IInv, RowsInv, Live
<1> QED
  BY <1>1, <1>2, IFacts, StillMoves

\* The pull ends or has not begun: nothing is said of it.
LEMMA NotPulling ==
  ASSUME IInv, UNCHANGED <<server, base, cursor, creation, excused>>,
         ~Pulling', pull'.ceil = 0, pull'.sent = {}, pull'.stage \in {"idle", "again"},
         TypeOK', pending' \subseteq Held, UNCHANGED staging
  PROVE  IInv'
<1>1. /\ RowsInv' /\ Moves /\ UNCHANGED <<base, cursor, staging, creation, excused>>
      /\ sync_seq' = sync_seq /\ floor' = floor /\ row' = row /\ tomb' = tomb
  BY ServerStays
<1>2. PullInv'
  BY <1>1, IFacts DEF PullInv, Pulling
<1>3. BaseInv'
  BY <1>1 DEF IInv, BaseInv, Held
<1>4. CreationInv'
  BY <1>1, CreationsKept DEF IInv
<1>5. StagingInv'
  BY <1>1 DEF IInv, StagingInv, Staged, GoneAfter
<1>6. LateInv' /\ ReadingInv' /\ RebasingInv'
  BY DEF LateInv, ReadingInv, RebasingInv, Pulling
<1>7. SettledInv'
  BY <1>1 DEF IInv, SettledInv, NothingMissed, Held, Live, GoneAfter
<1> QED
  BY <1>1, <1>2, <1>3, <1>4, <1>5, <1>6, <1>7 DEF IInv

LEMMA InterruptStep == IInv /\ Interrupt /\ TypeOK' => IInv'
<1> SUFFICES ASSUME IInv, Interrupt, TypeOK' PROVE IInv'
  OBVIOUS
<1>1. pull' = NoPull
  BY DEF Interrupt
<1>2. pull'.stage = "idle" /\ pull'.ceil = 0 /\ pull'.sent = {} /\ ~Pulling'
  BY <1>1 DEF NoPull, Pulling
<1>3. pending' \subseteq Held
  BY DEF IInv, BaseInv, Interrupt
<1> QED
  BY <1>2, <1>3, NotPulling DEF Interrupt

LEMMA StudyStep ==
  ASSUME IInv, NEW c \in Studied, Study(c), TypeOK'
  PROVE  IInv'
<1>1. UNCHANGED <<server, base, cursor, staging, pull, creation, excused>>
  BY DEF Study
<1>2. /\ RowsInv' /\ Moves
      /\ sync_seq' = sync_seq /\ floor' = floor /\ row' = row /\ tomb' = tomb
  BY <1>1, ServerStays
<1>3. BaseInv'
  BY <1>1, <1>2 DEF IInv, BaseInv, Held, Study
<1>4. PullInv' /\ CreationInv' /\ StagingInv' /\ LateInv'
  BY <1>1, <1>2
     DEF IInv, PullInv, CreationInv, StagingInv, LateInv, Pulling, Full, Staged, GoneAfter
<1>5. ReadingInv' /\ RebasingInv' /\ SettledInv'
  BY <1>1, <1>2
     DEF IInv, ReadingInv, RebasingInv, SettledInv, NothingMissed, Passed, PassedTomb,
         Full, Live, Held, Staged, GoneAfter
<1> QED
  BY <1>2, <1>3, <1>4, <1>5 DEF IInv

\* An answer that is not the one stored or lost stays as it was.
LEMMA CreationsBut ==
  ASSUME IInv, NEW c \in Cascades, creation' = [creation EXCEPT ![c] = NoRows], Moves,
         UNCHANGED staging, TypeOK'
  PROVE  CreationInv'
<1>1. ASSUME NEW d \in Cascades, NEW x \in Rows, creation'[d][x] # 0
      PROVE  Newest(d, x)
  <2>1. d # c
    BY <1>1 DEF IInv, TypeOK, NoRows
  <2>2. creation'[d] = creation[d]
    BY <2>1 DEF IInv, TypeOK
  <2>3. row[d] \in Int /\ staging[d] \in Nat
    BY TypesOf DEF IInv
  <2> QED
    BY <1>1, <2>2, <2>3, CreationKept DEF IInv
<1> QED
  BY <1>1, CreationsAre

LEMMA LoseCreatedStep ==
  ASSUME IInv, NEW c \in Creatable, LoseCreated(c), TypeOK'
  PROVE  IInv'
<1>0. c \in Cascades
  BY PullAssumption
<1>1. UNCHANGED <<server, base, cursor, staging, pull, pending, excused>>
  BY DEF LoseCreated, client
<1>2. /\ RowsInv' /\ Moves
      /\ sync_seq' = sync_seq /\ floor' = floor /\ row' = row /\ tomb' = tomb
  BY <1>1, ServerStays
<1>3. CreationInv'
  BY <1>0, <1>1, <1>2, CreationsBut DEF LoseCreated
<1>4. LateInv'
  <2>1. \A d \in Cascades : creation[d] = NoRows => creation'[d] = NoRows
    BY <1>0 DEF IInv, TypeOK, LoseCreated
  <2> QED
    BY <1>1, <1>2, <2>1, IFacts DEF IInv, LateInv, Pulling, GoneAfter
<1>5. PullInv' /\ BaseInv' /\ StagingInv'
  BY <1>1, <1>2 DEF IInv, PullInv, BaseInv, StagingInv, Pulling, Full, Staged, Held, GoneAfter
<1>6. ReadingInv' /\ RebasingInv' /\ SettledInv'
  BY <1>1, <1>2
     DEF IInv, ReadingInv, RebasingInv, SettledInv, NothingMissed, Passed, PassedTomb,
         Full, Live, Held, Staged, GoneAfter
<1> QED
  BY <1>2, <1>3, <1>4, <1>5, <1>6 DEF IInv

\* An operation dropped by a refusal: what was staged of its cascade goes in.
LEMMA TakeRefusalStep == IInv /\ TakeRefusal /\ TypeOK' => IInv'
<1> SUFFICES ASSUME IInv, TakeRefusal, TypeOK' PROVE IInv'
  OBVIOUS
<1> DEFINE left == {r \in Rows : staging[r] # 0 /\ Of(r) \in pull.sent}
<1>1. /\ pull.stage \in {"resync", "upgrade"}
      /\ \A r \in Rows : base'[r] = IF r \in left THEN [ver |-> staging[r], seq |-> pull.ceil]
                                    ELSE base[r]
      /\ \A r \in Rows : staging'[r] = IF r \in left THEN 0 ELSE staging[r]
      /\ UNCHANGED <<server, cursor, pending, creation, excused>>
  BY DEF TakeRefusal
<1>0. /\ \A r \in left : base'[r].ver = staging[r] /\ base'[r].seq = pull.ceil /\ r \in Rows
      /\ \A r \in Rows : r \notin left => base'[r] = base[r]
  <2>1. \A r \in left : base'[r] = [ver |-> staging[r], seq |-> pull.ceil] /\ r \in Rows
    BY <1>1
  <2> HIDE DEF left
  <2>2. ASSUME NEW r \in left
        PROVE  base'[r].ver = staging[r] /\ base'[r].seq = pull.ceil /\ r \in Rows
    <3>1. base'[r] = [ver |-> staging[r], seq |-> pull.ceil] /\ r \in Rows
      BY <2>1
    <3> QED
      BY <3>1
  <2> QED
    BY <1>1, <2>2
<1>2. /\ RowsInv' /\ Moves
      /\ sync_seq' = sync_seq /\ floor' = floor /\ row' = row /\ tomb' = tomb
  BY <1>1, ServerStays
<1>3. /\ pull'.stage \in {"idle", "again"} /\ pull'.ceil = 0 /\ pull'.sent = {} /\ ~Pulling'
      /\ pull'.stage = "again" \/ pull'.stage = "idle"
  BY DEF TakeRefusal, NoPull, Pulling
<1>4. \A r \in left : /\ staging[r] \in Nat \ {0} /\ staging[r] <= pull.ceil
                      /\ row[r] \in {staging[r], Null} \/ row[r] > cursor
                      /\ row[r] = Null => GoneAfter(r, cursor)
                      /\ Of(r) \in Held
  BY <1>1, IFacts DEF IInv, StagingInv, Staged, BaseInv
<1>5. \A r \in Rows : r \in Held' <=> r \in left \/ r \in Held
  <2>1. \A r \in left : [ver |-> staging[r], seq |-> pull.ceil] # Absent
    BY <1>4 DEF Absent
  <2> QED
    BY <1>1, <2>1 DEF Held
<1>6. PullInv'
  BY <1>2, <1>3, IFacts DEF PullInv, Pulling
<1>7. BaseInv'
  <2>1. \A r \in Rows : base'[r].ver <= base'[r].seq /\ base'[r].seq <= sync_seq'
    <3> HIDE DEF left
    <3>1. \A r \in left : base'[r].ver <= base'[r].seq /\ base'[r].seq <= sync_seq'
      BY <1>0, <1>2, <1>4, IFacts
    <3>2. \A r \in Rows : base[r].ver <= base[r].seq /\ base[r].seq <= sync_seq
      BY DEF IInv, BaseInv
    <3> QED
      BY <1>0, <1>2, <3>1, <3>2
  <2>2. \A r \in Held' : base'[r].ver # 0
    <3>1. Held' \subseteq Rows
      BY DEF Held
    <3>2. \A r \in Held : base[r].ver # 0
      BY DEF IInv, BaseInv
    <3> QED
      <4> HIDE DEF left
      <4> QED
        BY <1>0, <1>4, <1>5, <3>1, <3>2
  <2>3. \A r \in Held' \ excused' : Of(r) \in Held'
    <3>1. Held' \subseteq Rows
      BY DEF Held
    <3>2. \A r \in Held \ excused : Of(r) \in Held
      BY DEF IInv, BaseInv
    <3> QED
      BY <1>1, <1>4, <1>5, <3>1, <3>2, IFacts
  <2>4. pending' \cup pull'.sent \subseteq Held'
    <3>1. pending \subseteq Held /\ Held \subseteq Rows
      BY DEF IInv, BaseInv, Held
    <3> QED
      BY <1>1, <1>3, <1>5, <3>1
  <2> QED
    BY <2>1, <2>2, <2>3, <2>4 DEF BaseInv
<1>8. CreationInv'
  <2>1. ASSUME NEW c \in Cascades, NEW x \in Rows, creation'[c][x] # 0
        PROVE  Newest(c, x)
    <3>1. c \in Rows /\ row[c] \in Int
      BY RowFacts, TypesOf DEF IInv
    <3>2. staging'[c] \in {staging[c], 0}
      BY <1>1, <3>1
    <3>3. CASE staging'[c] = row[c]
      <4>1. row[c] >= 0
        BY <3>1, <3>2, <3>3, IFacts
      <4> QED
        BY <1>1, <1>2, <2>1, <3>2, <4>1, CreationKept DEF IInv
    <3>4. CASE staging'[c] # row[c]
      BY <1>1, <1>2, <2>1, <3>2, <3>4, CreationKept DEF IInv
    <3> QED
      BY <3>3, <3>4
  <2> QED
    BY <2>1, CreationsAre
<1>9. StagingInv'
  BY <1>1, <1>2, <1>3 DEF IInv, StagingInv, Staged, GoneAfter, Pulling
<1>10. LateInv' /\ ReadingInv' /\ RebasingInv'
  BY <1>3 DEF LateInv, ReadingInv, RebasingInv, Pulling
<1>11. SettledInv'
  <2>1. ASSUME NEW r \in Rows, row[r] > 0, r \notin excused, row[r] <= cursor
        PROVE  base'[r].ver = row[r]
    <3>1. CASE r \in left
      <4>1. base'[r].ver = staging[r] /\ row[r] = staging[r]
        BY <1>0, <1>4, <2>1, <3>1, IFacts
      <4> QED
        BY <4>1
    <3>2. CASE r \notin left
      BY <1>1, <2>1, <3>2 DEF IInv, SettledInv, NothingMissed, Live
    <3> QED
      BY <3>1, <3>2
  <2>2. ASSUME NEW r \in Rows, r \in Held', r \notin excused, row[r] = Null
        PROVE  GoneAfter(r, cursor)
    BY <1>4, <1>5, <2>2 DEF IInv, SettledInv
  <2>3. Held' \subseteq Rows
    BY DEF Held
  <2> QED
    BY <1>1, <1>2, <2>1, <2>2, <2>3 DEF SettledInv, NothingMissed, Live, GoneAfter
<1> QED
  BY <1>2, <1>6, <1>7, <1>8, <1>9, <1>10, <1>11 DEF IInv

\* Nothing of the base is touched: what the cursor has passed stays settled.
LEMMA SettledKept ==
  ASSUME IInv, TypeOK', Moves, UNCHANGED <<base, cursor, excused>>
  PROVE  SettledInv'
<1>1. \A r \in Rows :
        /\ \/ row'[r] = row[r]
           \/ row[r] # Null /\ row'[r] > sync_seq
           \/ row[r] > 0 /\ row'[r] = Null /\ tomb'[r] > sync_seq
        /\ \A x \in Int : GoneAfter(r, x) => tomb'[r] > x \/ floor' > x
  BY DEF Moves
<1>2. \A r \in Rows : row'[r] \in Int /\ tomb'[r] \in Int
  BY DEF TypeOK, Seqs, Null
<1>3. ASSUME NEW r \in Rows, row'[r] > 0, r \notin excused, row'[r] <= cursor
      PROVE  base[r].ver = row'[r]
  <2>1. row'[r] = row[r]
    BY <1>1, <1>2, <1>3, IFacts
  <2> QED
    BY <1>3, <2>1 DEF IInv, SettledInv, NothingMissed, Live
<1>4. ASSUME NEW r \in Held \ excused, row'[r] = Null
      PROVE  tomb'[r] > cursor \/ floor' > cursor
  <2>1. r \in Rows
    BY DEF Held
  <2>2. CASE row[r] = Null
    BY <1>1, <1>4, <2>1, <2>2, IFacts DEF IInv, SettledInv
  <2>3. CASE row[r] # Null
    BY <1>1, <1>2, <1>4, <2>1, <2>3, IFacts
  <2> QED
    BY <2>2, <2>3
<1> QED
  BY <1>3, <1>4 DEF SettledInv, NothingMissed, Live, Held, GoneAfter

LEMMA RequestStep ==
  ASSUME IInv, NEW cur \in {Null, cursor}, Request(cur), TypeOK',
         pull.stage \in {"idle", "again"}
  PROVE  IInv'
<1>1. /\ NextSeq /\ UNCHANGED <<floor, base, cursor, creation, excused>>
      /\ pending' = {}
      /\ pull' \in {Refusal("upgrade"),
                    IF Behind(cur) THEN Refusal("resync") ELSE Reading(cur)}
      /\ staging' = IF pull'.stage = "reading" THEN NoRows ELSE staging
  BY DEF Request, ClearedStaging
<1>2. RowsInv' /\ Moves
  <2>1. PICK e \in Effects(pending) : Apply(e)
    BY DEF Request
  <2>2. pending \in SUBSET Cascades
    BY DEF IInv, TypeOK
  <2> QED
    BY <1>1, <2>1, <2>2, EffectsRows DEF IInv
<1>3. sync_seq' = sync_seq + 1 /\ sync_seq' \in Nat
  BY <1>1, IFacts DEF NextSeq
<1>4. SettledInv'
  BY <1>1, <1>2, SettledKept
<1>5. pull'.ceil = sync_seq' /\ pull'.sent = pending /\ pull'.tombs = {}
  BY <1>1 DEF Refusal, Reading, NoPull
<1>6. BaseInv'
  <2>1. \A r \in Rows : base'[r].ver <= base'[r].seq /\ base'[r].seq <= sync_seq'
    BY <1>1, <1>3, IFacts DEF IInv, BaseInv
  <2> QED
    BY <1>1, <1>5, <2>1 DEF IInv, BaseInv, Held
<1>7. CreationInv'
  <2>1. ASSUME NEW c \in Cascades, NEW x \in Rows, creation'[c][x] # 0
        PROVE  Newest(c, x)
    <3>1. c \in Rows /\ row[c] \in Int /\ staging[c] \in Nat
      BY RowFacts, TypesOf DEF IInv
    <3>2. staging'[c] \in {staging[c], 0}
      BY <1>1, <3>1 DEF NoRows
    <3>3. staging'[c] = row[c] => row[c] >= 0
      BY <3>1, <3>2
    <3> QED
      BY <1>1, <1>2, <2>1, <3>2, <3>3, CreationKept DEF IInv
  <2> QED
    BY <2>1, CreationsAre
<1>8. CASE pull' = Reading(cur) /\ ~Behind(cur)
  <2>1. /\ pull'.stage = "reading" /\ pull'.cur = cur /\ pull'.table = 1 /\ pull'.after = 0
        /\ staging' = NoRows /\ Pulling'
    BY <1>1, <1>8 DEF Reading, NoPull, Pulling
  <2>2. PullInv'
    BY <1>1, <1>3, <1>5, <2>1, IFacts DEF PullInv, Pulling
  <2>3. StagingInv'
    BY <2>1 DEF StagingInv, Staged, NoRows
  <2>4. LateInv'
    <3>1. \A r \in Rows : ~(base'[r].ver > pull'.ceil) /\ ~(base'[r].seq > pull'.ceil)
      BY <1>1, <1>3, <1>5, IFacts DEF IInv, BaseInv
    <3> QED
      BY <3>1, IFacts DEF LateInv
  <2>5. ReadingInv'
    <3>1. \A r \in Rows : ~Passed(r)' /\ ~PassedTomb(r)'
      BY <2>1, RowFacts DEF Passed, PassedTomb
    <3>2. ASSUME ~Full', NEW r \in Rows, r \in Held' \ excused', row'[r] = Null
          PROVE  tomb'[r] > pull'.cur
      <4>1. cur = cursor /\ cur # Null
        BY <2>1, <3>2 DEF Full
      <4>2. tomb'[r] > cursor' \/ floor' > cursor'
        BY <1>4, <3>2 DEF SettledInv, GoneAfter
      <4>3. ~(floor > cursor)
        BY <1>8, <4>1, IFacts DEF Behind
      <4> QED
        BY <1>1, <2>1, <4>1, <4>2, <4>3
    <3>3. Live' \subseteq Rows /\ Held' \subseteq Rows
      BY DEF Live, Held
    <3> QED
      BY <3>1, <3>2, <3>3 DEF ReadingInv
  <2>6. RebasingInv'
    BY <2>1 DEF RebasingInv
  <2> QED
    BY <1>2, <1>4, <1>6, <1>7, <2>2, <2>3, <2>4, <2>5, <2>6 DEF IInv
<1>9. CASE pull' \in {Refusal("upgrade"), Refusal("resync")}
  <2>1. pull'.stage \in {"upgrade", "resync"} /\ ~Pulling' /\ staging' = staging
    BY <1>1, <1>9 DEF Refusal, NoPull, Pulling
  <2>2. PullInv'
    BY <1>3, <1>5, <2>1 DEF PullInv
  <2>3. StagingInv'
    <3> SUFFICES ASSUME NEW r \in Rows, staging[r] # 0
                 PROVE  /\ staging[r] <= sync_seq' /\ row'[r] # 0
                        /\ row'[r] \in {staging[r], Null} \/ row'[r] > cursor
                        /\ row'[r] = Null => tomb'[r] > cursor \/ floor' > cursor
      BY <1>1, <1>5, <2>1 DEF StagingInv, Staged, GoneAfter
    <3>1. /\ staging[r] <= sync_seq /\ row[r] # 0
          /\ row[r] \in {staging[r], Null} \/ row[r] > cursor
          /\ row[r] = Null => GoneAfter(r, cursor)
      BY DEF IInv, StagingInv, Staged
    <3>2. /\ \/ row'[r] = row[r]
             \/ row[r] # Null /\ row'[r] > sync_seq
             \/ row[r] > 0 /\ row'[r] = Null /\ tomb'[r] > sync_seq
          /\ \A x \in Int : GoneAfter(r, x) => tomb'[r] > x \/ floor' > x
      BY <1>2 DEF Moves
    <3>3. row'[r] \in Int /\ tomb'[r] \in Int
      BY DEF TypeOK, Seqs, Null
    <3>4. staging[r] <= sync_seq'
      BY <1>3, <3>1, IFacts
    <3>5. row'[r] # 0 /\ (row'[r] \in {staging[r], Null} \/ row'[r] > cursor)
      BY <3>1, <3>2, <3>3, IFacts
    <3>6. row'[r] = Null => tomb'[r] > cursor \/ floor' > cursor
      BY <3>1, <3>2, <3>3, IFacts
    <3> QED
      BY <3>4, <3>5, <3>6
  <2>4. LateInv' /\ ReadingInv' /\ RebasingInv'
    BY <2>1 DEF LateInv, ReadingInv, RebasingInv, Pulling
  <2> QED
    BY <1>2, <1>4, <1>6, <1>7, <2>2, <2>3, <2>4 DEF IInv
<1> QED
  BY <1>1, <1>8, <1>9

LEMMA ReadTableStep == IInv /\ ReadTable /\ TypeOK' => IInv'
<1> SUFFICES ASSUME IInv, ReadTable, TypeOK' PROVE IInv'
  OBVIOUS
<1>1. /\ pull.stage = "reading" /\ pull.table <= (IF pull.cur = Null THEN 2 ELSE 3)
      /\ pull' = [pull EXCEPT
           !.left  = IF Taken # Wanted THEN PAGE_ROWS ELSE @ - Cardinality(Taken),
           !.table = IF Taken # Wanted THEN @ ELSE @ + 1,
           !.after = IF Taken = Wanted THEN 0 ELSE IF Taken = {} THEN @ ELSE Max(Taken),
           !.tombs = IF pull.table = 3 THEN @ \cup Taken ELSE @]
      /\ staging' = IF pull.table = 3 THEN staging
                    ELSE [r \in Rows |-> IF r \in Taken THEN row[r] ELSE staging[r]]
      /\ UNCHANGED <<server, base, cursor, pending, creation, excused>>
  BY DEF ReadTable
<1>2. /\ RowsInv' /\ Moves
      /\ sync_seq' = sync_seq /\ floor' = floor /\ row' = row /\ tomb' = tomb
  BY <1>1, ServerStays
<1>3. /\ pull'.stage = "reading" /\ pull'.cur = pull.cur /\ pull'.ceil = pull.ceil
      /\ pull'.sent = pull.sent /\ pull'.lost = pull.lost /\ pull.lost \subseteq Rows
      /\ pull'.tombs = IF pull.table = 3 THEN pull.tombs \cup Taken ELSE pull.tombs
      /\ pull'.table = IF Taken # Wanted THEN pull.table ELSE pull.table + 1
      /\ pull'.after = IF Taken = Wanted THEN 0
                       ELSE IF Taken = {} THEN pull.after ELSE Max(Taken)
      /\ pull.table \in 1 .. 3 /\ pull.after \in Nat /\ pull.tombs \subseteq Rows
      /\ cursor < pull.ceil /\ pull.cur \in {Null, cursor}
  <2>1. pull.after \in Nat /\ pull.table \in 1 .. 3
    <3>1. pull.table \in 1 .. 4 /\ pull.after \in Rows \cup {0}
      BY DEF IInv, TypeOK, Pulls
    <3>2. pull.table <= 3
      BY <1>1, <3>1
    <3>3. pull.after \in Nat
      <4>1. Rows \subseteq Nat
        BY RowFacts
      <4>2. CASE pull.after \in Rows
        BY <4>1, <4>2
      <4>3. CASE pull.after = 0
        BY <4>3
      <4> QED
        BY <3>1, <4>2, <4>3
    <3> QED
      BY <3>1, <3>2, <3>3
  <2>2. cursor < pull.ceil /\ pull.cur \in {Null, cursor}
    BY <1>1 DEF IInv, PullInv, Pulling
  <2> QED
    BY <1>1, <2>1, <2>2 DEF IInv, TypeOK, Pulls
<1>4. /\ Taken \subseteq Wanted /\ Wanted \subseteq Rows
      /\ \A r \in Taken, s \in Wanted : s <= r => s \in Taken
      /\ Taken # {} => Max(Taken) \in Taken
  BY TakenFacts, IFacts
<1>5. ASSUME pull.table # 3, NEW r \in Rows
      PROVE  r \in Wanted <=> /\ r \in Cascades <=> pull.table = 1
                              /\ r > pull.after /\ row[r] > 0
                              /\ row[r] > pull.cur /\ row[r] <= pull.ceil
  <2>1. pull.cur = Null \/ pull.cur >= 0
    <3>1. pull.cur \in Seqs \cup {Null}
      BY DEF IInv, TypeOK, Pulls
    <3> QED
      BY <3>1 DEF Seqs
  <2>2. row[r] > (IF pull.cur = Null THEN 0 ELSE pull.cur) <=> row[r] > 0 /\ row[r] > pull.cur
    BY <2>1, IFacts
  <2>3. CASE pull.table = 1
    BY <1>5, <2>2, <2>3 DEF Wanted, PastKey
  <2>4. CASE pull.table = 2
    <3>1. r \in Quizzes <=> r \notin Cascades
      BY PullAssumption DEF Rows
    <3> QED
      BY <1>5, <2>2, <2>4, <3>1 DEF Wanted, PastKey
  <2> QED
    BY <1>3, <1>5, <2>3, <2>4
<1>6. ASSUME pull.table = 3, NEW r \in Rows
      PROVE  r \in Wanted <=> r > pull.after /\ tomb[r] > pull.cur /\ tomb[r] <= pull.ceil
  BY <1>1, <1>3, <1>6, IFacts DEF Wanted, PastKey
<1>7. ASSUME pull.table # 3, NEW r \in Rows
      PROVE  \/ r \in Taken /\ staging'[r] = row[r] /\ row[r] > 0 /\ row[r] <= pull.ceil
             \/ r \notin Taken /\ staging'[r] = staging[r]
  BY <1>1, <1>4, <1>5, <1>7
<1>8. PullInv'
  <2>1. \A r \in pull'.tombs : row[r] = Null
    <3>1. \A r \in pull.tombs : row[r] = Null
      BY <1>1 DEF IInv, PullInv, Pulling
    <3>2. ASSUME pull.table = 3, NEW r \in Taken PROVE row[r] = Null
      <4>1. r \in Rows /\ tomb[r] > pull.cur /\ pull.cur # Null
        BY <1>1, <1>4, <1>6, <3>2
      <4>2. tomb[r] # 0
        BY <1>3, <4>1, IFacts DEF IInv, TypeOK
      <4> QED
        BY <4>1, <4>2 DEF IInv, RowsInv
    <3> QED
      BY <1>3, <3>1, <3>2
  <2>2. pull'.cur = Null => pull'.tombs = {}
    BY <1>1, <1>3 DEF IInv, PullInv, Pulling, Full
  <2> QED
    BY <1>1, <1>2, <1>3, <2>1, <2>2 DEF IInv, PullInv, Pulling, Full
<1>9. BaseInv'
  BY <1>1, <1>2, <1>3 DEF IInv, BaseInv, Held
<1>10. CreationInv'
  <2>1. ASSUME NEW c \in Cascades, NEW x \in Rows, creation'[c][x] # 0
        PROVE  Newest(c, x)
    <3>1. c \in Rows /\ row[c] \in Int /\ staging[c] \in Nat
      BY RowFacts, TypesOf DEF IInv
    <3>2. staging'[c] \in {staging[c], 0, row[c]}
      BY <1>1, <1>7, <3>1
    <3>3. staging'[c] = row[c] => row[c] >= 0
      BY <1>1, <1>7, <3>1
    <3> QED
      BY <1>1, <1>2, <2>1, <3>2, <3>3, CreationKept DEF IInv
  <2> QED
    BY <2>1, CreationsAre
<1>11. StagingInv'
  <2> SUFFICES ASSUME NEW r \in Rows, staging'[r] # 0
               PROVE  /\ staging'[r] <= sync_seq /\ row[r] # 0
                      /\ row[r] \in {staging'[r], Null} \/ row[r] > cursor
                      /\ row[r] = Null => GoneAfter(r, cursor)
                      /\ staging'[r] <= pull.ceil
                      /\ row[r] \in {staging'[r], Null} \/ row[r] > pull.ceil
                      /\ \A x \in {r, Of(r)} : row[x] = Null => GoneAfter(x, pull.ceil)
    BY <1>1, <1>2, <1>3 DEF StagingInv, Staged, GoneAfter
  <2>1. CASE staging'[r] = staging[r]
    BY <1>1, <2>1 DEF IInv, StagingInv, Staged, Pulling
  <2>2. CASE staging'[r] # staging[r]
    <3>1. pull.table # 3
      BY <1>1, <2>2
    <3>2. staging'[r] = row[r] /\ row[r] > 0 /\ row[r] <= pull.ceil
      BY <1>7, <2>2, <3>1
    <3>3. row[Of(r)] > 0
      BY <3>2 DEF IInv, RowsInv, Live
    <3> QED
      BY <3>2, <3>3, IFacts
  <2> QED
    BY <2>1, <2>2
<1>12. LateInv'
  <2> SUFFICES ASSUME NEW r \in Rows
               PROVE  /\ \A x \in {r, Of(r)} : base[x].seq > pull.ceil /\ row[r] = Null =>
                            GoneAfter(r, pull.ceil)
                      /\ base[r].ver > pull.ceil =>
                           LET c == Of(r) IN
                           /\ base[c].seq > pull.ceil /\ staging'[c] = 0
                           /\ creation[c] = NoRows
                           /\ row[c] = Null \/ row[c] > pull.ceil
    BY <1>1, <1>2, <1>3 DEF LateInv, GoneAfter
  <2>1. /\ \A x \in {r, Of(r)} : base[x].seq > pull.ceil /\ row[r] = Null =>
             GoneAfter(r, pull.ceil)
        /\ base[r].ver > pull.ceil =>
             LET c == Of(r) IN
             /\ base[c].seq > pull.ceil /\ staging[c] = 0 /\ creation[c] = NoRows
             /\ row[c] = Null \/ row[c] > pull.ceil
    BY <1>1 DEF IInv, LateInv, Pulling
  <2>2. ASSUME base[r].ver > pull.ceil PROVE staging'[Of(r)] = 0
    BY <1>1, <1>7, <2>1, <2>2, IFacts
  <2> QED
    BY <2>1, <2>2
<1>13. ReadingInv'
  <2>1. ASSUME NEW r \in Rows, row[r] > 0, Passed(r)', pull.cur < row[r], row[r] <= pull.ceil
        PROVE  staging'[r] = row[r]
    <3>1. CASE Passed(r)
      <4>1. staging[r] = row[r]
        BY <1>1, <2>1, <3>1 DEF IInv, ReadingInv, Live
      <4> QED
        BY <1>1, <1>7, <4>1
    <3>2. CASE ~Passed(r)
      <4>1. r \in Nat \ {0} /\ (r \in Cascades \/ r \in Quizzes)
        BY RowFacts DEF Rows
      <4>2. pull.table # 3 /\ (r \in Cascades <=> pull.table = 1) /\ r > pull.after
        <5>1. CASE r \in Cascades
          BY <1>3, <2>1, <3>2, <4>1, <5>1 DEF Passed
        <5>2. CASE r \notin Cascades
          <6>1. pull.table \in 1 .. 2 /\ (pull.table = 2 => r > pull.after)
            BY <1>3, <3>2, <4>1, <5>2 DEF Passed
          <6>2. pull'.table > 2 \/ (pull'.table = 2 /\ r <= pull'.after)
            BY <2>1, <5>2 DEF Passed
          <6>3. pull.table # 1
            <7> SUFFICES ASSUME pull.table = 1 PROVE FALSE
              OBVIOUS
            <7>1. pull'.table = 2 /\ Taken = Wanted /\ pull'.after = 0
              BY <1>3, <6>2
            <7> QED
              BY <4>1, <6>2, <7>1, RowFacts
          <6> QED
            BY <5>2, <6>1, <6>3
        <5> QED
          BY <5>1, <5>2
      <4>3. r \in Wanted
        BY <1>5, <2>1, <4>2
      <4>4. r \in Taken
        <5>1. CASE Taken = Wanted
          BY <4>3, <5>1
        <5>2. CASE Taken # Wanted
          <6>1. pull'.table = pull.table /\ r <= pull'.after
            BY <1>3, <2>1, <3>2, <4>1, <5>2 DEF Passed
          <6>2. Taken # {} /\ r <= Max(Taken)
            BY <1>3, <4>1, <4>2, <5>2, <6>1
          <6> QED
            BY <1>4, <4>3, <6>2
        <5> QED
          BY <5>1, <5>2
      <4> QED
        BY <1>7, <4>2, <4>4
    <3> QED
      BY <3>1, <3>2
  <2>2. ASSUME ~Full, NEW r \in Rows, r \in Held \ (excused \cup pull.lost), row[r] = Null
        PROVE  \/ floor > pull.ceil
               \/ tomb[r] > pull.cur /\
                    (PassedTomb(r)' => r \in pull'.tombs \/ tomb[r] > pull.ceil)
    <3>1. \/ floor > pull.ceil
          \/ tomb[r] > pull.cur /\ (PassedTomb(r) => r \in pull.tombs \/ tomb[r] > pull.ceil)
      BY <1>1, <2>2 DEF IInv, ReadingInv
    <3>2. ASSUME tomb[r] > pull.cur, ~PassedTomb(r), PassedTomb(r)', ~(tomb[r] > pull.ceil)
          PROVE  r \in pull'.tombs
      <4>0. r \in Nat \ {0}
        BY RowFacts
      <4>1. pull.table = 3
        BY <1>3, <3>2, <4>0 DEF PassedTomb
      <4>2. r > pull.after
        BY <1>3, <3>2, <4>0, <4>1 DEF PassedTomb
      <4>3. r \in Wanted
        BY <1>6, <3>2, <4>1, <4>2, IFacts
      <4>4. r \in Taken
        <5>1. CASE Taken = Wanted
          BY <4>3, <5>1
        <5>2. CASE Taken # Wanted
          <6>1. r <= pull'.after
            BY <1>3, <3>2, <4>0, <4>1, <5>2 DEF PassedTomb
          <6>2. Taken # {} /\ r <= Max(Taken)
            BY <1>3, <4>0, <4>2, <5>2, <6>1
          <6> QED
            BY <1>4, <4>3, <6>2
        <5> QED
          BY <5>1, <5>2
      <4> QED
        BY <1>3, <4>1, <4>4
    <3>3. pull.tombs \subseteq pull'.tombs
      BY <1>3
    <3> QED
      BY <3>1, <3>2, <3>3
  <2>3. Live' = Live /\ Live \subseteq Rows /\ Held' = Held /\ Held \subseteq Rows
        /\ (Full' <=> Full)
    BY <1>1, <1>2, <1>3 DEF Live, Held, Full
  <2> QED
    BY <1>1, <1>2, <1>3, <2>1, <2>2, <2>3 DEF ReadingInv, Live
<1>14. RebasingInv'
  BY <1>3 DEF RebasingInv
<1>15. SettledInv'
  BY <1>1, <1>2, SettledKept
<1> QED
  BY <1>2, <1>8, <1>9, <1>10, <1>11, <1>12, <1>13, <1>14, <1>15 DEF IInv

LEMMA BeginRebaseStep == IInv /\ BeginRebase /\ TypeOK' => IInv'
<1> SUFFICES ASSUME IInv, BeginRebase, TypeOK' PROVE IInv'
  OBVIOUS
<1>1. /\ pull.stage = "reading" /\ pull.table > (IF Full THEN 2 ELSE 3)
      /\ pull' = [pull EXCEPT !.stage = "rebasing", !.sent = {},
           !.todo = Touched \cup pull.sent \cup (IF Full THEN Held \cap Cascades ELSE {})]
      /\ UNCHANGED <<server, base, cursor, staging, pending, creation, excused>>
  BY DEF BeginRebase
<1>2. /\ RowsInv' /\ Moves
      /\ sync_seq' = sync_seq /\ floor' = floor /\ row' = row /\ tomb' = tomb
  BY <1>1, ServerStays
<1>3. /\ pull'.stage = "rebasing" /\ pull'.cur = pull.cur /\ pull'.ceil = pull.ceil
      /\ pull'.sent = {} /\ pull'.lost = pull.lost /\ pull'.tombs = pull.tombs
      /\ pull'.todo = Touched \cup pull.sent \cup (IF Full THEN Held \cap Cascades ELSE {})
      /\ pull.table \in 1 .. 4 /\ pull.tombs \subseteq Rows
      /\ cursor < pull.ceil /\ pull.cur \in {Null, cursor} /\ Pulling /\ Pulling'
      /\ (Full' <=> Full)
  BY <1>1 DEF IInv, TypeOK, Pulls, PullInv, Pulling, Full
<1>4. PullInv' /\ StagingInv' /\ LateInv'
  BY <1>1, <1>2, <1>3 DEF IInv, PullInv, StagingInv, LateInv, Staged, GoneAfter
<1>5. BaseInv' /\ ReadingInv'
  BY <1>1, <1>2, <1>3 DEF IInv, BaseInv, Held, ReadingInv
<1>6. CreationInv'
  BY <1>1, <1>2, CreationsKept, IFacts DEF IInv
<1>7. RebasingInv'
  <2>1. \A r \in Staged : Of(r) \in pull'.todo
    BY <1>3 DEF Touched
  <2>2. ASSUME NEW r \in Live, row[r] <= pull.ceil
        PROVE  /\ pull.cur < row[r] => staging[r] = row[r]
               /\ Of(r) \notin pull'.todo /\ r \notin excused => base[r].ver = row[r]
    <3>1. Passed(r)
      BY <1>1, <1>3 DEF Passed
    <3>2. pull.cur < row[r] => staging[r] = row[r]
      BY <1>1, <2>2, <3>1 DEF IInv, ReadingInv
    <3>3. r \in Rows /\ row[r] > 0
      BY DEF Live
    <3>4. ASSUME Of(r) \notin pull'.todo, r \notin excused PROVE base[r].ver = row[r]
      <4>1. staging[r] = 0
        BY <2>1, <3>3, <3>4 DEF Staged
      <4>2. row[r] <= cursor
        BY <1>3, <3>2, <3>3, <4>1, IFacts
      <4> QED
        BY <3>4, <4>2 DEF IInv, SettledInv, NothingMissed
    <3> QED
      BY <3>2, <3>4
  <2>3. ASSUME NEW r \in Rows, r \in Held \ (excused \cup pull.lost), row[r] = Null
        PROVE  GoneAfter(r, pull.ceil) \/ (Of(r) \in pull'.todo /\ (Full \/ r \in pull.tombs))
    <3>1. CASE Full
      BY <1>3, <2>3, <3>1, IFacts DEF IInv, BaseInv
    <3>2. CASE ~Full
      <4>1. PassedTomb(r)
        BY <1>1, <1>3, <3>2 DEF PassedTomb
      <4>2. GoneAfter(r, pull.ceil) \/ r \in pull.tombs
        BY <1>1, <2>3, <3>2, <4>1 DEF IInv, ReadingInv, GoneAfter
      <4> QED
        BY <1>3, <4>2 DEF Touched
    <3> QED
      BY <3>1, <3>2
  <2>4. /\ Staged' = Staged /\ Live' = Live /\ Held' = Held /\ Held \subseteq Rows
        /\ \A r \in Rows : GoneAfter(r, pull.ceil)' <=> GoneAfter(r, pull.ceil)
    BY <1>1, <1>2, <1>3 DEF Staged, Live, Held, GoneAfter
  <2> QED
    BY <1>1, <1>2, <1>3, <2>1, <2>2, <2>3, <2>4 DEF RebasingInv
<1>8. SettledInv'
  BY <1>1, <1>2, SettledKept
<1> QED
  BY <1>2, <1>4, <1>5, <1>6, <1>7, <1>8 DEF IInv

LEMMA EndRebaseStep == IInv /\ EndRebase /\ TypeOK' => IInv'
<1> SUFFICES ASSUME IInv, EndRebase, TypeOK' PROVE IInv'
  OBVIOUS
<1>1. /\ pull.stage = "rebasing" /\ pull.todo = {} /\ cursor' = pull.ceil
      /\ excused' = excused \cup pull.lost /\ pull' = NoPull
      /\ UNCHANGED <<server, base, staging, pending, creation>>
  BY DEF EndRebase, PulledSeq
<1>2. /\ RowsInv' /\ Moves
      /\ sync_seq' = sync_seq /\ floor' = floor /\ row' = row /\ tomb' = tomb
  BY <1>1, ServerStays
<1>3. /\ pull'.stage = "idle" /\ pull'.ceil = 0 /\ pull'.sent = {} /\ ~Pulling'
      /\ pull.sent = {}
  BY <1>1 DEF NoPull, Pulling, IInv, PullInv
<1>4. PullInv' /\ BaseInv'
  BY <1>1, <1>2, <1>3, IFacts DEF IInv, PullInv, BaseInv, Held
<1>5. CreationInv'
  BY <1>1, <1>2, CreationsKept, IFacts DEF IInv
<1>6. Staged' = {}
  BY <1>1 DEF IInv, RebasingInv, Staged
<1>7. StagingInv' /\ LateInv' /\ ReadingInv' /\ RebasingInv'
  BY <1>3, <1>6 DEF StagingInv, LateInv, ReadingInv, RebasingInv, Pulling
<1>8. SettledInv'
  BY <1>1, <1>2 DEF IInv, RebasingInv, SettledInv, NothingMissed, Live, Held, GoneAfter
<1> QED
  BY <1>2, <1>4, <1>5, <1>7, <1>8 DEF IInv

LEMMA StoreCreatedStep ==
  ASSUME IInv, NEW c \in Creatable, StoreCreated(c), TypeOK'
  PROVE  IInv'
<1> DEFINE new == {r \in Rows : creation[c][r] # 0}
           s == creation[c][c]
<1>0. c \in Cascades /\ c \in Rows /\ Of(c) = c
  BY PullAssumption, RowFacts
<1>1. /\ new # {}
      /\ base' = [r \in Rows |-> IF r \in new
                                 THEN [ver |-> creation[c][r], seq |-> creation[c][r]]
                                 ELSE base[r]]
      /\ creation' = [creation EXCEPT ![c] = NoRows]
      /\ excused' = excused \cup
           {r \in new : row[r] # creation[c][r] /\ creation[c][r] <= Horizon}
      /\ UNCHANGED <<server, cursor, staging, pull, pending>>
  BY DEF StoreCreated
<1>2. /\ RowsInv' /\ Moves
      /\ sync_seq' = sync_seq /\ floor' = floor /\ row' = row /\ tomb' = tomb
  BY <1>1, ServerStays
<1>3. \A r \in new : creation[c][r] = s /\ r \in Tree(c) /\ r \in Rows /\ Of(r) = c
  <2>1. \A r \in new : creation[c][r] = s /\ r \in Tree(c) /\ r \in Rows
    BY <1>0 DEF IInv, CreationInv
  <2> QED
    BY <1>0, <2>1, RowFacts
<1>4. /\ s \in Nat \ {0} /\ c \in new /\ s <= sync_seq
      /\ row[c] # 0 /\ (staging[c] = 0 \/ staging[c] >= s)
      /\ \A r \in Tree(c) : row[r] = 0 \/ row[r] >= s \/ (row[r] = Null /\ GoneAfter(r, s))
  <2>1. PICK x \in new : TRUE
    BY <1>1
  <2>2. s # 0
    BY <1>3, <2>1
  <2>3. s \in Nat
    BY <1>0 DEF IInv, TypeOK, Seqs
  <2>4. c \in new
    BY <1>0, <2>2
  <2>5. /\ s <= sync_seq /\ row[c] # 0 /\ (staging[c] = 0 \/ staging[c] >= s)
        /\ \A r \in Tree(c) : row[r] = 0 \/ row[r] >= s \/ (row[r] = Null /\ GoneAfter(r, s))
    BY <1>0, <2>2 DEF IInv, CreationInv
  <2> QED
    BY <2>2, <2>3, <2>4, <2>5
<1>5. \A r \in new : base'[r] = [ver |-> s, seq |-> s]
  BY <1>1, <1>3
<1>6. \A r \in Rows : r \notin new => base'[r] = base[r]
  BY <1>1
<1>7. /\ excused \subseteq excused'
      /\ \A r \in new \ excused' : row[r] = s \/ (s > cursor /\ s > pull.ceil)
  <2>1. \A r \in new \ excused' : row[r] = s \/ ~(s <= Horizon)
    BY <1>1, <1>3
  <2>2. s > Horizon <=> s > cursor /\ s > pull.ceil
    <3> HIDE DEF s
    <3> QED
      BY <1>4, IFacts DEF Horizon
  <2>3. Horizon \in Int
    BY IFacts DEF Horizon
  <2>4. s > Horizon \/ s <= Horizon
    <3> HIDE DEF s
    <3> QED
      BY <1>4, <2>3
  <2> QED
    BY <1>1, <2>1, <2>2, <2>4
<1>8. \A d \in Cascades : creation'[d] = IF d = c THEN NoRows ELSE creation[d]
  BY <1>0, <1>1 DEF IInv, TypeOK
<1>9. creation[c] # NoRows
  BY <1>0, <1>4 DEF NoRows
<1>10. CreationInv'
  BY <1>0, <1>1, <1>2, CreationsBut
<1> HIDE DEF new, s
<1>11. \A r \in Rows : /\ r \in Held' <=> r \in new \/ r \in Held
                       /\ r \in new => base'[r].ver = s /\ base'[r].seq = s
  <2> SUFFICES ASSUME NEW r \in Rows
               PROVE  /\ r \in Held' <=> r \in new \/ r \in Held
                      /\ r \in new => base'[r].ver = s /\ base'[r].seq = s
    OBVIOUS
  <2>1. CASE r \in new
    <3>1. base'[r] = [ver |-> s, seq |-> s]
      BY <1>5, <2>1
    <3>2. base'[r].ver = s /\ base'[r].seq = s /\ s # 0
      BY <1>4, <3>1
    <3>3. base'[r] # Absent
      BY <3>2 DEF Absent
    <3> QED
      BY <2>1, <3>2, <3>3 DEF Held
  <2>2. CASE r \notin new
    BY <1>6, <2>2 DEF Held
  <2> QED
    BY <2>1, <2>2
<1>12. Held \subseteq Rows /\ Held' \subseteq Rows
  BY DEF Held
<1>13. PullInv' /\ StagingInv'
  BY <1>1, <1>2 DEF IInv, PullInv, StagingInv, Pulling, Full, Staged, GoneAfter
<1>14. BaseInv'
  <2>1. ASSUME NEW r \in Rows PROVE base'[r].ver <= base'[r].seq /\ base'[r].seq <= sync_seq'
    <3>1. CASE r \in new
      BY <1>2, <1>4, <1>11, <3>1, IFacts
    <3>2. CASE r \notin new
      BY <1>2, <1>6, <3>2 DEF IInv, BaseInv
    <3> QED
      BY <3>1, <3>2
  <2>2. ASSUME NEW r \in Held' PROVE base'[r].ver # 0
    BY <1>4, <1>6, <1>11, <1>12, <2>2 DEF IInv, BaseInv
  <2>3. ASSUME NEW r \in Held' \ excused' PROVE Of(r) \in Held'
    <3>1. CASE r \in new
      BY <1>0, <1>3, <1>4, <1>11, <3>1
    <3>2. CASE r \notin new
      <4>1. Of(r) \in Held
        BY <1>7, <1>11, <1>12, <2>3, <3>2 DEF IInv, BaseInv
      <4> QED
        BY <1>11, <1>12, <4>1
    <3> QED
      BY <3>1, <3>2
  <2>4. pending' \cup pull'.sent \subseteq Held'
    BY <1>1, <1>11, <1>12 DEF IInv, BaseInv
  <2> QED
    BY <2>1, <2>2, <2>3, <2>4 DEF BaseInv
<1>15. ASSUME NEW x \in Rows, x \in new, NEW y \in Int, s > y, row[x] = Null
       PROVE  GoneAfter(x, y)
  <2>1. GoneAfter(x, s)
    BY <1>3, <1>4, <1>15, IFacts
  <2> QED
    BY <1>4, <1>15, <2>1, IFacts DEF GoneAfter
<1>16. LateInv'
  <2> SUFFICES ASSUME Pulling, NEW r \in Rows
               PROVE  /\ \A x \in {r, Of(r)} : base'[x].seq > pull.ceil /\ row[r] = Null =>
                            GoneAfter(r, pull.ceil)
                      /\ base'[r].ver > pull.ceil =>
                           /\ base'[Of(r)].seq > pull.ceil /\ staging[Of(r)] = 0
                           /\ creation'[Of(r)] = NoRows
                           /\ row[Of(r)] = Null \/ row[Of(r)] > pull.ceil
    BY <1>1, <1>2 DEF LateInv, Pulling, GoneAfter
  <2>0. Of(r) \in Rows /\ Of(r) \in Cascades /\ Of(Of(r)) = Of(r)
    BY IFacts, RowFacts
  <2>1. ASSUME NEW x \in {r, Of(r)}, base'[x].seq > pull.ceil, row[r] = Null
        PROVE  GoneAfter(r, pull.ceil)
    <3>1. CASE x \in new
      <4>1. s > pull.ceil /\ Of(r) = c
        BY <1>3, <1>11, <2>0, <2>1, <3>1
      <4>2. r \in Tree(c)
        BY <1>0, <4>1, RowFacts
      <4>3. GoneAfter(r, s)
        BY <1>4, <2>1, <4>2, IFacts
      <4> QED
        BY <1>4, <4>1, <4>3, IFacts DEF GoneAfter
    <3>2. CASE x \notin new
      <4>1. base[x].seq > pull.ceil
        BY <1>6, <2>0, <2>1, <3>2
      <4> QED
        BY <2>1, <4>1 DEF IInv, LateInv
    <3> QED
      BY <3>1, <3>2
  <2>2. ASSUME base'[r].ver > pull.ceil
        PROVE  /\ base'[Of(r)].seq > pull.ceil /\ staging[Of(r)] = 0
               /\ creation'[Of(r)] = NoRows
               /\ row[Of(r)] = Null \/ row[Of(r)] > pull.ceil
    <3>1. CASE r \in new
      <4>1. Of(r) = c /\ s > pull.ceil
        BY <1>3, <1>11, <2>2, <3>1
      <4>2. base'[c].seq > pull.ceil /\ creation'[c] = NoRows
        BY <1>0, <1>4, <1>8, <1>11, <4>1
      <4>3. staging[c] = 0
        <5>1. staging[c] # 0 => staging[c] <= pull.ceil
          BY <1>0 DEF IInv, StagingInv, Staged, Pulling
        <5> QED
          BY <1>0, <1>4, <4>1, <5>1, IFacts
      <4>4. row[c] = Null \/ row[c] > pull.ceil
        <5>1. row[c] >= s \/ row[c] = Null
          BY <1>0, <1>4, RowFacts
        <5> QED
          BY <1>0, <1>4, <4>1, <5>1, IFacts
      <4> QED
        BY <4>1, <4>2, <4>3, <4>4
    <3>2. CASE r \notin new
      <4>1. base[r].ver > pull.ceil
        BY <1>6, <2>2, <3>2
      <4>2. /\ base[Of(r)].seq > pull.ceil /\ staging[Of(r)] = 0
            /\ creation[Of(r)] = NoRows
            /\ row[Of(r)] = Null \/ row[Of(r)] > pull.ceil
        BY <4>1 DEF IInv, LateInv
      <4>3. Of(r) # c
        BY <1>9, <4>2
      <4>4. Of(r) \notin new
        BY <1>3, <2>0, <4>3
      <4> QED
        BY <1>6, <1>8, <2>0, <4>2, <4>3, <4>4
    <3> QED
      BY <3>1, <3>2
  <2> QED
    BY <2>1, <2>2
<1>17. ReadingInv'
  <2> SUFFICES ASSUME pull.stage = "reading"
               PROVE  /\ \A r \in Live : Passed(r) /\ pull.cur < row[r] /\ row[r] <= pull.ceil
                                           => staging[r] = row[r]
                      /\ ~Full => \A r \in Held' \ (excused' \cup pull.lost) :
                           row[r] = Null =>
                             \/ floor > pull.ceil
                             \/ tomb[r] > pull.cur /\
                                  (PassedTomb(r) => r \in pull.tombs \/ tomb[r] > pull.ceil)
    BY <1>1, <1>2 DEF ReadingInv, Live, Full, Passed, PassedTomb
  <2>1. \A r \in Live : Passed(r) /\ pull.cur < row[r] /\ row[r] <= pull.ceil
                          => staging[r] = row[r]
    BY DEF IInv, ReadingInv
  <2>2. ASSUME ~Full, NEW r \in Held' \ (excused' \cup pull.lost), row[r] = Null
        PROVE  \/ floor > pull.ceil
               \/ tomb[r] > pull.cur /\
                    (PassedTomb(r) => r \in pull.tombs \/ tomb[r] > pull.ceil)
    <3>1. CASE r \in new
      <4>1. s > pull.ceil
        BY <1>4, <1>7, <2>2, <3>1, IFacts
      <4>2. GoneAfter(r, pull.ceil)
        BY <1>12, <1>15, <2>2, <3>1, <4>1, IFacts
      <4>3. cursor < pull.ceil /\ pull.cur \in {Null, cursor}
        BY DEF IInv, PullInv, Pulling
      <4>4. r \in Rows
        BY <1>12, <2>2
      <4> QED
        BY <4>2, <4>3, <4>4, IFacts DEF GoneAfter
    <3>2. CASE r \notin new
      <4>1. r \in Held \ (excused \cup pull.lost)
        BY <1>7, <1>11, <1>12, <2>2, <3>2
      <4> QED
        BY <2>2, <4>1 DEF IInv, ReadingInv
    <3> QED
      BY <3>1, <3>2
  <2> QED
    BY <2>1, <2>2
<1>18. RebasingInv'
  <2> SUFFICES ASSUME pull.stage = "rebasing"
               PROVE  /\ \A r \in Staged : Of(r) \in pull.todo
                      /\ \A r \in Live : row[r] <= pull.ceil =>
                           /\ Of(r) \in pull.todo /\ pull.cur < row[r] => staging[r] = row[r]
                           /\ Of(r) \notin pull.todo /\ r \notin excused' \cup pull.lost =>
                                base'[r].ver = row[r]
                      /\ \A r \in Held' \ (excused' \cup pull.lost) :
                           row[r] = Null =>
                             \/ GoneAfter(r, pull.ceil)
                             \/ Of(r) \in pull.todo /\ (Full \/ r \in pull.tombs)
    BY <1>1, <1>2 DEF RebasingInv, Live, Full, Staged, GoneAfter
  <2>1. ASSUME NEW r \in Live, row[r] <= pull.ceil, Of(r) \notin pull.todo,
               r \notin excused' \cup pull.lost
        PROVE  base'[r].ver = row[r]
    <3>0. r \in Rows /\ row[r] > 0
      BY DEF Live
    <3>1. CASE r \in new
      <4>1. ~(row[r] >= s /\ s > pull.ceil)
        BY <1>4, <2>1, <3>0, IFacts
      <4>2. row[r] >= s
        BY <1>3, <1>4, <3>0, <3>1, IFacts
      <4> QED
        BY <1>7, <1>11, <2>1, <3>0, <3>1, <4>1, <4>2
    <3>2. CASE r \notin new
      BY <1>6, <1>7, <2>1, <3>0, <3>2 DEF IInv, RebasingInv
    <3> QED
      BY <3>1, <3>2
  <2>2. ASSUME NEW r \in Held' \ (excused' \cup pull.lost), row[r] = Null
        PROVE  GoneAfter(r, pull.ceil) \/ (Of(r) \in pull.todo /\ (Full \/ r \in pull.tombs))
    <3>1. CASE r \in new
      <4>1. s > pull.ceil
        BY <1>4, <1>7, <2>2, <3>1, IFacts
      <4> QED
        BY <1>12, <1>15, <2>2, <3>1, <4>1, IFacts
    <3>2. CASE r \notin new
      <4>1. r \in Held \ (excused \cup pull.lost)
        BY <1>7, <1>11, <1>12, <2>2, <3>2
      <4> QED
        BY <2>2, <4>1 DEF IInv, RebasingInv
    <3> QED
      BY <3>1, <3>2
  <2>3. /\ \A r \in Staged : Of(r) \in pull.todo
        /\ \A r \in Live : row[r] <= pull.ceil /\ Of(r) \in pull.todo /\ pull.cur < row[r]
                             => staging[r] = row[r]
    BY DEF IInv, RebasingInv
  <2> QED
    BY <2>1, <2>2, <2>3
<1>19. SettledInv'
  <2>1. ASSUME NEW r \in Live \ excused', row[r] <= cursor
        PROVE  base'[r].ver = row[r]
    <3>0. r \in Rows /\ row[r] > 0
      BY DEF Live
    <3>1. CASE r \in new
      <4>1. ~(row[r] >= s /\ s > cursor)
        BY <1>4, <2>1, <3>0, IFacts
      <4>2. row[r] >= s
        BY <1>3, <1>4, <3>0, <3>1, IFacts
      <4> QED
        BY <1>7, <1>11, <2>1, <3>0, <3>1, <4>1, <4>2
    <3>2. CASE r \notin new
      BY <1>6, <1>7, <2>1, <3>0, <3>2 DEF IInv, SettledInv, NothingMissed
    <3> QED
      BY <3>1, <3>2
  <2>2. ASSUME NEW r \in Held' \ excused', row[r] = Null
        PROVE  GoneAfter(r, cursor)
    <3>1. CASE r \in new
      <4>1. s > cursor
        BY <1>4, <1>7, <2>2, <3>1, IFacts
      <4> QED
        BY <1>12, <1>15, <2>2, <3>1, <4>1, IFacts
    <3>2. CASE r \notin new
      <4>1. r \in Held \ excused
        BY <1>7, <1>11, <1>12, <2>2, <3>2
      <4> QED
        BY <2>2, <4>1 DEF IInv, SettledInv
    <3> QED
      BY <3>1, <3>2
  <2> QED
    BY <1>1, <1>2, <2>1, <2>2 DEF SettledInv, NothingMissed, Live, GoneAfter
<1> QED
  BY <1>2, <1>10, <1>13, <1>14, <1>16, <1>17, <1>18, <1>19 DEF IInv

\* What the transaction of a cascade does, row by row.
Carried(c) == Tree(c) \cap Staged

Gone(c) ==
  LET spare   == c \in pending
      dropAll == \/ c \in pull.tombs
                 \/ Full /\ c \notin Touched /\ ~spare /\ Stale(c)
      left    == {r \in Tree(c) \ Carried(c) : Stale(r)}
  IN IF dropAll THEN Tree(c)
     ELSE (Tree(c) \cap pull.tombs)
            \cup (IF Full /\ c \in Touched /\ ~spare THEN left \cap Quizzes ELSE {})

LEMMA RebaseDoes ==
  ASSUME IInv, NEW c \in Cascades, RebaseCascade(c)
  PROVE  /\ pull.stage = "rebasing" /\ c \in pull.todo /\ Pulling
         /\ UNCHANGED <<server, cursor, creation>>
         /\ Gone(c) \subseteq Tree(c) /\ Carried(c) \subseteq Tree(c) /\ Tree(c) \subseteq Rows
         /\ \A r \in Rows : r \in Gone(c) => base'[r] = Absent
         /\ \A r \in Carried(c) \ Gone(c) :
              base'[r].ver = staging[r] /\ base'[r].seq = pull.ceil /\ base'[r] # Absent
         /\ \A r \in Rows : r \notin Gone(c) \cup Carried(c) => base'[r] = base[r]
         /\ \A r \in Rows : staging'[r] = IF r \in Tree(c) THEN 0 ELSE staging[r]
         /\ pending' = IF base'[c] = Absent THEN pending \ {c} ELSE pending
         /\ pull'.stage = "rebasing" /\ pull'.cur = pull.cur /\ pull'.ceil = pull.ceil
         /\ pull'.tombs = pull.tombs /\ pull'.sent = pull.sent
         /\ pull'.todo = pull.todo \ {c}
         /\ pull'.lost = IF Full /\ c \in pending
                         THEN pull.lost \cup {r \in Tree(c) \ Carried(c) : Stale(r)}
                         ELSE pull.lost
         /\ excused' = IF base'[c] = Absent THEN excused \cup Carried(c) ELSE excused
<1>1. /\ pull.stage = "rebasing" /\ c \in pull.todo
      /\ UNCHANGED <<server, cursor, creation>>
      /\ base' = [r \in Rows |->
           IF r \in Gone(c) THEN Absent
           ELSE IF r \in Carried(c) THEN [ver |-> staging[r], seq |-> pull.ceil]
           ELSE base[r]]
      /\ staging' = [r \in Rows |-> IF r \in Tree(c) THEN 0 ELSE staging[r]]
      /\ pending' = IF base'[c] = Absent THEN pending \ {c} ELSE pending
      /\ pull' = [pull EXCEPT !.todo = @ \ {c},
                   !.lost = IF Full /\ c \in pending
                            THEN @ \cup {r \in Tree(c) \ Carried(c) : Stale(r)} ELSE @]
      /\ excused' = IF base'[c] = Absent THEN excused \cup Carried(c) ELSE excused
  BY DEF RebaseCascade, Gone, Carried
<1>2. Gone(c) \subseteq Tree(c) /\ Carried(c) \subseteq Tree(c) /\ Tree(c) \subseteq Rows
  BY RowFacts DEF Gone, Carried
<1>3. ASSUME NEW r \in Carried(c) \ Gone(c)
      PROVE  base'[r].ver = staging[r] /\ base'[r].seq = pull.ceil /\ base'[r] # Absent
  <2>1. r \in Rows /\ staging[r] # 0
    BY <1>2 DEF Carried, Staged
  <2>2. base'[r] = [ver |-> staging[r], seq |-> pull.ceil]
    BY <1>1, <1>3, <2>1
  <2> QED
    BY <2>1, <2>2 DEF Absent
<1>4. /\ \A r \in Rows : r \in Gone(c) => base'[r] = Absent
      /\ \A r \in Rows : r \notin Gone(c) \cup Carried(c) => base'[r] = base[r]
  BY <1>1
<1>5. \A r \in Rows : staging'[r] = IF r \in Tree(c) THEN 0 ELSE staging[r]
  BY <1>1
<1>6. /\ pull'.stage = "rebasing" /\ pull'.cur = pull.cur /\ pull'.ceil = pull.ceil
      /\ pull'.tombs = pull.tombs /\ pull'.sent = pull.sent
      /\ pull'.todo = pull.todo \ {c}
      /\ pull'.lost = IF Full /\ c \in pending
                      THEN pull.lost \cup {r \in Tree(c) \ Carried(c) : Stale(r)}
                      ELSE pull.lost
  BY <1>1 DEF IInv, TypeOK, Pulls
<1> QED
  BY <1>1, <1>2, <1>3, <1>4, <1>5, <1>6 DEF Pulling

\* No row of the server's that the ceiling has passed is taken away.
LEMMA GoneIsGone ==
  ASSUME IInv, NEW c \in Cascades, c \in pull.todo, pull.stage = "rebasing",
         NEW r \in Gone(c), r \in Live, row[r] <= pull.ceil
  PROVE  FALSE
<1>0. r \in Rows /\ row[r] > 0 /\ Of(r) = c /\ row[c] > 0
  <2>1. r \in Tree(c) /\ r \in Rows /\ row[r] > 0
    BY RowFacts DEF Gone, Live
  <2>2. Of(r) = c
    BY <2>1, RowFacts
  <2> QED
    BY <2>1, <2>2 DEF IInv, RowsInv, Live
<1>1. r \notin pull.tombs /\ c \notin pull.tombs
  BY <1>0, IFacts DEF IInv, PullInv, Pulling
<1>2. Full /\ r \notin Staged
  BY <1>0, <1>1, RowFacts DEF Gone, Touched, Carried
<1>3. staging[r] = row[r]
  BY <1>0, <1>2, IFacts DEF IInv, RebasingInv, Full
<1> QED
  BY <1>0, <1>2, <1>3 DEF Staged

LEMMA RebaseCascadeStep ==
  ASSUME IInv, NEW c \in Cascades, RebaseCascade(c), TypeOK'
  PROVE  IInv'
<1> DEFINE gone == Gone(c)
           carried == Carried(c)
           left == {r \in Tree(c) \ carried : Stale(r)}
<1>1. /\ pull.stage = "rebasing" /\ c \in pull.todo /\ Pulling
      /\ UNCHANGED <<server, cursor, creation>>
      /\ gone \subseteq Tree(c) /\ carried \subseteq Tree(c) /\ Tree(c) \subseteq Rows
      /\ \A r \in Rows : r \in gone => base'[r] = Absent
      /\ \A r \in carried \ gone :
           base'[r].ver = staging[r] /\ base'[r].seq = pull.ceil /\ base'[r] # Absent
      /\ \A r \in Rows : r \notin gone \cup carried => base'[r] = base[r]
      /\ \A r \in Rows : staging'[r] = IF r \in Tree(c) THEN 0 ELSE staging[r]
      /\ pending' = IF base'[c] = Absent THEN pending \ {c} ELSE pending
      /\ pull'.stage = "rebasing" /\ pull'.cur = pull.cur /\ pull'.ceil = pull.ceil
      /\ pull'.tombs = pull.tombs /\ pull'.sent = pull.sent
      /\ pull'.todo = pull.todo \ {c}
      /\ pull'.lost = IF Full /\ c \in pending THEN pull.lost \cup left ELSE pull.lost
      /\ excused' = IF base'[c] = Absent THEN excused \cup carried ELSE excused
  BY RebaseDoes
<1>2. /\ RowsInv' /\ Moves
      /\ sync_seq' = sync_seq /\ floor' = floor /\ row' = row /\ tomb' = tomb
  BY <1>1, ServerStays
<1>3. \A r \in gone : r \in Live => ~(row[r] <= pull.ceil)
  BY <1>1, GoneIsGone
<1>4. \A r \in carried : /\ staging[r] # 0 /\ staging[r] <= pull.ceil /\ row[r] # 0
                         /\ row[r] \in {staging[r], Null} \/ row[r] > cursor
                         /\ row[r] \in {staging[r], Null} \/ row[r] > pull.ceil
                         /\ row[r] = Null => GoneAfter(r, cursor) /\ GoneAfter(r, pull.ceil)
                         /\ row[Of(r)] = Null => GoneAfter(Of(r), pull.ceil)
  <2> SUFFICES ASSUME NEW r \in carried
               PROVE  /\ staging[r] # 0 /\ staging[r] <= pull.ceil /\ row[r] # 0
                      /\ row[r] \in {staging[r], Null} \/ row[r] > cursor
                      /\ row[r] \in {staging[r], Null} \/ row[r] > pull.ceil
                      /\ row[r] = Null => GoneAfter(r, cursor) /\ GoneAfter(r, pull.ceil)
                      /\ row[Of(r)] = Null => GoneAfter(Of(r), pull.ceil)
    OBVIOUS
  <2>1. r \in Staged
    BY DEF Carried
  <2>2. staging[r] # 0
    BY <2>1 DEF Staged
  <2>3. /\ row[r] # 0
        /\ row[r] \in {staging[r], Null} \/ row[r] > cursor
        /\ row[r] = Null => GoneAfter(r, cursor)
        /\ staging[r] <= pull.ceil
        /\ row[r] \in {staging[r], Null} \/ row[r] > pull.ceil
        /\ \A x \in {r, Of(r)} : row[x] = Null => GoneAfter(x, pull.ceil)
    BY <1>1, <2>1 DEF IInv, StagingInv
  <2> QED
    BY <2>2, <2>3
<1>5. /\ \A r \in Rows : r \in Tree(c) <=> Of(r) = c
      /\ c \in Rows /\ c \in Tree(c) /\ Of(c) = c /\ c \notin Quizzes
      /\ \A r \in Rows : Of(r) \in Rows /\ Of(r) \in Cascades
      /\ \A r \in Rows : r \in Cascades => Of(r) = r
      /\ \A r \in Rows : r = Of(r) \/ r \in Quizzes
  <2>1. /\ \A r \in Rows : r \in Tree(c) <=> Of(r) = c
        /\ c \in Rows /\ Of(c) = c /\ c \notin Quizzes
        /\ \A r \in Rows : Of(r) \in Rows /\ Of(r) \in Cascades
        /\ \A r \in Rows : r \in Cascades => Of(r) = r
    BY RowFacts
  <2>2. \A r \in Rows : r \in Cascades \/ r \in Quizzes
    BY DEF Rows
  <2> QED
    BY <2>1, <2>2
<1>6. /\ pull.sent = {} /\ cursor < pull.ceil /\ pull.cur \in {Null, cursor}
      /\ (Full' <=> Full) /\ Pulling'
      /\ pull.lost \subseteq pull'.lost /\ excused \subseteq excused'
      /\ Held \subseteq Rows /\ Held' \subseteq Rows
  BY <1>1 DEF IInv, PullInv, Pulling, Full, Held
\* A row that goes with its cascade, or stays as it was.
<1>7. \A r \in Rows :
        \/ r \in gone /\ r \notin Held'
        \/ r \in carried \ gone /\ r \in Held'
        \/ r \notin gone \cup carried /\ base'[r] = base[r] /\ (r \in Held' <=> r \in Held)
  BY <1>1 DEF Held
<1>8. c \notin gone => gone = (Tree(c) \cap pull.tombs)
                         \cup (IF Full /\ c \in Touched /\ c \notin pending
                               THEN left \cap Quizzes ELSE {})
                       /\ c \notin pull.tombs
                       /\ ~(Full /\ c \notin Touched /\ c \notin pending /\ Stale(c))
  BY <1>5 DEF Gone
<1>9. c \in gone => gone = Tree(c)
  BY <1>5 DEF Gone
<1> HIDE DEF gone, carried
<1>10. PullInv'
  BY <1>1, <1>2, <1>6 DEF IInv, PullInv, Pulling, Full
<1>11. BaseInv'
  <2>1. ASSUME NEW r \in Rows PROVE base'[r].ver <= base'[r].seq /\ base'[r].seq <= sync_seq'
    <3>1. CASE r \in gone
      <4>1. base'[r].ver = 0 /\ base'[r].seq = 0
        BY <1>1, <3>1 DEF Absent
      <4> QED
        BY <1>2, <4>1, IFacts
    <3>2. CASE r \in carried \ gone
      BY <1>1, <1>2, <1>4, <3>2, IFacts
    <3>3. CASE r \notin gone \cup carried
      BY <1>1, <1>2, <3>3 DEF IInv, BaseInv
    <3> QED
      BY <3>1, <3>2, <3>3
  <2>2. ASSUME NEW r \in Held' PROVE base'[r].ver # 0
    BY <1>1, <1>4, <1>6, <1>7, <2>2 DEF IInv, BaseInv
  <2>3. ASSUME NEW r \in Held' \ excused' PROVE Of(r) \in Held'
    <3>0. r \in Rows
      BY <1>6
    <3>1. CASE Of(r) # c
      <4>1. r \notin Tree(c) /\ Of(r) \notin Tree(c)
        BY <1>5, <3>0, <3>1
      <4> QED
        BY <1>1, <1>5, <1>6, <1>7, <2>3, <3>0, <4>1 DEF IInv, BaseInv
    <3>2. CASE Of(r) = c
      <4> SUFFICES ASSUME c \notin Held' PROVE FALSE
        BY <3>2
      <4>1. base'[c] = Absent
        BY <1>5 DEF Held
      <4>2. r \notin carried /\ r \notin gone
        BY <1>1, <1>7, <2>3, <3>0, <4>1
      <4>3. r \in Held \ excused
        BY <1>6, <1>7, <2>3, <3>0, <4>2
      <4>4. c \in Held
        BY <3>2, <4>3 DEF IInv, BaseInv
      <4>5. c \in gone
        BY <1>5, <1>7, <4>4
      <4> QED
        BY <1>5, <1>9, <3>0, <3>2, <4>2, <4>5
    <3> QED
      BY <3>1, <3>2
  <2>4. pending' \cup pull'.sent \subseteq Held'
    <3> SUFFICES ASSUME NEW d \in pending' PROVE d \in Held'
      BY <1>1, <1>6
    <3>1. d \in pending /\ d \in Cascades /\ d \in Held
      BY <1>1 DEF IInv, BaseInv, TypeOK
    <3>2. CASE d = c
      BY <1>1, <1>5, <3>2 DEF Held
    <3>3. CASE d # c
      <4>1. d \in Rows /\ Of(d) = d
        BY <1>5, <1>6, <3>1
      <4>2. d \notin Tree(c)
        BY <1>5, <3>3, <4>1
      <4> QED
        BY <1>1, <1>7, <3>1, <4>1, <4>2
    <3> QED
      BY <3>2, <3>3
  <2> QED
    BY <2>1, <2>2, <2>3, <2>4 DEF BaseInv
<1>12. CreationInv'
  <2>1. ASSUME NEW d \in Cascades, NEW x \in Rows, creation'[d][x] # 0
        PROVE  Newest(d, x)
    <3>1. d \in Rows /\ row[d] \in Int /\ staging[d] \in Nat
      BY RowFacts, TypesOf DEF IInv
    <3>2. staging'[d] \in {staging[d], 0}
      BY <1>1, <3>1
    <3>3. staging'[d] = row[d] => row[d] >= 0
      BY <3>1, <3>2
    <3> QED
      BY <1>1, <1>2, <2>1, <3>2, <3>3, CreationKept DEF IInv
  <2> QED
    BY <2>1, CreationsAre
<1>13. \A r \in Rows : staging'[r] # 0 => staging'[r] = staging[r] /\ Of(r) # c
  BY <1>1, <1>5
<1>14. StagingInv'
  BY <1>1, <1>2, <1>13 DEF IInv, StagingInv, Staged, GoneAfter, Pulling
<1>15. LateInv'
  <2> SUFFICES ASSUME NEW r \in Rows
               PROVE  /\ \A x \in {r, Of(r)} : base'[x].seq > pull.ceil /\ row[r] = Null =>
                            GoneAfter(r, pull.ceil)
                      /\ base'[r].ver > pull.ceil =>
                           /\ base'[Of(r)].seq > pull.ceil /\ staging'[Of(r)] = 0
                           /\ creation[Of(r)] = NoRows
                           /\ row[Of(r)] = Null \/ row[Of(r)] > pull.ceil
    BY <1>1, <1>2, <1>6 DEF LateInv, GoneAfter
  <2>1. ASSUME NEW x \in Rows, base'[x].seq > pull.ceil \/ base'[x].ver > pull.ceil
        PROVE  x \notin gone \cup carried /\ base'[x] = base[x]
    <3>1. x \notin gone
      <4> SUFFICES ASSUME x \in gone PROVE FALSE
        OBVIOUS
      <4>1. base'[x].ver = 0 /\ base'[x].seq = 0
        BY <1>1 DEF Absent
      <4> QED
        BY <2>1, <4>1, IFacts
    <3>2. x \notin carried
      <4> SUFFICES ASSUME x \in carried PROVE FALSE
        OBVIOUS
      <4>1. base'[x].ver <= pull.ceil /\ base'[x].seq = pull.ceil /\ base'[x].ver = staging[x]
        BY <1>1, <1>4, <3>1
      <4> QED
        BY <2>1, <4>1, IFacts
    <3> QED
      BY <1>1, <3>1, <3>2
  <2>2. ASSUME NEW x \in {r, Of(r)}, base'[x].seq > pull.ceil, row[r] = Null
        PROVE  GoneAfter(r, pull.ceil)
    <3>1. x \in Rows
      BY <1>5
    <3>2. base[x].seq > pull.ceil
      BY <2>1, <2>2, <3>1
    <3> QED
      BY <1>1, <2>2, <3>2 DEF IInv, LateInv
  <2>3. ASSUME base'[r].ver > pull.ceil
        PROVE  /\ base'[Of(r)].seq > pull.ceil /\ staging'[Of(r)] = 0
               /\ creation[Of(r)] = NoRows
               /\ row[Of(r)] = Null \/ row[Of(r)] > pull.ceil
    <3>1. r \notin gone \cup carried /\ base[r].ver > pull.ceil
      BY <2>1, <2>3
    <3>2. /\ base[Of(r)].seq > pull.ceil /\ staging[Of(r)] = 0
          /\ creation[Of(r)] = NoRows
          /\ row[Of(r)] = Null \/ row[Of(r)] > pull.ceil
      BY <1>1, <3>1 DEF IInv, LateInv
    <3>3. Of(r) \notin gone
      BY <1>1, <1>5, <1>9, <3>1
    <3>4. Of(r) \notin carried
      BY <1>4, <3>2
    <3>5. base'[Of(r)] = base[Of(r)]
      BY <1>1, <1>5, <3>3, <3>4
    <3>6. staging'[Of(r)] = 0
      BY <1>1, <1>5, <3>2
    <3> QED
      BY <3>2, <3>5, <3>6
  <2> QED
    BY <2>2, <2>3
<1>16. ReadingInv'
  BY <1>1 DEF ReadingInv
\* Of the rows of this cascade that the server has.
<1>17. ASSUME NEW r \in Live \ excused', Of(r) = c, row[r] <= pull.ceil,
              row[r] <= cursor \/ r \notin pull'.lost
       PROVE  base'[r].ver = row[r]
  <2>0. r \in Rows /\ row[r] > 0
    BY DEF Live
  <2>1. r \notin gone
    BY <1>3, <1>17
  <2>2. CASE r \in carried
    BY <1>1, <1>4, <1>17, <2>0, <2>1, <2>2, IFacts
  <2>3. CASE r \notin carried
    <3>1. staging[r] = 0
      BY <1>5, <1>17, <2>0, <2>3 DEF Carried, Staged, carried
    <3>2. row[r] <= cursor
      <4>1. ~(pull.cur < row[r])
        BY <1>1, <1>17, <2>0, <3>1 DEF IInv, RebasingInv
      <4> QED
        BY <1>6, <2>0, <4>1, IFacts
    <3>3. base[r].ver = row[r]
      BY <1>6, <1>17, <3>2 DEF IInv, SettledInv, NothingMissed
    <3> QED
      BY <1>1, <2>0, <2>1, <2>3, <3>3
  <2> QED
    BY <2>2, <2>3
\* Of those that are gone.
<1>18. ASSUME NEW r \in Held' \ (excused' \cup pull'.lost), Of(r) = c, row[r] = Null
       PROVE  GoneAfter(r, pull.ceil)
  <2>0. r \in Rows /\ r \in Tree(c) /\ r \notin gone
    BY <1>5, <1>6, <1>7, <1>18
  <2>1. CASE r \in carried
    BY <1>4, <1>18, <2>1
  <2>2. CASE r \notin carried
    <3>1. r \in Held \ (excused \cup pull.lost) /\ base'[r] = base[r]
      BY <1>6, <1>7, <1>18, <2>0, <2>2
    <3>2. c \in Held /\ c \notin gone
      <4>1. c \in Held
        BY <1>18, <3>1 DEF IInv, BaseInv
      <4> QED
        BY <1>9, <2>0, <4>1
    <3>3. r \notin pull.tombs
      BY <1>8, <2>0, <3>2
    <3>4. GoneAfter(r, pull.ceil) \/ Full
      BY <1>1, <1>18, <3>1, <3>3 DEF IInv, RebasingInv
    <3> SUFFICES ASSUME Full PROVE GoneAfter(r, pull.ceil)
      BY <3>4
    <3>5. \A x \in {r, c} : x \in Held /\ ~Stale(x) => GoneAfter(r, pull.ceil)
      <4>1. \A x \in {r, c} : x \in Held /\ ~Stale(x) => base[x].seq > pull.ceil
        BY <1>5, <2>0, IFacts DEF Held, Stale
      <4> QED
        BY <1>1, <1>18, <2>0, <4>1 DEF IInv, LateInv
    <3>6. CASE c \in pending
      <4>1. r \notin left
        BY <1>1, <1>18, <3>6
      <4>2. ~Stale(r)
        BY <2>0, <2>2, <4>1
      <4> QED
        BY <3>1, <3>5, <4>2
    <3>7. CASE c \notin pending /\ c \notin Touched
      <4>1. ~Stale(c)
        BY <1>8, <3>2, <3>7
      <4> QED
        BY <3>2, <3>5, <4>1
    <3>8. CASE c \notin pending /\ c \in Touched
      <4>1. CASE r \in Quizzes
        <5>1. r \notin left
          BY <1>8, <2>0, <3>2, <3>8, <4>1
        <5>2. ~Stale(r)
          BY <2>0, <2>2, <5>1
        <5> QED
          BY <3>1, <3>5, <5>2
      <4>2. CASE r = c
        <5>1. pull.tombs = {}
          BY <1>1 DEF IInv, PullInv
        <5>2. PICK y \in Staged : Of(y) = c
          BY <3>8, <5>1 DEF Touched
        <5> QED
          BY <1>1, <1>18, <4>2, <5>2 DEF IInv, StagingInv
      <4> QED
        BY <1>5, <1>18, <2>0, <4>1, <4>2
    <3> QED
      BY <3>6, <3>7, <3>8
  <2> QED
    BY <2>1, <2>2
\* The other cascades are as they were.
<1>19. \A r \in Rows : Of(r) # c => base'[r] = base[r] /\ staging'[r] = staging[r]
  BY <1>1, <1>5
<1>20. RebasingInv'
  <2>1. \A r \in Staged' : Of(r) \in pull'.todo
    <3>1. \A r \in Staged : Of(r) \in pull.todo
      BY <1>1 DEF IInv, RebasingInv
    <3> QED
      BY <1>1, <1>13, <3>1 DEF Staged
  <2>2. ASSUME NEW r \in Live, row[r] <= pull.ceil
        PROVE  /\ Of(r) \in pull'.todo /\ pull.cur < row[r] => staging'[r] = row[r]
               /\ Of(r) \notin pull'.todo /\ r \notin excused' \cup pull'.lost =>
                    base'[r].ver = row[r]
    <3>0. r \in Rows
      BY DEF Live
    <3>1. CASE Of(r) = c
      BY <1>1, <1>17, <2>2, <3>1
    <3>2. CASE Of(r) # c
      <4>1. /\ Of(r) \in pull.todo /\ pull.cur < row[r] => staging[r] = row[r]
            /\ Of(r) \notin pull.todo /\ r \notin excused \cup pull.lost =>
                 base[r].ver = row[r]
        BY <1>1, <2>2 DEF IInv, RebasingInv
      <4> QED
        BY <1>1, <1>6, <1>19, <3>0, <3>2, <4>1
    <3> QED
      BY <3>1, <3>2
  <2>3. ASSUME NEW r \in Held' \ (excused' \cup pull'.lost), row[r] = Null
        PROVE  GoneAfter(r, pull.ceil) \/ (Of(r) \in pull'.todo /\ (Full \/ r \in pull.tombs))
    <3>0. r \in Rows
      BY <1>6
    <3>1. CASE Of(r) = c
      BY <1>18, <2>3, <3>1
    <3>2. CASE Of(r) # c
      <4>1. r \in Held \ (excused \cup pull.lost)
        BY <1>6, <1>19, <2>3, <3>0, <3>2 DEF Held
      <4>2. GoneAfter(r, pull.ceil) \/ (Of(r) \in pull.todo /\ (Full \/ r \in pull.tombs))
        BY <1>1, <2>3, <4>1 DEF IInv, RebasingInv
      <4> QED
        BY <1>1, <3>2, <4>2
    <3> QED
      BY <3>1, <3>2
  <2>4. Live' = Live /\ \A r \in Rows : GoneAfter(r, pull.ceil)' <=> GoneAfter(r, pull.ceil)
    BY <1>1, <1>2 DEF Live, GoneAfter
  <2> QED
    BY <1>1, <1>2, <1>6, <2>1, <2>2, <2>3, <2>4 DEF RebasingInv
<1>21. SettledInv'
  <2>1. ASSUME NEW r \in Live \ excused', row[r] <= cursor
        PROVE  base'[r].ver = row[r]
    <3>0. r \in Rows /\ row[r] <= pull.ceil
      BY <1>6, <2>1, IFacts DEF Live
    <3>1. CASE Of(r) = c
      BY <1>17, <2>1, <3>0, <3>1
    <3>2. CASE Of(r) # c
      BY <1>6, <1>19, <2>1, <3>0, <3>2 DEF IInv, SettledInv, NothingMissed
    <3> QED
      BY <3>1, <3>2
  <2>2. ASSUME NEW r \in Held' \ excused', row[r] = Null
        PROVE  GoneAfter(r, cursor)
    <3>0. r \in Rows
      BY <1>6
    <3>1. CASE r \in carried
      BY <1>4, <2>2, <3>1
    <3>2. CASE r \notin carried
      <4>1. r \in Held \ excused
        BY <1>6, <1>7, <2>2, <3>0, <3>2
      <4> QED
        BY <2>2, <4>1 DEF IInv, SettledInv
    <3> QED
      BY <3>1, <3>2
  <2> QED
    BY <1>1, <1>2, <2>1, <2>2 DEF SettledInv, NothingMissed, Live, GoneAfter
<1> QED
  BY <1>2, <1>10, <1>11, <1>12, <1>14, <1>15, <1>16, <1>20, <1>21 DEF IInv

-----------------------------------------------------------------------------
(* The theorems                                                            *)

LEMMA InitInv == Init => IInv
<1> SUFFICES ASSUME Init PROVE IInv
  OBVIOUS
<1>1. TypeOK
  BY InitTypes
<1>2. /\ sync_seq = 0 /\ floor = 0 /\ row = NoRows /\ tomb = NoRows /\ cursor = Null
      /\ base = [r \in Rows |-> Absent] /\ staging = NoRows /\ pull = NoPull
      /\ pending = {} /\ creation = [c \in Cascades |-> NoRows] /\ excused = {}
      /\ pull.stage = "idle" /\ pull.ceil = 0 /\ pull.sent = {} /\ ~Pulling
  BY DEF Init, NoPull, Pulling
<1>3. Live = {} /\ Held = {} /\ Staged = {}
  BY <1>2 DEF Live, Held, Staged, NoRows
<1>4. RowsInv /\ PullInv
  BY <1>2, <1>3 DEF RowsInv, PullInv, NoRows
<1>5. BaseInv
  BY <1>2, <1>3 DEF BaseInv, Absent
<1>6. CreationInv
  BY <1>2 DEF CreationInv, NoRows
<1>7. StagingInv /\ LateInv /\ ReadingInv /\ RebasingInv /\ SettledInv
  BY <1>2, <1>3
     DEF StagingInv, LateInv, ReadingInv, RebasingInv, SettledInv, NothingMissed, Pulling
<1> QED
  BY <1>1, <1>4, <1>5, <1>6, <1>7 DEF IInv

LEMMA StutterStep == IInv /\ UNCHANGED vars => IInv'
<1> SUFFICES ASSUME IInv, UNCHANGED vars PROVE IInv'
  OBVIOUS
<1>1. UNCHANGED <<server, base, cursor, staging, pull, pending, creation, excused>>
  BY DEF vars, client
<1>2. TypeOK'
  BY <1>1 DEF IInv, TypeOK, server
<1>3. /\ RowsInv' /\ Moves
      /\ sync_seq' = sync_seq /\ floor' = floor /\ row' = row /\ tomb' = tomb
  BY <1>1, ServerStays
<1>4. PullInv' /\ CreationInv' /\ StagingInv' /\ LateInv' /\ BaseInv'
  BY <1>1, <1>3
     DEF IInv, PullInv, CreationInv, StagingInv, LateInv, BaseInv, Held, Pulling, Full,
         Staged, GoneAfter
<1>5. ReadingInv' /\ RebasingInv' /\ SettledInv'
  BY <1>1, <1>3
     DEF IInv, ReadingInv, RebasingInv, SettledInv, NothingMissed, Passed, PassedTomb,
         Full, Live, Held, Staged, GoneAfter
<1> QED
  BY <1>2, <1>3, <1>4, <1>5 DEF IInv

LEMMA StepInv == IInv /\ [Next]_vars => IInv'
<1> SUFFICES ASSUME IInv, [Next]_vars PROVE IInv'
  OBVIOUS
<1>1. TypeOK'
  BY TypeStep DEF IInv
<1>2. CASE Write \/ CreateElsewhere
  BY <1>1, <1>2, WriteStep
<1>3. CASE Prune
  BY <1>1, <1>3, PruneStep
<1>4. ASSUME NEW c \in Creatable, Create(c) \/ StoreCreated(c) \/ LoseCreated(c)
      PROVE  IInv'
  BY <1>1, <1>4, CreateStep, StoreCreatedStep, LoseCreatedStep
<1>5. ASSUME NEW c \in Studied, Study(c) PROVE IInv'
  BY <1>1, <1>5, StudyStep
<1>6. CASE Sync \/ Resync
  <2>1. PICK cur \in {Null, cursor} : Request(cur) /\ pull.stage \in {"idle", "again"}
    BY <1>6 DEF Sync, Resync
  <2> QED
    BY <1>1, <2>1, RequestStep
<1>7. CASE TakeRefusal
  BY <1>1, <1>7, TakeRefusalStep
<1>8. CASE ReadTable
  BY <1>1, <1>8, ReadTableStep
<1>9. CASE BeginRebase
  BY <1>1, <1>9, BeginRebaseStep
<1>10. CASE EndRebase
  BY <1>1, <1>10, EndRebaseStep
<1>11. CASE Interrupt
  BY <1>1, <1>11, InterruptStep
<1>12. ASSUME NEW c \in Cascades, RebaseCascade(c) PROVE IInv'
  BY <1>1, <1>12, RebaseCascadeStep
<1>13. CASE UNCHANGED vars
  BY <1>13, StutterStep
<1> QED
  BY <1>2, <1>3, <1>4, <1>5, <1>6, <1>7, <1>8, <1>9, <1>10, <1>11, <1>12, <1>13 DEF Next

LEMMA AlwaysInv == Spec => []IInv
<1>1. Init => IInv
  BY InitInv
<1>2. IInv /\ [Next]_vars => IInv'
  BY StepInv
<1> QED
  BY <1>1, <1>2, PTL DEF Spec

\* The state is well-formed: above all no page takes more than PAGE_ROWS rows
\* (pull.rs) and no page token is past the server's sequence.
THEOREM TypeCorrect == Spec => []TypeOK
<1>1. IInv => TypeOK
  BY DEF IInv
<1> QED
  BY <1>1, AlwaysInv, PTL

\* Whatever other devices write between the statements of a page, and wherever
\* a pull is interrupted, what the cursor has passed is on the device as the
\* server has it (sync/pull.rs, rebase.ts), but for the rows of a race the
\* model names.
THEOREM NoRowMissed == Spec => []NothingMissed
<1>1. IInv => NothingMissed
  BY DEF IInv, SettledInv
<1> QED
  BY <1>1, AlwaysInv, PTL

\* A row the server has deleted is on the device only while its tombstone is to
\* come or the cursor is below the floor, however the purge task prunes
\* (purge.rs, sync/routes.rs).
THEOREM NoRowOutlivesItsDeletion == Spec => []NoZombies
<1>1. IInv => NoZombies
  <2> SUFFICES ASSUME IInv, NEW r \in Held \ excused, row[r] = Null
               PROVE  tomb[r] > cursor \/ Behind(cursor)
    BY DEF NoZombies
  <2>1. GoneAfter(r, cursor)
    BY DEF IInv, SettledInv
  <2>2. r \in Rows /\ tomb[r] # 0 => row[r] = Null
    BY DEF IInv, RowsInv
  <2>3. cursor = Null => tomb[r] > cursor
    <3>1. r \in Rows
      BY DEF Held
    <3> QED
      BY <3>1, IFacts
  <2> QED
    BY <2>1, <2>3, IFacts DEF GoneAfter, Behind
<1> QED
  BY <1>1, AlwaysInv, PTL

LEMMA CarriedStay ==
  ASSUME IInv, NEW c \in Cascades, RebaseCascade(c), NEW r \in Held \cap Live,
         base[r].ver = row[r]
  PROVE  base'[r] # Absent
<1>0. r \in Rows /\ row[r] > 0
  BY DEF Live
<1>1. /\ pull.stage = "rebasing" /\ c \in pull.todo /\ Pulling
      /\ Gone(c) \subseteq Tree(c)
      /\ \A x \in Carried(c) \ Gone(c) : base'[x] # Absent
      /\ \A x \in Rows : x \notin Gone(c) \cup Carried(c) => base'[x] = base[x]
  BY RebaseDoes
<1>2. r \notin Gone(c)
  <2> SUFFICES ASSUME r \in Gone(c) PROVE FALSE
    OBVIOUS
  <2>1. ~(row[r] <= pull.ceil)
    BY <1>1, GoneIsGone
  <2>2. Of(r) = c /\ c \in Rows
    BY <1>0, <1>1, RowFacts
  <2>3. base[r].ver > pull.ceil
    BY <1>0, <2>1, IFacts
  <2>4. base[c].seq > pull.ceil /\ base[r].seq > pull.ceil
    <3>1. base[c].seq > pull.ceil
      BY <1>0, <1>1, <2>2, <2>3 DEF IInv, LateInv
    <3>2. base[r].ver <= base[r].seq
      BY <1>0 DEF IInv, BaseInv
    <3> QED
      BY <1>0, <2>3, <3>1, <3>2, IFacts
  <2>5. ~Stale(c) /\ ~Stale(r)
    BY <1>0, <2>2, <2>4, IFacts DEF Stale
  <2>6. r \in pull.tombs \/ c \in pull.tombs
    BY <2>5 DEF Gone
  <2>7. row[c] > 0
    BY <2>2 DEF IInv, RowsInv, Live
  <2> QED
    BY <1>0, <1>1, <2>6, <2>7, IFacts DEF IInv, PullInv
<1>3. base[r] # Absent
  BY DEF Held
<1> QED
  BY <1>0, <1>1, <1>2, <1>3

\* What the device holds just as the server has it is never dropped: no full
\* pull takes a cascade created while it ran (rebase.ts, created.ts).
THEOREM NothingHeldIsDropped == Spec => HeldRowsStay
<1> DEFINE Stay == \A r \in (Held \cap Live) : base[r].ver = row[r] => base'[r] # Absent
<1>1. IInv /\ [Next]_vars => [Stay]_vars
  <2> SUFFICES ASSUME IInv, [Next]_vars PROVE Stay
    OBVIOUS
  <2>0. \A r \in Held : r \in Rows /\ base[r] # Absent
    BY DEF Held
  <2>1. CASE UNCHANGED base
    BY <2>0, <2>1
  <2>2. ASSUME NEW c \in Creatable, StoreCreated(c) PROVE Stay
    <3> SUFFICES ASSUME NEW r \in Held PROVE base'[r] # Absent
      OBVIOUS
    <3>1. CASE creation[c][r] # 0
      <4>1. base'[r] = [ver |-> creation[c][r], seq |-> creation[c][r]]
        BY <2>0, <2>2, <3>1 DEF StoreCreated
      <4> QED
        BY <3>1, <4>1 DEF Absent
    <3>2. CASE creation[c][r] = 0
      BY <2>0, <2>2, <3>2 DEF StoreCreated
    <3> QED
      BY <3>1, <3>2
  <2>3. CASE TakeRefusal
    <3> SUFFICES ASSUME NEW r \in Held PROVE base'[r] # Absent
      OBVIOUS
    <3>1. CASE staging[r] # 0 /\ Of(r) \in pull.sent
      <4>1. base'[r] = [ver |-> staging[r], seq |-> pull.ceil]
        BY <2>0, <2>3, <3>1 DEF TakeRefusal
      <4> QED
        BY <3>1, <4>1 DEF Absent
    <3>2. CASE ~(staging[r] # 0 /\ Of(r) \in pull.sent)
      BY <2>0, <2>3, <3>2 DEF TakeRefusal
    <3> QED
      BY <3>1, <3>2
  <2>4. ASSUME NEW c \in Cascades, RebaseCascade(c) PROVE Stay
    BY <2>4, CarriedStay
  <2>5. \/ UNCHANGED base \/ TakeRefusal
        \/ \E c \in Creatable : StoreCreated(c)
        \/ \E c \in Cascades : RebaseCascade(c)
    BY DEF Next, vars, client, Write, CreateElsewhere, Prune, Create, LoseCreated, Study, Sync,
           Resync, Request, ReadTable, BeginRebase, EndRebase, Interrupt
  <2> QED
    BY <2>1, <2>2, <2>3, <2>4, <2>5
<1> QED
  BY <1>1, AlwaysInv, PTL DEF Spec, HeldRowsStay


-----------------------------------------------------------------------------
(* A batch has a first operation.                                          *)

LEMMA OpsAreFinite == IsFiniteSet(Ops) /\ Ops \subseteq Nat /\ Ops \subseteq Int
<1>1. IsFiniteSet(1 .. MaxOps)
  BY FS_Interval, PushAssumption
<1> QED
  BY <1>1, PushAssumption DEF Ops

LEMMA MinIsFirst ==
  ASSUME NEW S \in SUBSET Ops, S # {}
  PROVE  Min(S) \in S /\ \A o \in S : Min(S) =< o
<1> DEFINE upTo(o) == {p \in S : p =< o}
           T       == {upTo(o) : o \in S}
<1>1. (\A o \in S : o \in Int) /\ IsFiniteSet(S)
  BY OpsAreFinite, FS_Subset
<1>2. IsWellFoundedOn(StrictSubsetOrdering(S), SUBSET S)
  BY <1>1, FS_StrictSubsetOrderingWellFounded, FS_FiniteSubsetsOfFinite
<1>3. T \subseteq SUBSET S /\ T # {}
  OBVIOUS
<1> HIDE DEF T
<1>4. PICK m \in T : \A n \in T : ~(<<n, m>> \in StrictSubsetOrdering(S))
  BY <1>2, <1>3, WFMin
<1>5. PICK x \in S : m = upTo(x)
  BY <1>4 DEF T
<1>6. ASSUME NEW y \in S PROVE x =< y
  <2>1. SUFFICES ASSUME y < x PROVE FALSE
    BY <1>1
  <2>0. \A p \in S : p =< y => p =< x
    BY <1>1, <2>1
  <2>2. upTo(y) \subseteq upTo(x) /\ x \in upTo(x) /\ x \notin upTo(y)
    BY <1>1, <2>0, <2>1
  <2>3. upTo(y) \in T /\ upTo(y) \in SUBSET S /\ m \in SUBSET S
    BY <1>5 DEF T
  <2> QED
    BY <1>4, <1>5, <2>2, <2>3 DEF StrictSubsetOrdering
<1> QED
  BY <1>6 DEF Min

\* A request holds the head of the outbox, and no gap.
LEMMA FirstEntriesAreFirst ==
  ASSUME outbox \in SUBSET Ops, outbox # {}
  PROVE  LET b == FirstEntries(BATCH_OPS) IN
         /\ b # {} /\ b \subseteq outbox
         /\ \A o \in outbox : \E p \in b : p =< o
         /\ \A p \in b, o \in outbox : o < p => o \in b
<1> DEFINE below(o) == {p \in outbox : p < o}
<1>1. IsFiniteSet(outbox) /\ \A o \in outbox : o \in Int
  BY OpsAreFinite, FS_Subset
<1>2. Min(outbox) \in outbox /\ \A o \in outbox : Min(outbox) =< o
  BY MinIsFirst
<1>3. below(Min(outbox)) = {}
  BY <1>1, <1>2
<1>4. Cardinality(below(Min(outbox))) = 0
  BY <1>3, FS_EmptySet
<1>5. Min(outbox) \in FirstEntries(BATCH_OPS)
  BY <1>2, <1>4, PushAssumption DEF FirstEntries
<1>6. ASSUME NEW p \in FirstEntries(BATCH_OPS), NEW o \in outbox, o < p
      PROVE  o \in FirstEntries(BATCH_OPS)
  <2>0. p \in outbox /\ \A x \in outbox : x < o => x < p
    BY <1>1, <1>6 DEF FirstEntries
  <2>1. below(o) \subseteq below(p) /\ below(p) \subseteq outbox
    BY <2>0
  <2>2. Cardinality(below(o)) =< Cardinality(below(p))
    BY <1>1, <2>1, FS_Subset
  <2>3. Cardinality(below(o)) \in Nat /\ Cardinality(below(p)) \in Nat
    BY <1>1, <2>1, FS_Subset, FS_CardinalityType
  <2>4. Cardinality(below(p)) < BATCH_OPS
    BY <1>6 DEF FirstEntries
  <2>5. Cardinality(below(o)) < BATCH_OPS
    BY <2>2, <2>3, <2>4, PushAssumption
  <2> QED
    BY <2>5 DEF FirstEntries
<1> QED
  BY <1>2, <1>5, <1>6 DEF FirstEntries

-----------------------------------------------------------------------------
(* Types                                                                   *)

LEMMA MadeAreOps ==
  PushTypeOK => /\ Made \subseteq Ops /\ Ops \subseteq Nat
            /\ next_device_seq \in Nat /\ next_device_seq \notin Made
            /\ \A o \in Made : o < next_device_seq
BY PushAssumption DEF PushTypeOK, Made, Ops

LEMMA PushType ==
  ASSUME PushTypeOK, NEW b \in SUBSET Ops, b # {}, NEW v \in [Ops -> Verdicts],
         Push(b, v)
  PROVE  /\ records' \in [Ops -> Verdicts \cup {"none"}]
         /\ acked_below' \in Nat
         /\ fate' \in [Ops -> Verdicts \cup {"none"}]
         /\ times' \in [Ops -> Nat]
<1>1. Min(b) \in Nat
  BY MinIsFirst, OpsAreFinite
<1>2. acked_below' \in Nat
  BY <1>1 DEF Push, NewMark, PushTypeOK
<1>3. \A o \in Ops : times[o] + 1 \in Nat
  BY DEF PushTypeOK
<1> QED
  BY <1>2, <1>3 DEF Push, PushTypeOK

LEMMA ResultType ==
  ASSUME PushTypeOK, NEW b \in SUBSET Ops, NEW v \in [Ops -> Verdicts]
  PROVE  [o \in b |-> Result(o, v)] \in [b -> Verdicts]
BY DEF Result, PushTypeOK, Verdicts

-----------------------------------------------------------------------------
(* The inductive invariant                                                 *)

Asked == stray \cup {cycle[t].batch : t \in {u \in Tabs : cycle[u] # Idle}}
Alive == outbox \cup UNION Asked

CursorMoves == {o \in Ops : kind[o] = "cursor"}

\* What the server may still be asked: each request began at the head of an
\* outbox that has since only grown at its end, and left out no operation that
\* a later one does not replace.
BatchesInv ==
  \A b \in Asked :
    /\ b # {} /\ b \subseteq Made
    /\ \A o \in outbox : \E p \in b : p =< o
    /\ \A p \in b, o \in outbox \ CursorMoves : o < p => o \in b

\* The mark only passes operations that were made.
MarkInv == acked_below =< next_device_seq

\* The records, the mark and the verdicts: an operation that may be asked again
\* is remembered, by its record or by the mark.
ServerInv ==
  /\ \A o \in Ops : fate[o] # "none" => o \in Made
  /\ \A o \in Ops : times[o] = IF fate[o] = "none" THEN 0 ELSE 1
  /\ \A o \in Ops : records[o] # "none" => records[o] = fate[o]
  /\ \A o \in Alive : fate[o] # "none" => ~Fresh(o)

\* An operation that no later one replaces is decided before any made after it.
OrderInv ==
  \A o \in Made \ Decided, p \in Decided : o \notin CursorMoves => p < o

\* A tab with an answer holds the verdict on each operation it still has.
AnswersInv ==
  \A t \in Tabs : cycle[t].stage = "answered" =>
    \A o \in cycle[t].batch \cap outbox :
      fate[o] # "none" /\ cycle[t].results[o] = fate[o]

PushInv ==
  /\ PushTypeOK
  /\ outbox \subseteq Made
  /\ BatchesInv
  /\ MarkBelowOutbox
  /\ MarkInv
  /\ ServerInv
  /\ NothingLost
  /\ OrderInv
  /\ AnswersInv

LEMMA AskingIsAsked ==
  ASSUME NEW t \in Tabs, cycle[t].stage \in {"sent", "answered"}
  PROVE  cycle[t].batch \in Asked
BY DEF Asked, Idle

-----------------------------------------------------------------------------
(* The shape of the state.                                                 *)

LEMMA ChangedRequest ==
  ASSUME NEW r \in Requests
  PROVE  /\ \A b \in SUBSET Ops :
              [r EXCEPT !.stage = "sent", !.batch = b] \in Requests
         /\ \A f \in UNION {[B -> Verdicts] : B \in SUBSET Ops} :
              [r EXCEPT !.stage = "answered", !.results = f] \in Requests
<1> DEFINE Stage   == {"idle", "sent", "answered"}
           Batch   == SUBSET Ops
           Results == UNION {[B -> Verdicts] : B \in SUBSET Ops}
<1>1. "sent" \in Stage /\ "answered" \in Stage
  OBVIOUS
<1>2. Requests = [stage : Stage, batch : Batch, results : Results]
  BY DEF Requests
<1> HIDE DEF Stage, Batch, Results
<1>3. r \in [stage : Stage, batch : Batch, results : Results]
  BY <1>2
<1>4. ASSUME NEW b \in Batch
      PROVE  [r EXCEPT !.stage = "sent", !.batch = b]
               \in [stage : Stage, batch : Batch, results : Results]
  BY <1>1, <1>3
<1>5. ASSUME NEW f \in Results
      PROVE  [r EXCEPT !.stage = "answered", !.results = f]
               \in [stage : Stage, batch : Batch, results : Results]
  BY <1>1, <1>3
<1> QED
  BY <1>2, <1>4, <1>5 DEF Batch, Results

LEMMA TypeInit == PushInit => PushTypeOK
<1>1. {o \in Ops : FALSE} = {} /\ [o \in {} |-> "none"] \in [{} -> Verdicts]
  OBVIOUS
<1>2. Idle \in Requests
  <2>1. {} \in SUBSET Ops
    OBVIOUS
  <2> QED
    BY <1>1, <2>1 DEF Idle, Requests
<1>3. 1 \in 1 .. MaxOps + 1
  BY PushAssumption
<1> QED
  BY <1>2, <1>3 DEF PushInit, PushTypeOK, Kinds, Verdicts

LEMMA PushTypeStep == PushTypeOK /\ BatchesInv /\ [PushNext]_pushVars => PushTypeOK'
<1> SUFFICES ASSUME PushTypeOK, BatchesInv, [PushNext]_pushVars PROVE PushTypeOK'
  OBVIOUS
<1>a. Idle \in Requests
  <2>1. {} \in SUBSET Ops /\ [o \in {} |-> "none"] \in [{} -> Verdicts]
    OBVIOUS
  <2> QED
    BY <2>1 DEF Idle, Requests
<1>1. ASSUME NEW k \in Kinds, Make(k) PROVE PushTypeOK'
  <2>1. next_device_seq' \in 1 .. MaxOps + 1
    BY <1>1, PushAssumption DEF Make, PushTypeOK, Ops
  <2> QED
    BY <1>1, <2>1 DEF Make, PushTypeOK, serverVars
<1>2. ASSUME NEW t \in Tabs, Send(t) PROVE PushTypeOK'
  <2> DEFINE b == FirstEntries(BATCH_OPS)
             r == [cycle[t] EXCEPT !.stage = "sent", !.batch = b]
  <2>1. b \in SUBSET Ops
    BY DEF FirstEntries, PushTypeOK
  <2>2. cycle' = [cycle EXCEPT ![t] = r]
    BY <1>2 DEF Send
  <2> HIDE DEF b
  <2>3. r \in Requests
    BY <2>1, ChangedRequest DEF PushTypeOK, r
  <2> HIDE DEF r
  <2>4. cycle' \in [Tabs -> Requests]
    BY <2>2, <2>3 DEF PushTypeOK
  <2> QED
    BY <1>2, <2>4 DEF Send, PushTypeOK, device, serverVars
<1>3. ASSUME NEW t \in Tabs, Serve(t) PROVE PushTypeOK'
  <2>1. PICK v \in [Ops -> Verdicts] :
          /\ Push(cycle[t].batch, v)
          /\ cycle' = [cycle EXCEPT ![t].stage = "answered",
                         ![t].results = [o \in cycle[t].batch |-> Result(o, v)]]
    BY <1>3 DEF Serve
  <2>2. cycle[t].batch \in SUBSET Ops /\ cycle[t].batch \in Asked /\ cycle[t].batch # {}
    BY <1>3, AskingIsAsked DEF Serve, PushTypeOK, Requests, BatchesInv
  <2> DEFINE f == [o \in cycle[t].batch |-> Result(o, v)]
             r == [cycle[t] EXCEPT !.stage = "answered", !.results = f]
  <2>3. f \in UNION {[B -> Verdicts] : B \in SUBSET Ops}
    BY <2>2, ResultType
  <2>4. cycle' = [cycle EXCEPT ![t] = r]
    BY <2>1
  <2> HIDE DEF f
  <2>5. r \in Requests
    BY <2>3, ChangedRequest DEF PushTypeOK, r
  <2> HIDE DEF r
  <2>6. cycle' \in [Tabs -> Requests]
    BY <2>4, <2>5 DEF PushTypeOK
  <2> QED
    BY <1>3, <2>1, <2>2, <2>6, PushType DEF Serve, PushTypeOK, device
<1>4. ASSUME NEW t \in Tabs, Receive(t) PROVE PushTypeOK'
  BY <1>a, <1>4 DEF Receive, Dropped, PushTypeOK, serverVars
<1>5. ASSUME NEW t \in Tabs, Abandon(t) PROVE PushTypeOK'
  <2>1. cycle[t].batch \in SUBSET Ops
    BY DEF PushTypeOK, Requests
  <2> QED
    BY <1>a, <1>5, <2>1 DEF Abandon, PushTypeOK, device, serverVars
<1>6. CASE ServeStray
  <2>1. PICK b \in stray, v \in [Ops -> Verdicts] : Push(b, v)
    BY <1>6 DEF ServeStray
  <2>2. b \in SUBSET Ops /\ b # {}
    BY DEF PushTypeOK, BatchesInv, Asked
  <2> QED
    BY <1>6, <2>1, <2>2, PushType DEF ServeStray, PushTypeOK, device
<1>7. ASSUME NEW o \in Ops, Expire(o) PROVE PushTypeOK'
  BY <1>7 DEF Expire, PushTypeOK, device
<1>8. CASE UNCHANGED pushVars
  BY <1>8 DEF pushVars, device, serverVars, PushTypeOK
<1> QED
  BY <1>1, <1>2, <1>3, <1>4, <1>5, <1>6, <1>7, <1>8 DEF PushNext

-----------------------------------------------------------------------------
(* The server's transaction, for whichever request it serves.              *)

LEMMA PushKeeps ==
  ASSUME PushInv, NEW b \in Asked, NEW v \in [Ops -> Verdicts], Push(b, v),
         UNCHANGED device, Asked' = Asked
  PROVE  /\ BatchesInv' /\ MarkBelowOutbox' /\ MarkInv'
         /\ ServerInv' /\ NothingLost' /\ OrderInv'
         /\ \A o \in outbox : fate[o] # "none" => fate'[o] = fate[o]
         /\ \A o \in b \cap outbox : fate'[o] # "none" /\ Result(o, v) = fate'[o]
<1> DEFINE new == {o \in b : Fresh(o)}
<1>1. /\ Made \subseteq Ops /\ b \in SUBSET Made /\ b \in SUBSET Ops /\ b # {}
      /\ \A o \in Ops : o \in Int
  BY MadeAreOps, OpsAreFinite DEF PushInv, BatchesInv
<1>2. /\ outbox' = outbox /\ kind' = kind /\ Made' = Made /\ CursorMoves' = CursorMoves
      /\ Alive' = Alive
  BY DEF device, Made, CursorMoves, Alive
<1>3. /\ acked_below' = NewMark(b)
      /\ \A o \in Ops :
           /\ records'[o] = IF o < NewMark(b) /\ kind[o] # "result" THEN "none"
                            ELSE IF o \in new THEN v[o] ELSE records[o]
           /\ fate'[o] = IF o \in new THEN v[o] ELSE fate[o]
           /\ times'[o] = IF o \in new THEN times[o] + 1 ELSE times[o]
  BY DEF Push
<1>4. Min(b) \in b /\ \A o \in b : Min(b) =< o
  BY <1>1, MinIsFirst
<1>5. /\ acked_below \in Int /\ Min(b) \in Int /\ acked_below' \in Int
      /\ acked_below =< acked_below' /\ acked_below' \in {acked_below, Min(b)}
  BY <1>1, <1>3, <1>4 DEF NewMark, PushInv, PushTypeOK
<1>6. \A o \in Ops : v[o] \in {"applied", "rejected"} /\ v[o] # "none"
  BY DEF Verdicts
\* What is decided now was not decided before.
<1>7. new \subseteq Ops /\ \A o \in new : fate[o] = "none" /\ times[o] = 0
  BY <1>1 DEF PushInv, ServerInv, Alive
<1> HIDE DEF new
<1>8. BatchesInv'
  BY <1>2 DEF PushInv, BatchesInv
<1>9. MarkBelowOutbox'
  <2>1. SUFFICES ASSUME NEW o \in outbox PROVE acked_below' =< o
    BY <1>2 DEF MarkBelowOutbox
  <2>2. acked_below =< o /\ o \in Int
    BY <1>1 DEF PushInv, PushTypeOK, MarkBelowOutbox
  <2>3. PICK p \in b : p =< o
    BY DEF PushInv, BatchesInv
  <2>4. Min(b) =< p /\ p \in Int
    BY <1>1, <1>4
  <2> QED
    BY <1>5, <2>2, <2>3, <2>4
<1>10. ServerInv'
  <2>1. \A o \in Ops : fate'[o] # "none" => o \in Made'
    BY <1>1, <1>2, <1>3 DEF new, PushInv, ServerInv
  <2>2. \A o \in Ops : times'[o] = IF fate'[o] = "none" THEN 0 ELSE 1
    BY <1>3, <1>6, <1>7 DEF PushInv, ServerInv
  <2>3. \A o \in Ops : records'[o] # "none" => records'[o] = fate'[o]
    BY <1>3 DEF PushInv, ServerInv
  <2>4. ASSUME NEW o \in Alive', fate'[o] # "none", Fresh(o)' PROVE FALSE
    <3>1. o \in Ops /\ o \in Alive
      BY <1>1, <1>2 DEF Alive, PushInv, PushTypeOK, BatchesInv
    <3>2. records'[o] = "none" /\ o >= acked_below'
      BY <2>4 DEF Fresh
    <3>3. o \in Int /\ ~(o < acked_below')
      BY <1>1, <1>5, <3>1, <3>2
    <3>4. o \notin new /\ records[o] = "none"
      BY <1>3, <1>6, <3>1, <3>2, <3>3
    <3>5. fate[o] # "none" /\ ~Fresh(o)
      BY <1>3, <2>4, <3>1, <3>4 DEF PushInv, ServerInv
    <3> QED
      BY <1>5, <3>3, <3>4, <3>5 DEF Fresh
  <2> QED
    BY <2>1, <2>2, <2>3, <2>4 DEF ServerInv
<1>11. NothingLost'
  BY <1>1, <1>2, <1>3, <1>6 DEF PushInv, NothingLost
\* An operation left undecided that no later one replaces is in the outbox;
\* a request for a later one would have held it, and decided it.
<1>12. OrderInv'
  <2>1. SUFFICES ASSUME NEW o \in Made' \ Decided', NEW p \in Decided', o \notin CursorMoves'
                 PROVE  p < o
    BY DEF OrderInv
  <2>2. o \in Made /\ p \in Made /\ o \in Ops /\ p \in Ops /\ kind[o] # "cursor"
    BY <1>1, <1>2, <2>1 DEF Decided, CursorMoves
  <2>3. fate'[o] = "none" /\ fate[o] = "none" /\ o \notin new
    BY <1>2, <1>3, <1>6, <2>1, <2>2 DEF Decided
  <2>4. CASE p \in Decided
    BY <1>2, <2>1, <2>2, <2>3, <2>4 DEF PushInv, OrderInv, Decided
  <2>5. CASE p \notin Decided
    <3>1. p \in new
      BY <1>2, <1>3, <2>1, <2>2, <2>5 DEF Decided
    <3>2. o \in outbox \ CursorMoves
      BY <1>2, <2>1, <2>2, <2>3 DEF PushInv, NothingLost
    <3>3. o < p => o \in b
      BY <3>1, <3>2 DEF new, PushInv, BatchesInv
    <3>4. records[o] = "none" /\ acked_below =< o
      BY <2>2, <2>3, <3>2 DEF PushInv, ServerInv, MarkBelowOutbox
    <3>5. Fresh(o)
      BY <1>1, <1>5, <2>2, <3>4 DEF Fresh
    <3>6. ~(o < p) /\ o # p
      BY <2>3, <3>1, <3>3, <3>5 DEF new
    <3> QED
      BY <1>1, <2>2, <3>6
  <2> QED
    BY <2>4, <2>5
<1>13. \A o \in outbox : fate[o] # "none" => fate'[o] = fate[o]
  BY <1>3, <1>7 DEF PushInv, PushTypeOK
<1>14. ASSUME NEW o \in b \cap outbox
       PROVE  fate'[o] # "none" /\ Result(o, v) = fate'[o]
  <2>1. o \in Ops /\ o \in Int /\ acked_below =< o
    BY <1>1 DEF PushInv, MarkBelowOutbox
  <2>2. CASE records[o] = "none"
    <3>1. Fresh(o) /\ o \in new
      BY <1>5, <2>1, <2>2 DEF Fresh, new
    <3> QED
      BY <1>3, <1>6, <2>1, <2>2, <3>1 DEF Result
  <2>3. CASE records[o] # "none"
    <3>1. o \notin new /\ records[o] = fate[o]
      BY <2>1, <2>3 DEF Fresh, new, PushInv, ServerInv
    <3> QED
      BY <1>3, <2>1, <2>3, <3>1 DEF Result
  <2> QED
    BY <2>2, <2>3
<1>15. MarkInv'
  <2>1. Min(b) =< next_device_seq
    BY <1>1, <1>4, MadeAreOps DEF PushInv
  <2> QED
    BY <1>5, <2>1 DEF MarkInv, PushInv, device
<1> QED
  BY <1>8, <1>9, <1>10, <1>11, <1>12, <1>13, <1>14, <1>15

-----------------------------------------------------------------------------
(* The invariant is inductive.                                             *)

LEMMA InvInit == PushInit => PushInv
<1> SUFFICES ASSUME PushInit PROVE PushInv
  OBVIOUS
<1>1. PushTypeOK
  BY TypeInit
<1>2. Made = {} /\ Asked = {} /\ outbox = {}
  BY DEF PushInit, Made, Asked
<1>3. \A o \in Ops : fate[o] = "none" /\ times[o] = 0 /\ records[o] = "none"
  BY DEF PushInit
<1>4. \A t \in Tabs : cycle[t].stage = "idle"
  BY DEF PushInit, Idle
<1>5. MarkInv
  BY DEF PushInit, MarkInv
<1> QED
  BY <1>1, <1>2, <1>3, <1>4, <1>5
     DEF PushInv, BatchesInv, MarkBelowOutbox, ServerInv, Alive, NothingLost,
         OrderInv, AnswersInv, Decided

LEMMA MakeKeeps ==
  ASSUME PushInv, PushTypeOK', NEW k \in Kinds, Make(k)
  PROVE  PushInv'
<1> DEFINE n == next_device_seq
<1>1. /\ Made \subseteq Ops /\ n \in Ops /\ n \notin Made
      /\ \A o \in Made : o < n
      /\ \A o \in Ops : o \in Int
  BY MadeAreOps, OpsAreFinite DEF PushInv, Make
<1>2. Made' = Made \cup {n}
  BY <1>1 DEF Make, Made, Ops
<1>3. outbox' \subseteq outbox \cup {n} /\ outbox \subseteq Made
  BY DEF Make, PushInv
<1>4. \A o \in Made : kind'[o] = kind[o] /\ (o \in CursorMoves' <=> o \in CursorMoves)
  BY <1>1 DEF Make, CursorMoves, PushInv, PushTypeOK
<1>5. /\ Asked' = Asked /\ Alive' \subseteq Alive \cup {n}
  BY <1>3 DEF Make, Asked, Alive
<1>6. UNCHANGED <<cycle, stray, records, acked_below, fate, times>>
  BY DEF Make, serverVars
<1>7. fate[n] = "none"
  BY <1>1 DEF PushInv, ServerInv
<1>8. Decided' = Decided
  BY <1>2, <1>6, <1>7 DEF Decided
<1>9. BatchesInv'
  <2>1. ASSUME NEW b \in Asked
        PROVE  /\ b # {} /\ b \subseteq Made'
               /\ \A o \in outbox' : \E p \in b : p =< o
               /\ \A p \in b, o \in outbox' \ CursorMoves' : o < p => o \in b
    <3>1. b # {} /\ b \subseteq Made /\ \A p \in b : p < n /\ p =< n /\ p \in Int
      BY <1>1 DEF PushInv, BatchesInv
    <3>2. \A o \in outbox : \E p \in b : p =< o
      BY DEF PushInv, BatchesInv
    <3>3. \A p \in b, o \in outbox \ CursorMoves : o < p => o \in b
      BY DEF PushInv, BatchesInv
    <3>4. \A p \in b : ~(n < p)
      BY <1>1, <3>1
    <3> QED
      BY <1>2, <1>3, <1>4, <3>1, <3>2, <3>3, <3>4
  <2> QED
    BY <1>5, <2>1 DEF BatchesInv
\* The mark only ever reached operations that were made.
<1>10. acked_below =< n
  BY DEF PushInv, MarkInv
<1>11. MarkBelowOutbox'
  BY <1>3, <1>6, <1>10 DEF PushInv, MarkBelowOutbox
<1>12. MarkInv'
  <2>1. acked_below' = acked_below /\ next_device_seq' = n + 1
    BY DEF Make, serverVars
  <2> QED
    BY <1>1, <1>10, <2>1 DEF MarkInv, PushInv, PushTypeOK
<1>13. ServerInv'
  BY <1>1, <1>2, <1>5, <1>6, <1>7 DEF PushInv, ServerInv, Fresh
\* Only a cursor move takes anything out, and only an earlier cursor move.
<1>14. NothingLost'
  <2>1. SUFFICES ASSUME NEW o \in Made' \ outbox', fate'[o] = "none"
                 PROVE  kind'[o] = "cursor" /\ \E p \in Made' : p > o /\ kind'[p] = "cursor"
    BY DEF NothingLost
  <2>2. o \in Made /\ n \in Made' /\ o < n /\ n > o
    BY <1>1, <1>2, <2>1 DEF Make
  <2>3. CASE o \in outbox
    <3>1. k = "cursor" /\ kind[o] = "cursor" /\ kind'[n] = k
      BY <1>1, <2>1, <2>3 DEF Make, PushInv, PushTypeOK
    <3> QED
      BY <1>4, <2>2, <3>1
  <2>4. CASE o \notin outbox
    <3>1. kind[o] = "cursor" /\ \E p \in Made : p > o /\ kind[p] = "cursor"
      BY <1>6, <2>1, <2>2, <2>4 DEF PushInv, NothingLost
    <3> QED
      BY <1>2, <1>4, <2>2, <3>1
  <2> QED
    BY <2>3, <2>4
<1>15. OrderInv'
  BY <1>1, <1>2, <1>4, <1>8 DEF PushInv, OrderInv, Decided
<1>16. AnswersInv'
  <2>1. SUFFICES ASSUME NEW t \in Tabs, cycle[t].stage = "answered",
                        NEW o \in cycle[t].batch \cap outbox'
                 PROVE  fate[o] # "none" /\ cycle[t].results[o] = fate[o]
    BY <1>6 DEF AnswersInv
  <2>2. o \in Made
    BY <2>1, AskingIsAsked DEF PushInv, BatchesInv
  <2>3. o \in outbox
    BY <1>1, <1>3, <2>1, <2>2
  <2> QED
    BY <2>1, <2>3 DEF PushInv, AnswersInv
<1> QED
  BY <1>2, <1>3, <1>9, <1>11, <1>12, <1>13, <1>14, <1>15, <1>16 DEF PushInv

LEMMA SendKeeps ==
  ASSUME PushInv, PushTypeOK', NEW t \in Tabs, Send(t)
  PROVE  PushInv'
<1> DEFINE b == FirstEntries(BATCH_OPS)
<1>1. /\ b # {} /\ b \subseteq outbox
      /\ \A o \in outbox : \E p \in b : p =< o
      /\ \A p \in b, o \in outbox : o < p => o \in b
  BY FirstEntriesAreFirst DEF Send, PushInv, PushTypeOK
<1> HIDE DEF b
<1>2. /\ UNCHANGED <<outbox, next_device_seq, kind, stray, records, acked_below, fate, times>>
      /\ cycle[t] = Idle
      /\ cycle' = [cycle EXCEPT ![t] = [Idle EXCEPT !.stage = "sent", !.batch = b]]
  BY DEF Send, device, serverVars, b
<1>3. cycle'[t].stage = "sent" /\ \A u \in Tabs \ {t} : cycle'[u] = cycle[u]
  BY <1>2 DEF Idle, PushInv, PushTypeOK
<1>4. cycle'[t].batch = b
  BY <1>2 DEF Idle, PushInv, PushTypeOK
<1>5. Asked' \subseteq Asked \cup {b}
  BY <1>2, <1>3, <1>4 DEF Asked
<1>6. Alive' \subseteq Alive
  BY <1>1, <1>2, <1>5 DEF Alive
<1>7. Made' = Made /\ CursorMoves' = CursorMoves /\ Decided' = Decided
  BY <1>2 DEF Made, CursorMoves, Decided
<1>8. BatchesInv'
  BY <1>1, <1>2, <1>5, <1>7 DEF PushInv, BatchesInv
<1>9. ServerInv'
  BY <1>2, <1>6, <1>7 DEF PushInv, ServerInv, Fresh
<1>10. AnswersInv'
  BY <1>2, <1>3 DEF PushInv, AnswersInv
<1> QED
  BY <1>2, <1>7, <1>8, <1>9, <1>10
     DEF PushInv, MarkBelowOutbox, MarkInv, NothingLost, OrderInv

LEMMA ServeKeeps ==
  ASSUME PushInv, PushTypeOK', NEW t \in Tabs, Serve(t)
  PROVE  PushInv'
<1> DEFINE b == cycle[t].batch
<1>1. b \in Asked /\ UNCHANGED device /\ stray' = stray
  BY AskingIsAsked DEF Serve
<1>2. PICK v \in [Ops -> Verdicts] :
        /\ Push(b, v)
        /\ cycle' = [cycle EXCEPT ![t].stage = "answered",
                                  ![t].results = [o \in b |-> Result(o, v)]]
  BY DEF Serve
<1>3. /\ \A u \in Tabs \ {t} : cycle'[u] = cycle[u]
      /\ cycle'[t] = [cycle[t] EXCEPT !.stage = "answered",
                                      !.results = [o \in b |-> Result(o, v)]]
  BY <1>2 DEF PushInv, PushTypeOK
<1>4. cycle[t] \in Requests
  BY DEF PushInv, PushTypeOK
<1>5. /\ cycle'[t].batch = b /\ cycle'[t].stage = "answered"
      /\ cycle'[t].results = [o \in b |-> Result(o, v)]
  BY <1>3, <1>4 DEF Requests
<1>6. Asked' = Asked
  <2>0. Idle.stage = "idle" /\ cycle[t].stage = "sent"
    BY DEF Idle, Serve
  <2>1. cycle'[t] # Idle /\ cycle[t] # Idle
    BY <1>5, <2>0
  <2>2. \A u \in Tabs : (cycle'[u] # Idle <=> cycle[u] # Idle) /\ cycle'[u].batch = cycle[u].batch
    BY <1>3, <1>5, <2>1
  <2> QED
    BY <1>1, <2>2 DEF Asked
<1>7. /\ BatchesInv' /\ MarkBelowOutbox' /\ MarkInv' /\ ServerInv' /\ NothingLost' /\ OrderInv'
      /\ \A o \in outbox : fate[o] # "none" => fate'[o] = fate[o]
      /\ \A o \in b \cap outbox : fate'[o] # "none" /\ Result(o, v) = fate'[o]
  BY <1>1, <1>2, <1>6, PushKeeps
<1>8. AnswersInv'
  <2>1. SUFFICES ASSUME NEW u \in Tabs, cycle'[u].stage = "answered",
                        NEW o \in cycle'[u].batch \cap outbox
                 PROVE  fate'[o] # "none" /\ cycle'[u].results[o] = fate'[o]
    BY <1>1 DEF AnswersInv, device
  <2>2. CASE u = t
    BY <1>5, <1>7, <2>1, <2>2
  <2>3. CASE u # t
    BY <1>3, <1>7, <2>1, <2>3 DEF PushInv, AnswersInv
  <2> QED
    BY <2>2, <2>3
<1> QED
  BY <1>1, <1>7, <1>8 DEF PushInv, device, Made

LEMMA ServeStrayKeeps ==
  ASSUME PushInv, PushTypeOK', ServeStray
  PROVE  PushInv'
<1>1. PICK b \in stray, v \in [Ops -> Verdicts] : Push(b, v)
  BY DEF ServeStray
<1>2. UNCHANGED device /\ cycle' = cycle /\ stray' = stray
  BY DEF ServeStray
<1>3. b \in Asked /\ Asked' = Asked
  BY <1>2 DEF Asked
<1>4. /\ BatchesInv' /\ MarkBelowOutbox' /\ MarkInv' /\ ServerInv' /\ NothingLost' /\ OrderInv'
      /\ \A o \in outbox : fate[o] # "none" => fate'[o] = fate[o]
  BY <1>1, <1>2, <1>3, PushKeeps
<1>5. AnswersInv'
  BY <1>2, <1>4 DEF PushInv, AnswersInv, device
<1> QED
  BY <1>2, <1>4, <1>5 DEF PushInv, device, Made

LEMMA LeaveKeeps ==
  ASSUME PushInv, PushTypeOK', NEW t \in Tabs, Receive(t) \/ Abandon(t)
  PROVE  PushInv'
<1>1. /\ UNCHANGED <<next_device_seq, kind, records, acked_below, fate, times>>
      /\ cycle' = [cycle EXCEPT ![t] = Idle] /\ cycle[t] # Idle
      /\ outbox' \subseteq outbox
      /\ stray' \in {stray, stray \cup {cycle[t].batch}}
  BY DEF Receive, Abandon, device, serverVars, Dropped, Idle
<1>2. cycle'[t].stage = "idle" /\ cycle'[t] = Idle /\ \A u \in Tabs \ {t} : cycle'[u] = cycle[u]
  BY <1>1 DEF Idle, PushInv, PushTypeOK
<1>3. Asked' \subseteq Asked
  BY <1>1, <1>2 DEF Asked
<1>4. Alive' \subseteq Alive
  BY <1>1, <1>3 DEF Alive
<1>5. Made' = Made /\ CursorMoves' = CursorMoves /\ Decided' = Decided
  BY <1>1 DEF Made, CursorMoves, Decided
<1>6. BatchesInv'
  BY <1>1, <1>3, <1>5 DEF PushInv, BatchesInv
<1>7. ServerInv'
  BY <1>1, <1>4, <1>5 DEF PushInv, ServerInv, Fresh
<1>8. AnswersInv'
  BY <1>1, <1>2 DEF PushInv, AnswersInv
\* An operation leaves the outbox with its verdict.
<1>9. \A o \in outbox \ outbox' : fate[o] # "none"
  BY DEF Receive, Abandon, Dropped, device, PushInv, AnswersInv
<1>10. NothingLost'
  BY <1>1, <1>5, <1>9 DEF PushInv, NothingLost
<1> QED
  BY <1>1, <1>5, <1>6, <1>7, <1>8, <1>10 DEF PushInv, MarkBelowOutbox, MarkInv, OrderInv

LEMMA ExpireKeeps ==
  ASSUME PushInv, PushTypeOK', NEW o \in Ops, Expire(o)
  PROVE  PushInv'
<1>1. /\ UNCHANGED <<outbox, next_device_seq, kind, cycle, stray, acked_below, fate, times>>
      /\ records' = [records EXCEPT ![o] = "none"]
  BY DEF Expire, device
<1>2. /\ Asked' = Asked /\ Alive' = Alive /\ Made' = Made
      /\ CursorMoves' = CursorMoves /\ Decided' = Decided
  BY <1>1 DEF Asked, Alive, Made, CursorMoves, Decided
<1>3. o \notin Alive
  BY DEF Expire, Alive, Asked
<1>4. ServerInv'
  BY <1>1, <1>2, <1>3 DEF PushInv, ServerInv, Fresh, PushTypeOK
<1> QED
  BY <1>1, <1>2, <1>4
     DEF PushInv, BatchesInv, MarkBelowOutbox, MarkInv, NothingLost, OrderInv, AnswersInv

LEMMA InvStep == PushInv /\ [PushNext]_pushVars => PushInv'
<1> SUFFICES ASSUME PushInv, [PushNext]_pushVars PROVE PushInv'
  OBVIOUS
<1>1. PushTypeOK'
  BY PushTypeStep DEF PushInv
<1>2. CASE UNCHANGED pushVars
  BY <1>1, <1>2
     DEF pushVars, device, serverVars, PushInv, BatchesInv, MarkBelowOutbox, MarkInv, ServerInv,
         NothingLost, OrderInv, AnswersInv, Made, Asked, Alive, CursorMoves, Decided, Fresh
<1>3. CASE PushNext
  BY <1>1, <1>3, MakeKeeps, SendKeeps, ServeKeeps, ServeStrayKeeps, LeaveKeeps,
     ExpireKeeps DEF PushNext
<1> QED
  BY <1>2, <1>3

THEOREM InvHolds == PushSpec => []PushInv
BY InvInit, InvStep, PTL DEF PushSpec

-----------------------------------------------------------------------------
(* What follows from it                                                    *)

\* The state keeps its types.
THEOREM PushTypeCorrect == PushSpec => []PushTypeOK
<1>1. PushInv => PushTypeOK
  BY DEF PushInv
<1> QED
  BY <1>1, InvHolds, PTL

\* The server decides no operation twice: not when a batch is resent, nor when
\* two tabs send it, nor when a stray arrives after its records were deleted
\* (the replay check of push_txn).
THEOREM NeverDecidedTwice == PushSpec => []DecidedAtMostOnce
<1>1. PushInv => DecidedAtMostOnce
  BY DEF PushInv, ServerInv, DecidedAtMostOnce
<1> QED
  BY <1>1, InvHolds, PTL

\* Nothing leaves the outbox undecided but a cursor move that a later one
\* replaces (applyLocally and the rebase's first step).
THEOREM NothingIsLost == PushSpec => []NothingLost
<1>1. PushInv => NothingLost
  BY DEF PushInv
<1> QED
  BY <1>1, InvHolds, PTL

\* The acknowledged mark stays at or below what is pending.
THEOREM MarkStaysBelow == PushSpec => []MarkBelowOutbox
<1>1. PushInv => MarkBelowOutbox
  BY DEF PushInv
<1> QED
  BY <1>1, InvHolds, PTL

\* An answer tells of each operation still pending what was decided on it.
THEOREM AnswersTellTheVerdict == PushSpec => []AnswersAreTrue
<1>1. PushInv => AnswersAreTrue
  BY DEF PushInv, AnswersInv, AnswersAreTrue
<1> QED
  BY <1>1, InvHolds, PTL

-----------------------------------------------------------------------------
(* The push implements OnceLog                                             *)

DecidedLog == [o \in Decided |-> fate[o]]

LEMMA LogInit == PushInit => Log!Init
BY DEF PushInit, Log!Init, Decided, Made

\* One request's transaction decides at once what it finds new.
LEMMA PushDecides ==
  ASSUME PushInv, PushInv', NEW b \in Asked, NEW v \in [Ops -> Verdicts], Push(b, v),
         UNCHANGED device
  PROVE  Log!Decide
<1> DEFINE new == {o \in b : Fresh(o)}
           m   == next_device_seq - 1
           w   == [o \in 1 .. m |-> v[o]]
<1>1. Made \subseteq Ops /\ b \subseteq Made /\ Made = 1 .. m
  BY MadeAreOps DEF PushInv, BatchesInv, Made
<1>2. \A o \in Ops : fate'[o] = IF o \in new THEN v[o] ELSE fate[o]
  BY DEF Push
<1>3. \A o \in new : fate[o] = "none"
  BY <1>1 DEF PushInv, ServerInv, Alive
<1>4. \A o \in Ops : v[o] \in {"applied", "rejected"} /\ v[o] # "none"
  BY DEF Verdicts
<1> HIDE DEF new
<1>5. Made' = Made /\ new \subseteq Made
  BY <1>1 DEF device, Made, new
<1>6. Decided' = Decided \cup new
  BY <1>1, <1>2, <1>4, <1>5 DEF Decided
<1>7. DecidedLog' = [o \in Decided \cup new |-> IF o \in new THEN w[o] ELSE DecidedLog[o]]
  BY <1>1, <1>2, <1>5, <1>6 DEF DecidedLog, Decided
<1>8. new \in SUBSET ((1 .. m) \ Decided) /\ w \in [1 .. m -> {"applied", "rejected"}]
  BY <1>1, <1>3, <1>4, <1>5 DEF Decided
<1>9. DOMAIN DecidedLog = Decided
  BY DEF DecidedLog
<1>10. \A o \in new \ {x \in Made : kind[x] = "cursor"}, p \in Decided : p < o
  BY <1>1, <1>3, <1>5 DEF PushInv, OrderInv, Decided, CursorMoves
<1>11. /\ next_device_seq' = next_device_seq
       /\ {o \in Made : kind[o] = "cursor"}' = {o \in Made : kind[o] = "cursor"}
  BY <1>5 DEF device
<1> HIDE DEF m, w
<1>12. \E B \in SUBSET ((1 .. m) \ Decided), u \in [1 .. m -> {"applied", "rejected"}] :
         /\ \A o \in B \ {x \in Made : kind[x] = "cursor"}, p \in Decided : p < o
         /\ DecidedLog' = [o \in Decided \cup B |-> IF o \in B THEN u[o] ELSE DecidedLog[o]]
  BY <1>7, <1>8, <1>10
<1> QED
  BY <1>9, <1>11, <1>12 DEF Log!Decide, Log!Decided, DecidedLog, m

LEMMA MakeMakes ==
  ASSUME PushInv, PushInv', NEW k \in Kinds, Make(k)
  PROVE  Log!Make
<1> DEFINE n == next_device_seq
           R == {o \in Made : kind[o] = "cursor"}
<1>1. n \in Nat /\ n \in Ops /\ n \notin Made /\ Made \subseteq Ops
  BY MadeAreOps DEF PushInv, Make
<1>2. Made' = Made \cup {n} /\ n' = n + 1
  BY <1>1 DEF Make, Made, Ops
<1>3. fate' = fate /\ fate[n] = "none"
  BY <1>1 DEF Make, serverVars, PushInv, ServerInv
<1>4. Decided' = Decided /\ DecidedLog' = DecidedLog
  BY <1>2, <1>3 DEF Decided, DecidedLog
<1>5. kind' = [kind EXCEPT ![n] = k]
  BY DEF Make
<1>6. R' \in {R, R \cup {n}}
  BY <1>1, <1>2, <1>5 DEF PushInv, PushTypeOK
<1>7. n' - 1 = (n - 1) + 1 /\ (n - 1) + 1 = n
  BY <1>1, <1>2
<1> QED
  BY <1>4, <1>6, <1>7 DEF Log!Make, DecidedLog

LEMMA LogStep == PushInv /\ PushInv' /\ [PushNext]_pushVars => [Log!Next]_(Log!lvars)
<1> SUFFICES ASSUME PushInv, PushInv', [PushNext]_pushVars PROVE [Log!Next]_(Log!lvars)
  OBVIOUS
<1>1. ASSUME NEW k \in Kinds, Make(k) PROVE Log!Next
  BY <1>1, MakeMakes DEF Log!Next
<1>2. ASSUME NEW t \in Tabs, Serve(t) PROVE Log!Next
  <2>1. PICK v \in [Ops -> Verdicts] : Push(cycle[t].batch, v)
    BY <1>2 DEF Serve
  <2>2. cycle[t].batch \in Asked /\ UNCHANGED device
    BY <1>2, AskingIsAsked DEF Serve
  <2> QED
    BY <2>1, <2>2, PushDecides DEF Log!Next
<1>3. CASE ServeStray
  <2>1. PICK b \in stray, v \in [Ops -> Verdicts] : Push(b, v)
    BY <1>3 DEF ServeStray
  <2>2. b \in Asked /\ UNCHANGED device
    BY <1>3 DEF ServeStray, Asked
  <2> QED
    BY <2>1, <2>2, PushDecides DEF Log!Next
<1>4. CASE UNCHANGED <<next_device_seq, kind, fate>>
  BY <1>4 DEF Log!lvars, Made, Decided
<1>5. ASSUME NEW t \in Tabs, Send(t) \/ Receive(t) \/ Abandon(t)
      PROVE  UNCHANGED <<next_device_seq, kind, fate>>
  BY <1>5 DEF Send, Receive, Abandon, device, serverVars
<1>6. ASSUME NEW o \in Ops, Expire(o)
      PROVE  UNCHANGED <<next_device_seq, kind, fate>>
  BY <1>6 DEF Expire, device
<1>7. UNCHANGED pushVars => UNCHANGED <<next_device_seq, kind, fate>>
  BY DEF pushVars, device, serverVars
<1> QED
  BY <1>1, <1>2, <1>3, <1>4, <1>5, <1>6, <1>7 DEF PushNext

\* Each operation is decided once, and those no later one replaces in the
\* order they were made.
THEOREM PushImplementsOnceLog == PushSpec => ImplementsOnceLog
<1>1. PushInit => Log!Init
  BY LogInit
<1>2. PushInv /\ PushInv' /\ [PushNext]_pushVars => [Log!Next]_(Log!lvars)
  BY LogStep
<1> QED
  BY <1>1, <1>2, InvHolds, PTL DEF PushSpec, Log!Spec, ImplementsOnceLog
=============================================================================
