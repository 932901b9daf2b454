----------------------------- MODULE SearchProofs -----------------------------
(***************************************************************************)
(* Theorems of Search, for every distribution, upload, pattern and tree: a *)
(* backtracking matcher finds a tile sequence exactly if it can be laid    *)
(* against the pattern, and a search of the index of an upload finds what  *)
(* its tree means, in the order it is asked.                               *)
(***************************************************************************)
EXTENDS Algorithms, SequenceTheorems, FiniteSetTheorems, FunctionTheorems,
        WellFoundedInduction, TLAPS

-----------------------------------------------------------------------------
(* Counting                                                                *)

\* Induction over the naturals for a set.
LEMMA NatsBySteps ==
  ASSUME NEW S, 0 \in S, \A n \in Nat : n \in S => n + 1 \in S
  PROVE  Nat \subseteq S
<1>1. SUFFICES ASSUME Nat \ S # {} PROVE FALSE
  OBVIOUS
<1>2. PICK x \in Nat \ S : \A y \in Nat \ S : <<y, x>> \notin OpToRel(<, Nat)
  BY <1>1, WFMin, NatLessThanWellFounded
<1>3. \A y \in Nat \ S : ~(y < x)
  BY <1>2 DEF OpToRel
<1>4. x # 0 /\ x - 1 \in Nat
  OBVIOUS
<1>5. x - 1 \in S
  BY <1>3, <1>4
<1> QED
  BY <1>4, <1>5

\* A part of a finite set.
LEMMA Part ==
  ASSUME NEW S, IsFiniteSet(S), NEW T, T \subseteq S
  PROVE  IsFiniteSet(T) /\ Cardinality(T) \in Nat /\ Cardinality(T) <= Cardinality(S)
BY FS_Subset, FS_CardinalityType

\* The numbers up to one are as many.
LEMMA UpTo ==
  ASSUME NEW n \in Nat
  PROVE  IsFiniteSet(1 .. n) /\ Cardinality(1 .. n) = n
<1>1. 1 \in Int /\ n \in Int
  OBVIOUS
<1>2. IsFiniteSet(1 .. n) /\ Cardinality(1 .. n) = IF 1 > n THEN 0 ELSE n - 1 + 1
  BY ONLY <1>1, FS_Interval
<1> QED
  BY <1>2

\* A part of an interval of numbers is finite.
LEMMA PartOfInterval ==
  ASSUME NEW n \in Nat, NEW T, T \subseteq 1 .. n
  PROVE  IsFiniteSet(T) /\ Cardinality(T) \in Nat /\ Cardinality(T) <= n
<1> DEFINE S == 1 .. n
<1>1. IsFiniteSet(S) /\ Cardinality(S) = n
  BY FS_Interval
<1> HIDE DEF S
<1>2. T \subseteq S
  BY DEF S
<1> QED
  BY <1>1, <1>2, Part

\* What an injection is, without the library's names.
LEMMA InjectionMeans ==
  ASSUME NEW S, NEW T, NEW f
  PROVE  f \in Injection(S, T) <=>
           f \in [S -> T] /\ \A x, y \in S : f[x] = f[y] => x = y
BY DEF Injection, IsInjective

\* A set with no more elements than another is injected into it.
LEMMA FewerInject ==
  ASSUME NEW S, NEW T, IsFiniteSet(S), IsFiniteSet(T), Cardinality(S) <= Cardinality(T)
  PROVE  \E f : f \in Injection(S, T)
<1>1. Cardinality(S) \in Nat /\ Cardinality(T) \in Nat
  BY FS_CardinalityType
<1>2. PICK b : b \in Bijection(1 .. Cardinality(S), S)
  BY FS_CardinalityType DEF ExistsBijection
<1>3. PICK c : c \in Bijection(1 .. Cardinality(T), T)
  BY FS_CardinalityType DEF ExistsBijection
<1>4. b \in [1 .. Cardinality(S) -> S] /\ \A x \in S : \E i \in 1 .. Cardinality(S) : b[i] = x
  BY <1>2 DEF Bijection, Surjection
<1>5. /\ c \in [1 .. Cardinality(T) -> T]
      /\ \A i, j \in 1 .. Cardinality(T) : c[i] = c[j] => i = j
  BY <1>3, InjectionMeans DEF Bijection
<1> DEFINE at == [x \in S |-> CHOOSE i \in 1 .. Cardinality(S) : b[i] = x]
           f == [x \in S |-> c[at[x]]]
<1>6. \A x \in S : at[x] \in 1 .. Cardinality(S) /\ b[at[x]] = x
  BY <1>4
<1> HIDE DEF at
<1>7. \A x \in S : at[x] \in 1 .. Cardinality(T)
  BY <1>1, <1>6
<1>8. f \in [S -> T] /\ \A x, y \in S : f[x] = f[y] => x = y
  BY <1>5, <1>6, <1>7
<1> HIDE DEF f
<1> QED
  BY <1>8, InjectionMeans

\* Each element of A has a place of its own in B, one of those of its colour.
Places(f, A, B, a, T) ==
  /\ f \in [A -> B]
  /\ \A x, y \in A : f[x] = f[y] => x = y
  /\ \A x \in A : f[x] \in T[a[x]]

\* If every colour has as many places as there are elements of it, and no two
\* colours share a place, each element finds a place of its own and its colour.
LEMMA Coloured ==
  ASSUME NEW A, NEW B, NEW D, IsFiniteSet(A), IsFiniteSet(B),
         NEW a \in [A -> D], NEW T \in [D -> SUBSET B],
         \A t, u \in D : t # u => T[t] \cap T[u] = {},
         \A t \in D : Cardinality({p \in A : a[p] = t}) <= Cardinality(T[t])
  PROVE  \E f : Places(f, A, B, a, T)
<1> DEFINE Of(t) == {p \in A : a[p] = t}
           g == [t \in D |-> CHOOSE f : f \in Injection(Of(t), T[t])]
           h == [p \in A |-> g[a[p]][p]]
<1>1. ASSUME NEW t \in D
      PROVE  g[t] \in [Of(t) -> T[t]] /\ \A x, y \in Of(t) : g[t][x] = g[t][y] => x = y
  <2>1. IsFiniteSet(Of(t)) /\ IsFiniteSet(T[t])
    BY FS_Subset
  <2>2. \E f : f \in Injection(Of(t), T[t])
    BY <2>1, FewerInject
  <2>3. g[t] \in Injection(Of(t), T[t])
    BY <2>2
  <2> HIDE DEF g, Of
  <2> QED
    BY <2>3, InjectionMeans
<1> HIDE DEF g
<1>2. ASSUME NEW p \in A PROVE h[p] \in T[a[p]]
  <2>1. a[p] \in D /\ p \in Of(a[p])
    OBVIOUS
  <2>2. g[a[p]] \in [Of(a[p]) -> T[a[p]]]
    BY <1>1, <2>1
  <2> HIDE DEF Of
  <2> QED
    BY <2>1, <2>2
<1>3. h \in [A -> B]
  BY <1>2
<1>4. ASSUME NEW x \in A, NEW y \in A, h[x] = h[y] PROVE x = y
  <2>1. a[x] = a[y]
    BY <1>2, <1>4
  <2> QED
    BY <1>1, <1>4, <2>1
<1>5. Places(h, A, B, a, T)
  BY <1>2, <1>3, <1>4 DEF Places
<1> QED
  BY <1>5

-----------------------------------------------------------------------------
(* Sets in a total order                                                   *)

\* A strict total order of a set.
Orders(R, S) ==
  /\ \A x \in S : <<x, x>> \notin R
  /\ \A x, y, z \in S : <<x, y>> \in R /\ <<y, z>> \in R => <<x, z>> \in R
  /\ \A x, y \in S : x # y => <<x, y>> \in R \/ <<y, x>> \in R

Under(R, S, x) == {y \in S : <<y, x>> \in R}

\* The elements before another are fewer, so that their number is a position.
LEMMA Positions ==
  ASSUME NEW S, IsFiniteSet(S), NEW R, Orders(R, S)
  PROVE  /\ Cardinality(S) \in Nat
         /\ \A x \in S : Cardinality(Under(R, S, x)) \in 0 .. Cardinality(S) - 1
         /\ \A x, y \in S : <<x, y>> \in R <=>
              Cardinality(Under(R, S, x)) < Cardinality(Under(R, S, y))
         /\ \A x, y \in S : Cardinality(Under(R, S, x)) = Cardinality(Under(R, S, y)) => x = y
         /\ \A i \in 1 .. Cardinality(S) : \E x \in S : Cardinality(Under(R, S, x)) = i - 1
<1> DEFINE n == Cardinality(S)
           c == [x \in S |-> Cardinality(Under(R, S, x))]
<1>1. n \in Nat
  BY FS_CardinalityType
<1>2. ASSUME NEW x \in S PROVE IsFiniteSet(Under(R, S, x)) /\ c[x] \in Nat
  BY FS_Subset, FS_CardinalityType DEF Under
<1>3. ASSUME NEW x \in S, NEW y \in S, <<x, y>> \in R PROVE c[x] < c[y]
  <2>1. Under(R, S, x) \subseteq Under(R, S, y)
    BY <1>3 DEF Under, Orders
  <2>2. x \in Under(R, S, y) /\ x \notin Under(R, S, x)
    BY <1>3 DEF Under, Orders
  <2>3. c[x] <= c[y] /\ c[x] # c[y]
    BY <1>2, <2>1, <2>2, FS_Subset
  <2> QED
    BY <1>2, <2>3
<1>4. ASSUME NEW x \in S PROVE c[x] \in 0 .. n - 1
  <2>1. Under(R, S, x) \in SUBSET S /\ Under(R, S, x) # S
    BY DEF Under, Orders
  <2>2. c[x] <= n /\ c[x] # n
    BY <2>1, FS_Subset
  <2> QED
    BY <1>1, <1>2, <2>2
<1> HIDE DEF c
<1>0. ASSUME NEW x \in S, NEW y \in S
      PROVE  (<<x, y>> \in R <=> c[x] < c[y]) /\ (c[x] = c[y] => x = y)
  <2>1. c[x] \in Nat /\ c[y] \in Nat
    BY <1>2
  <2>2. (<<x, y>> \in R => c[x] < c[y]) /\ (<<y, x>> \in R => c[y] < c[x])
    BY <1>3
  <2>3. x = y \/ <<x, y>> \in R \/ <<y, x>> \in R
    BY DEF Orders
  <2>4. x = y => c[x] = c[y] /\ <<x, y>> \notin R
    BY DEF Orders
  <2> QED
    BY <2>1, <2>2, <2>3, <2>4
<1>5. \A x, y \in S : <<x, y>> \in R <=> c[x] < c[y]
  BY <1>0
<1>6. \A x, y \in S : c[x] = c[y] => x = y
  BY <1>0
<1> DEFINE p == [x \in S |-> c[x] + 1]
<1>7. p \in [S -> 1 .. n] /\ \A x, y \in S : p[x] = p[y] => x = y
  BY <1>1, <1>4, <1>6
<1> HIDE DEF p
<1>8. p \in Injection(S, 1 .. n)
  BY <1>7, InjectionMeans
<1>9. IsFiniteSet(1 .. n) /\ Cardinality(1 .. n) = n
  BY <1>1, FS_Interval
<1>10. p \in Surjection(S, 1 .. n)
  <2> DEFINE N == 1 .. n
  <2>1. p \in Injection(S, N) /\ IsFiniteSet(N) /\ Cardinality(S) = Cardinality(N)
    BY <1>8, <1>9
  <2> HIDE DEF N, n
  <2>2. p \in Surjection(S, N)
    BY <2>1, FS_Injection
  <2> QED
    BY <2>2 DEF N
<1>11. \A i \in 1 .. n : \E x \in S : c[x] = i - 1
  <2>1. \A i \in 1 .. n : \E x \in S : p[x] = i
    BY <1>10 DEF Surjection
  <2> QED
    BY <1>1, <1>4, <2>1 DEF p
<1> QED
  BY <1>1, <1>4, <1>5, <1>6, <1>11 DEF c

\* A sequence that has at each position the element with so many before it.
LEMMA InOrderOnce ==
  ASSUME NEW S, IsFiniteSet(S), NEW R, Orders(R, S), NEW seq,
         DOMAIN seq = 1 .. Cardinality(S),
         \A i \in 1 .. Cardinality(S) :
            seq[i] \in S /\ Cardinality(Under(R, S, seq[i])) = i - 1
  PROVE  /\ \A i, j \in DOMAIN seq : seq[i] = seq[j] => i = j
         /\ \A i, j \in DOMAIN seq : i < j <=> <<seq[i], seq[j]>> \in R
         /\ \A x \in S : /\ Cardinality(Under(R, S, x)) + 1 \in DOMAIN seq
                         /\ seq[Cardinality(Under(R, S, x)) + 1] = x
<1>1. /\ Cardinality(S) \in Nat
      /\ \A x \in S : Cardinality(Under(R, S, x)) \in 0 .. Cardinality(S) - 1
      /\ \A x, y \in S : <<x, y>> \in R <=>
              Cardinality(Under(R, S, x)) < Cardinality(Under(R, S, y))
      /\ \A x, y \in S : Cardinality(Under(R, S, x)) = Cardinality(Under(R, S, y)) => x = y
  BY Positions
<1>2. \A i, j \in DOMAIN seq : seq[i] = seq[j] => i = j
  BY <1>1
<1>3. \A i, j \in DOMAIN seq : i < j <=> <<seq[i], seq[j]>> \in R
  BY <1>1
<1>4. ASSUME NEW x \in S
      PROVE  /\ Cardinality(Under(R, S, x)) + 1 \in DOMAIN seq
             /\ seq[Cardinality(Under(R, S, x)) + 1] = x
  <2> DEFINE k == Cardinality(Under(R, S, x)) + 1
  <2>1. k \in 1 .. Cardinality(S)
    BY <1>1
  <2>2. seq[k] \in S /\ Cardinality(Under(R, S, seq[k])) = Cardinality(Under(R, S, x))
    BY <1>1, <2>1
  <2> QED
    BY <1>1, <2>1, <2>2
<1> QED
  BY <1>2, <1>3, <1>4

-----------------------------------------------------------------------------
(* Functions defined step by step                                          *)

Walks(f, m, X, base, step) ==
  f \in [0 .. m -> X] /\ f[0] = base /\ \A k \in 1 .. m : f[k] = step[k][f[k - 1]]

\* There is a function that starts somewhere and takes given steps.
LEMMA StepByStep ==
  ASSUME NEW m \in Nat, NEW X, NEW base \in X, NEW step \in [1 .. m -> [X -> X]]
  PROVE  \E f : Walks(f, m, X, base, step)
<1> DEFINE Is(f, n) == /\ f \in [0 .. n -> X]
                       /\ f[0] = base
                       /\ \A k \in 1 .. n : f[k] = step[k][f[k - 1]]
           S == {n \in Nat : n <= m => \E f : Is(f, n)}
<1>1. 0 \in S
  <2>1. Is([k \in 0 .. 0 |-> base], 0)
    OBVIOUS
  <2> QED
    BY <2>1
<1>2. ASSUME NEW n \in Nat, n \in S PROVE n + 1 \in S
  <2> SUFFICES ASSUME n + 1 <= m PROVE \E g : Is(g, n + 1)
    OBVIOUS
  <2>1. PICK f : Is(f, n)
    BY <1>2
  <2> DEFINE last == step[n + 1][f[n]]
             g == [k \in 0 .. n + 1 |-> IF k = n + 1 THEN last ELSE f[k]]
  <2>2. last \in X
    BY <2>1
  <2>3. \A k \in 0 .. n : g[k] = f[k]
    OBVIOUS
  <2>4. g[n + 1] = last
    OBVIOUS
  <2>5. g \in [0 .. n + 1 -> X]
    BY <2>1, <2>2
  <2> HIDE DEF g
  <2>6. ASSUME NEW k \in 1 .. n + 1 PROVE g[k] = step[k][g[k - 1]]
    <3>1. CASE k = n + 1
      BY <3>1, <2>3, <2>4
    <3>2. CASE k \in 1 .. n
      BY <3>2, <2>1, <2>3
    <3> QED
      BY <3>1, <3>2
  <2>7. Is(g, n + 1)
    BY <2>1, <2>3, <2>5, <2>6
  <2> QED
    BY <2>7
<1>3. m \in S
  <2> HIDE DEF S
  <2> QED
    BY <1>1, <1>2, NatsBySteps
<1> QED
  BY <1>3 DEF Walks

-----------------------------------------------------------------------------
(* The backtracking searches                                               *)

Bags(D) == [D -> Nat]
Fitting(slots, r, k) == {t \in DOMAIN r : r[t] > 0 /\ t \in slots[k]}

\* The remainders a search may leave are reached slot by slot.
LeavesStepByStep(f, D, slots, rem) ==
  /\ \A k \in 0 .. Len(slots) : f[k] \subseteq Bags(D)
  /\ f[0] = {rem}
  /\ \A k \in 1 .. Len(slots) : f[k] =
       UNION {{Without(r, t, 1) : t \in Fitting(slots, r, k)} : r \in f[k - 1]}
  /\ Fills(slots, rem) <=> f[Len(slots)] # {}

\* The backtracking of Fills goes one slot at a time (pattern.rs assign).
LEMMA FillsStepByStep ==
  ASSUME NEW D, NEW slots, Len(slots) \in Nat, NEW rem \in Bags(D)
  PROVE  \E f : LeavesStepByStep(f, D, slots, rem)
<1> DEFINE m == Len(slots)
           X == SUBSET Bags(D)
           Step(k, P) == UNION {{Without(r, t, 1) : t \in Fitting(slots, r, k)} : r \in P}
           step == [k \in 1 .. m |-> [P \in X |-> Step(k, P)]]
<1>1. ASSUME NEW k \in 1 .. m, NEW P \in X PROVE Step(k, P) \in X /\ step[k][P] = Step(k, P)
  <2>1. ASSUME NEW r \in Bags(D), NEW t \in Fitting(slots, r, k)
        PROVE  Without(r, t, 1) \in Bags(D)
    BY DEF Without, Bags, Fitting
  <2> QED
    BY <2>1
<1>2. step \in [1 .. m -> [X -> X]]
  BY <1>1
<1>3. {rem} \in X
  OBVIOUS
<1> HIDE DEF step, X
<1>4. PICK f : Walks(f, m, X, {rem}, step)
  <2>1. m \in Nat
    OBVIOUS
  <2> HIDE DEF m
  <2> QED
    BY <1>2, <1>3, <2>1, StepByStep
<1>5. ASSUME NEW k \in 1 .. m PROVE f[k] = Step(k, f[k - 1])
  <2>1. k - 1 \in 0 .. m
    OBVIOUS
  <2> QED
    BY <1>1, <1>4, <2>1 DEF Walks
<1> DEFINE Is(g) == g = [k \in 0 .. m |-> IF k = 0 THEN {rem} ELSE Step(k, g[k - 1])]
<1>6. Is(f)
  <2>1. \A k \in 0 .. m : f[k] = IF k = 0 THEN {rem} ELSE Step(k, f[k - 1])
    BY <1>4, <1>5 DEF Walks
  <2> HIDE DEF Step
  <2> QED
    BY <1>4, <2>1 DEF Walks
<1> DEFINE after == CHOOSE g : Is(g)
<1>7. Is(after)
  <2> HIDE DEF Is
  <2> QED
    BY <1>6
<1>8. Fills(slots, rem) <=> after[m] # {}
  BY DEF Fills, Fitting
<1>9. ASSUME NEW k \in 0 .. m
      PROVE  after[k] = IF k = 0 THEN {rem} ELSE Step(k, after[k - 1])
  <2> HIDE DEF after, Step
  <2> QED
    BY <1>7
<1> HIDE DEF after
<1>10. after[0] = {rem} /\ \A k \in 1 .. m : after[k] = Step(k, after[k - 1])
  <2> HIDE DEF Step
  <2> QED
    BY <1>9
<1>11. \A k \in 0 .. m : after[k] \subseteq Bags(D)
  <2> DEFINE S == {k \in Nat : k <= m => after[k] \in X}
  <2>1. 0 \in S
    BY <1>3, <1>10
  <2>2. ASSUME NEW k \in Nat, k \in S PROVE k + 1 \in S
    <3>1. CASE k + 1 <= m
      <4> DEFINE j == k + 1
      <4>1. j \in 1 .. m /\ j - 1 = k /\ after[k] \in X
        BY <2>2, <3>1
      <4>2. after[j] \in X
        <5> HIDE DEF j, Step
        <5> QED
          BY <1>1, <1>10, <4>1
      <4> QED
        BY <4>2
    <3> QED
      BY <3>1
  <2> HIDE DEF S
  <2>3. Nat \subseteq S
    BY <2>1, <2>2, NatsBySteps
  <2> QED
    BY <2>3 DEF S, X
<1> QED
  BY <1>8, <1>10, <1>11 DEF LeavesStepByStep

\* How often a choice for the first slots takes a tile.
Times(h, k, t) == Cardinality({i \in 1 .. k : h[i] = t})

\* A tile is taken no less often by more slots.
LEMMA TimesFacts ==
  ASSUME NEW h, NEW k \in Nat, NEW t
  PROVE  /\ Times(h, k, t) \in Nat
         /\ Times(h, 0, t) = 0
         /\ \A m \in Nat : k <= m => Times(h, k, t) <= Times(h, m, t)
<1>1. Cardinality({i \in 1 .. k : h[i] = t}) \in Nat
  <2> DEFINE T == {i \in 1 .. k : h[i] = t}
  <2>1. T \subseteq 1 .. k
    OBVIOUS
  <2> HIDE DEF T
  <2>2. Cardinality(T) \in Nat
    BY <2>1, PartOfInterval
  <2> QED
    BY <2>2 DEF T
<1>2. {i \in 1 .. 0 : h[i] = t} = {}
  OBVIOUS
<1>3. ASSUME NEW m \in Nat, k <= m PROVE Times(h, k, t) <= Times(h, m, t)
  <2> DEFINE big == {i \in 1 .. m : h[i] = t}
             small == {i \in 1 .. k : h[i] = t}
  <2>1. big \subseteq 1 .. m
    OBVIOUS
  <2>2. small \subseteq big
    BY <1>3
  <2> HIDE DEF big, small
  <2>3. Cardinality(small) <= Cardinality(big)
    BY <2>1, <2>2, Part, PartOfInterval
  <2> QED
    BY <2>3 DEF Times, big, small
<1> QED
  BY <1>1, <1>2, <1>3, FS_EmptySet DEF Times

\* The next slot takes one tile more.
LEMMA TimesNext ==
  ASSUME NEW h, NEW g, NEW k \in Nat, NEW t, \A i \in 1 .. k : g[i] = h[i]
  PROVE  Times(g, k + 1, t) = Times(h, k, t) + (IF g[k + 1] = t THEN 1 ELSE 0)
<1> DEFINE A == {i \in 1 .. k : h[i] = t}
           B == {i \in 1 .. k + 1 : g[i] = t}
<1>1. IsFiniteSet(A) /\ Cardinality(A) \in Nat
  <2>1. A \subseteq 1 .. k
    OBVIOUS
  <2> HIDE DEF A
  <2> QED
    BY <2>1, PartOfInterval
<1>2. k + 1 \notin A
  OBVIOUS
<1>3. B = IF g[k + 1] = t THEN A \cup {k + 1} ELSE A
  OBVIOUS
<1> HIDE DEF A, B
<1>4. Cardinality(B) = Cardinality(A) + (IF g[k + 1] = t THEN 1 ELSE 0)
  BY <1>1, <1>2, <1>3, FS_AddElement
<1> QED
  BY <1>4 DEF Times, A, B

\* A choice of a tile for each of the first k slots that leaves r of rem.
Chooses(h, k, D, slots, rem, r) ==
  /\ h \in [1 .. k -> D]
  /\ \A i \in 1 .. k : h[i] \in slots[i]
  /\ \A t \in D : r[t] + Times(h, k, t) = rem[t]

\* Tiles for all slots, of which there are enough.
Suffices(h, D, slots, rem) ==
  /\ h \in [1 .. Len(slots) -> D]
  /\ \A i \in 1 .. Len(slots) : h[i] \in slots[i]
  /\ \A t \in D : Times(h, Len(slots), t) <= rem[t]

\* The slots can be filled exactly if tiles can be chosen for them of which
\* there are enough.
LEMMA FillsIff ==
  ASSUME NEW D, NEW slots, Len(slots) \in Nat, NEW rem \in Bags(D)
  PROVE  Fills(slots, rem) <=> \E h : Suffices(h, D, slots, rem)
<1> DEFINE m == Len(slots)
           Left(f, k) == UNION {{Without(r, t, 1) : t \in Fitting(slots, r, k)} : r \in f[k - 1]}
           Enough(h) == /\ h \in [1 .. m -> D]
                        /\ \A i \in 1 .. m : h[i] \in slots[i]
                        /\ \A t \in D : Times(h, m, t) <= rem[t]
<1>0. PICK f : LeavesStepByStep(f, D, slots, rem)
  BY FillsStepByStep
<1>1. /\ \A k \in 0 .. m : f[k] \subseteq Bags(D)
      /\ f[0] = {rem}
      /\ \A k \in 1 .. m : f[k] = Left(f, k)
      /\ Fills(slots, rem) <=> f[m] # {}
  BY <1>0 DEF LeavesStepByStep
<1>2. \A k \in 0 .. m : \A r \in f[k] : \E h : Chooses(h, k, D, slots, rem, r)
  <2> DEFINE S == {k \in Nat : k <= m => \A r \in f[k] : \E h : Chooses(h, k, D, slots, rem, r)}
  <2>1. 0 \in S
    <3>1. Chooses([i \in 1 .. 0 |-> 0], 0, D, slots, rem, rem)
      <4>1. \A t \in D : Times([i \in 1 .. 0 |-> 0], 0, t) = 0
        BY TimesFacts
      <4>2. \A t \in D : rem[t] \in Nat
        BY DEF Bags
      <4> QED
        BY <4>1, <4>2 DEF Chooses
    <3> QED
      BY <3>1, <1>1
  <2>2. ASSUME NEW k \in Nat, k \in S PROVE k + 1 \in S
    <3> SUFFICES ASSUME k + 1 <= m, NEW q \in f[k + 1]
                 PROVE  \E g : Chooses(g, k + 1, D, slots, rem, q)
      OBVIOUS
    <3>1. k + 1 \in 1 .. m /\ (k + 1) - 1 = k /\ k \in 0 .. m
      OBVIOUS
    <3>2. PICK r, t : r \in f[k] /\ t \in Fitting(slots, r, k + 1) /\ q = Without(r, t, 1)
      <4>1. f[k + 1] = Left(f, k + 1)
        BY <1>1, <3>1
      <4> QED
        BY <3>1, <4>1
    <3>3. PICK h : Chooses(h, k, D, slots, rem, r)
      BY <2>2, <3>1, <3>2
    <3>4. r \in Bags(D)
      BY <1>1, <3>1, <3>2
    <3>5. t \in D /\ t \in slots[k + 1] /\ q \in [D -> Int]
          /\ \A u \in D : q[u] = r[u] - (IF u = t THEN 1 ELSE 0)
      BY <3>2, <3>4 DEF Bags, Fitting, Without
    <3> DEFINE g == [i \in 1 .. k + 1 |-> IF i = k + 1 THEN t ELSE h[i]]
    <3>6. /\ g \in [1 .. k + 1 -> D] /\ g[k + 1] = t
          /\ \A i \in 1 .. k : g[i] = h[i]
      BY <3>3, <3>5 DEF Chooses
    <3> HIDE DEF g
    <3>7. ASSUME NEW u \in D
          PROVE  Times(g, k + 1, u) = Times(h, k, u) + (IF u = t THEN 1 ELSE 0)
      <4>1. k \in Nat /\ \A i \in 1 .. k : g[i] = h[i]
        BY <3>6
      <4>2. Times(g, k + 1, u) = Times(h, k, u) + (IF g[k + 1] = u THEN 1 ELSE 0)
        BY ONLY <4>1, TimesNext
      <4> QED
        BY <3>6, <4>2
    <3>8. ASSUME NEW u \in D PROVE q[u] + Times(g, k + 1, u) = rem[u]
      <4>1. r[u] \in Nat /\ Times(h, k, u) \in Nat /\ r[u] + Times(h, k, u) = rem[u]
        BY <3>3, <3>4, TimesFacts DEF Chooses, Bags
      <4> QED
        BY <3>5, <3>7, <4>1
    <3>9. \A i \in 1 .. k + 1 : g[i] \in slots[i]
      BY <3>3, <3>5, <3>6 DEF Chooses
    <3> QED
      BY <3>6, <3>8, <3>9 DEF Chooses
  <2> HIDE DEF S
  <2>3. Nat \subseteq S
    BY <2>1, <2>2, NatsBySteps
  <2> QED
    BY <2>3 DEF S
<1>3. ASSUME f[m] # {} PROVE \E h : Enough(h)
  <2>1. PICK r \in f[m] : TRUE
    BY <1>3
  <2>2. PICK h : Chooses(h, m, D, slots, rem, r)
    BY <1>2, <2>1
  <2>3. r \in Bags(D)
    BY <1>1, <2>1
  <2>4. \A t \in D : Times(h, m, t) <= rem[t]
    BY <2>2, <2>3, TimesFacts DEF Chooses, Bags
  <2> QED
    BY <2>2, <2>4 DEF Chooses
<1>4. ASSUME NEW h, Enough(h) PROVE f[m] # {}
  <2> DEFINE rest(k) == [t \in D |-> rem[t] - Times(h, k, t)]
             S == {k \in Nat : k <= m => rest(k) \in f[k]}
  <2>1. 0 \in S
    <3>1. rest(0) = rem
      BY TimesFacts DEF Bags
    <3> QED
      BY <3>1, <1>1
  <2>2. ASSUME NEW k \in Nat, k \in S PROVE k + 1 \in S
    <3> SUFFICES ASSUME k + 1 <= m PROVE rest(k + 1) \in f[k + 1]
      OBVIOUS
    <3>1. k + 1 \in 1 .. m /\ (k + 1) - 1 = k /\ rest(k) \in f[k]
      BY <2>2
    <3> DEFINE t == h[k + 1]
    <3>2. t \in D /\ t \in slots[k + 1]
      BY <1>4, <3>1
    <3>3. \A u \in D : /\ Times(h, k + 1, u) = Times(h, k, u) + (IF u = t THEN 1 ELSE 0)
                       /\ Times(h, k, u) \in Nat /\ rem[u] \in Nat
                       /\ Times(h, k + 1, u) <= rem[u]
      <4>1. \A u \in D : Times(h, k + 1, u) <= Times(h, m, u)
        BY <3>1, TimesFacts
      <4>2. \A u \in D : Times(h, m, u) \in Nat /\ Times(h, k + 1, u) \in Nat
        BY TimesFacts
      <4>3. \A u \in D : Times(h, k + 1, u) = Times(h, k, u) + (IF t = u THEN 1 ELSE 0)
        BY TimesNext
      <4>4. \A u \in D : Times(h, k, u) \in Nat /\ rem[u] \in Nat /\ Times(h, m, u) <= rem[u]
        BY <1>4, TimesFacts DEF Bags
      <4> HIDE DEF t, Enough
      <4> QED
        BY <4>1, <4>2, <4>3, <4>4
    <3>4. t \in Fitting(slots, rest(k), k + 1)
      BY <3>2, <3>3 DEF Fitting
    <3>5. Without(rest(k), t, 1) = rest(k + 1)
      BY <3>2, <3>3 DEF Without
    <3>6. f[k + 1] = Left(f, k + 1)
      BY <1>1, <3>1
    <3> HIDE DEF rest, t
    <3> QED
      BY <3>1, <3>4, <3>5, <3>6
  <2> HIDE DEF S
  <2>3. m \in S
    BY <2>1, <2>2, NatsBySteps
  <2> QED
    BY <2>3 DEF S
<1> QED
  BY <1>1, <1>3, <1>4 DEF Suffices

\* The sets of slots a placement may have used are reached tile by tile.
UsesStepByStep(f, left, slots) ==
  /\ f[0] = {{}}
  /\ \A k \in 1 .. Len(left) : f[k] =
       UNION {{u \cup {s} : s \in {x \in DOMAIN slots \ u : left[k] \in slots[x]}} :
                u \in f[k - 1]}
  /\ Placed(left, slots) <=> f[Len(left)] # {}

\* The backtracking of Placed goes one leftover tile at a time (pattern.rs place).
LEMMA PlacedStepByStep ==
  ASSUME NEW left, NEW slots, Len(left) \in Nat
  PROVE  \E f : UsesStepByStep(f, left, slots)
<1> DEFINE m == Len(left)
           X == SUBSET SUBSET DOMAIN slots
           Step(k, P) == UNION {{u \cup {s} : s \in {x \in DOMAIN slots \ u : left[k] \in slots[x]}} :
                                  u \in P}
           step == [k \in 1 .. m |-> [P \in X |-> Step(k, P)]]
<1>1. ASSUME NEW k \in 1 .. m, NEW P \in X PROVE Step(k, P) \in X /\ step[k][P] = Step(k, P)
  OBVIOUS
<1>2. step \in [1 .. m -> [X -> X]]
  BY <1>1
<1>3. {{}} \in X
  OBVIOUS
<1> HIDE DEF step, X
<1>4. PICK f : Walks(f, m, X, {{}}, step)
  <2>1. m \in Nat
    OBVIOUS
  <2> HIDE DEF m
  <2> QED
    BY <1>2, <1>3, <2>1, StepByStep
<1>5. ASSUME NEW k \in 1 .. m PROVE f[k] = Step(k, f[k - 1])
  <2>1. k - 1 \in 0 .. m
    OBVIOUS
  <2> HIDE DEF Step
  <2> QED
    BY <1>1, <1>4, <2>1 DEF Walks
<1> DEFINE Is(g) == g = [k \in 0 .. m |-> IF k = 0 THEN {{}} ELSE Step(k, g[k - 1])]
<1>6. Is(f)
  <2>1. \A k \in 0 .. m : f[k] = IF k = 0 THEN {{}} ELSE Step(k, f[k - 1])
    BY <1>4, <1>5 DEF Walks
  <2> HIDE DEF Step
  <2> QED
    BY <1>4, <2>1 DEF Walks
<1> DEFINE used == CHOOSE g : Is(g)
<1>7. Is(used)
  <2> HIDE DEF Is
  <2> QED
    BY <1>6
<1>8. Placed(left, slots) <=> used[m] # {}
  BY DEF Placed
<1>9. ASSUME NEW k \in 0 .. m
      PROVE  used[k] = IF k = 0 THEN {{}} ELSE Step(k, used[k - 1])
  <2> HIDE DEF used, Step
  <2> QED
    BY <1>7
<1> HIDE DEF used
<1>10. used[0] = {{}} /\ \A k \in 1 .. m : used[k] = Step(k, used[k - 1])
  <2> HIDE DEF Step
  <2> QED
    BY <1>9
<1> QED
  BY <1>8, <1>10 DEF UsesStepByStep

\* A slot of its own for each of the first k tiles.
Puts(g, k, left, slots) ==
  /\ g \in [1 .. k -> DOMAIN slots]
  /\ \A i, j \in 1 .. k : g[i] = g[j] => i = j
  /\ \A i \in 1 .. k : left[i] \in slots[g[i]]

\* The tiles can be placed exactly if there is an accepting slot for each.
LEMMA PlacedIff ==
  ASSUME NEW left, NEW slots, Len(left) \in Nat
  PROVE  Placed(left, slots) <=> \E g : Puts(g, Len(left), left, slots)
<1> DEFINE m == Len(left)
           Step(k, P) == UNION {{u \cup {s} : s \in {x \in DOMAIN slots \ u : left[k] \in slots[x]}} :
                                  u \in P}
           Image(g, k) == {g[i] : i \in 1 .. k}
<1>0. PICK f : UsesStepByStep(f, left, slots)
  BY PlacedStepByStep
<1>1. /\ f[0] = {{}}
      /\ \A k \in 1 .. m : f[k] = Step(k, f[k - 1])
      /\ Placed(left, slots) <=> f[m] # {}
  BY <1>0 DEF UsesStepByStep
<1>2. \A k \in 0 .. m : \A u \in f[k] : \E g : Puts(g, k, left, slots) /\ u = Image(g, k)
  <2> DEFINE S == {k \in Nat : k <= m =>
                     \A u \in f[k] : \E g : Puts(g, k, left, slots) /\ u = Image(g, k)}
  <2>1. 0 \in S
    <3>1. Puts([i \in 1 .. 0 |-> 0], 0, left, slots) /\ {} = Image([i \in 1 .. 0 |-> 0], 0)
      BY DEF Puts
    <3> QED
      BY <3>1, <1>1
  <2>2. ASSUME NEW k \in Nat, k \in S PROVE k + 1 \in S
    <3> SUFFICES ASSUME k + 1 <= m, NEW v \in f[k + 1]
                 PROVE  \E g : Puts(g, k + 1, left, slots) /\ v = Image(g, k + 1)
      OBVIOUS
    <3>1. k + 1 \in 1 .. m /\ (k + 1) - 1 = k /\ k \in 0 .. m
      OBVIOUS
    <3>2. PICK u, s : /\ u \in f[k] /\ s \in DOMAIN slots \ u
                      /\ left[k + 1] \in slots[s] /\ v = u \cup {s}
      <4>1. f[k + 1] = Step(k + 1, f[k])
        BY <1>1, <3>1
      <4> QED
        BY <4>1
    <3>3. PICK h : Puts(h, k, left, slots) /\ u = Image(h, k)
      BY <2>2, <3>1, <3>2
    <3> DEFINE g == [i \in 1 .. k + 1 |-> IF i = k + 1 THEN s ELSE h[i]]
    <3>4. /\ g \in [1 .. k + 1 -> DOMAIN slots] /\ g[k + 1] = s
          /\ \A i \in 1 .. k : g[i] = h[i] /\ g[i] # s
      BY <3>2, <3>3 DEF Puts
    <3> HIDE DEF g
    <3>5. \A i \in 1 .. k + 1 : i \in 1 .. k \/ i = k + 1
      OBVIOUS
    <3>6. \A i, j \in 1 .. k + 1 : g[i] = g[j] => i = j
      BY <3>3, <3>4, <3>5 DEF Puts
    <3>7. \A i \in 1 .. k + 1 : left[i] \in slots[g[i]]
      BY <3>2, <3>3, <3>4, <3>5 DEF Puts
    <3>8. v = Image(g, k + 1)
      BY <3>2, <3>3, <3>4, <3>5
    <3> QED
      BY <3>4, <3>6, <3>7, <3>8 DEF Puts
  <2> HIDE DEF S
  <2>3. Nat \subseteq S
    BY <2>1, <2>2, NatsBySteps
  <2> QED
    BY <2>3 DEF S
<1>3. ASSUME NEW g, Puts(g, m, left, slots) PROVE f[m] # {}
  <2> DEFINE S == {k \in Nat : k <= m => Image(g, k) \in f[k]}
  <2>1. 0 \in S
    BY <1>1
  <2>2. ASSUME NEW k \in Nat, k \in S PROVE k + 1 \in S
    <3> SUFFICES ASSUME k + 1 <= m PROVE Image(g, k + 1) \in f[k + 1]
      OBVIOUS
    <3>1. k + 1 \in 1 .. m /\ (k + 1) - 1 = k /\ Image(g, k) \in f[k]
      BY <2>2
    <3>2. g[k + 1] \in DOMAIN slots \ Image(g, k) /\ left[k + 1] \in slots[g[k + 1]]
      BY <1>3, <3>1 DEF Puts
    <3>3. Image(g, k + 1) = Image(g, k) \cup {g[k + 1]}
      <4>1. \A i : i \in 1 .. k + 1 <=> i \in 1 .. k \/ i = k + 1
        OBVIOUS
      <4> QED
        BY <4>1
    <3>4. f[k + 1] = Step(k + 1, f[k])
      BY <1>1, <3>1
    <3> HIDE DEF Image
    <3> QED
      BY <3>1, <3>2, <3>3, <3>4
  <2> HIDE DEF S
  <2>3. m \in S
    BY <2>1, <2>2, NatsBySteps
  <2> QED
    BY <2>3 DEF S
<1> QED
  BY <1>1, <1>2, <1>3

-----------------------------------------------------------------------------
(* The match in order                                                      *)

Reaches(d, pattern, tiles, k, P) ==
  IF pattern[k].tok = "star" THEN {j \in 0 .. Len(tiles) : \E i \in P : i <= j}
  ELSE {j \in 1 .. Len(tiles) : j - 1 \in P /\ Takes(d, pattern[k], tiles[j])}

\* The numbers of tiles that may have been reached, token by token.
ReachStepByStep(f, d, pattern, tiles) ==
  /\ f[0] = {0}
  /\ \A k \in 1 .. Len(pattern) : f[k] = Reaches(d, pattern, tiles, k, f[k - 1])
  /\ InOrder(d, pattern, tiles) <=> Len(tiles) \in f[Len(pattern)]

\* The match in order goes one token at a time (pattern.rs matches_in_order).
LEMMA InOrderStepByStep ==
  ASSUME NEW d, NEW pattern, NEW tiles, Len(pattern) \in Nat, Len(tiles) \in Nat
  PROVE  \E f : ReachStepByStep(f, d, pattern, tiles)
<1> DEFINE m == Len(pattern)
           X == SUBSET (0 .. Len(tiles))
           Step(k, P) == Reaches(d, pattern, tiles, k, P)
           step == [k \in 1 .. m |-> [P \in X |-> Step(k, P)]]
<1>1. ASSUME NEW k \in 1 .. m, NEW P \in X PROVE Step(k, P) \in X /\ step[k][P] = Step(k, P)
  BY DEF Reaches
<1>2. step \in [1 .. m -> [X -> X]]
  BY <1>1
<1>3. {0} \in X
  OBVIOUS
<1> HIDE DEF step, X
<1>4. PICK f : Walks(f, m, X, {0}, step)
  <2>1. m \in Nat
    OBVIOUS
  <2> HIDE DEF m
  <2> QED
    BY <1>2, <1>3, <2>1, StepByStep
<1>5. ASSUME NEW k \in 1 .. m PROVE f[k] = Step(k, f[k - 1])
  <2>1. k - 1 \in 0 .. m
    OBVIOUS
  <2> HIDE DEF Step
  <2> QED
    BY <1>1, <1>4, <2>1 DEF Walks
<1> DEFINE Is(g) == g = [k \in 0 .. m |-> IF k = 0 THEN {0}
                           ELSE IF pattern[k].tok = "star"
                                THEN {j \in 0 .. Len(tiles) : \E i \in g[k - 1] : i <= j}
                           ELSE {j \in 1 .. Len(tiles) :
                                   j - 1 \in g[k - 1] /\ Takes(d, pattern[k], tiles[j])}]
<1>6. Is(f)
  <2>1. \A k \in 0 .. m : f[k] = IF k = 0 THEN {0} ELSE Step(k, f[k - 1])
    BY <1>4, <1>5 DEF Walks
  <2>2. \A k \in 0 .. m : f[k] = IF k = 0 THEN {0}
                           ELSE IF pattern[k].tok = "star"
                                THEN {j \in 0 .. Len(tiles) : \E i \in f[k - 1] : i <= j}
                           ELSE {j \in 1 .. Len(tiles) :
                                   j - 1 \in f[k - 1] /\ Takes(d, pattern[k], tiles[j])}
    BY <2>1 DEF Reaches
  <2> QED
    BY <1>4, <2>2 DEF Walks
<1> DEFINE reach == CHOOSE g : Is(g)
<1>7. Is(reach)
  <2> HIDE DEF Is
  <2> QED
    BY <1>6
<1>8. InOrder(d, pattern, tiles) <=> Len(tiles) \in reach[m]
  BY DEF InOrder
<1>9. ASSUME NEW k \in 0 .. m
      PROVE  reach[k] = IF k = 0 THEN {0} ELSE Step(k, reach[k - 1])
  <2> HIDE DEF reach
  <2> QED
    BY <1>7 DEF Reaches
<1> HIDE DEF reach
<1>10. reach[0] = {0} /\ \A k \in 1 .. m : reach[k] = Step(k, reach[k - 1])
  <2> HIDE DEF Step
  <2> QED
    BY <1>9
<1> QED
  BY <1>8, <1>10 DEF ReachStepByStep

\* Cuts of the first tiles into stretches for the first k tokens.
Cuts(cut, k, d, pattern, tiles) ==
  /\ cut \in [0 .. k -> 0 .. Len(tiles)]
  /\ cut[0] = 0
  /\ \A i \in 1 .. k :
       IF pattern[i].tok = "star" THEN cut[i - 1] <= cut[i]
       ELSE cut[i] = cut[i - 1] + 1 /\ Takes(d, pattern[i], tiles[cut[i]])

\* The tokens match in order exactly if the tiles can be cut for them.
LEMMA InOrderIff ==
  ASSUME NEW d, NEW pattern, NEW tiles, Len(pattern) \in Nat, Len(tiles) \in Nat
  PROVE  InOrder(d, pattern, tiles) <=>
           \E cut : Cuts(cut, Len(pattern), d, pattern, tiles) /\ cut[Len(pattern)] = Len(tiles)
<1> DEFINE m == Len(pattern)
           Is(cut, k) == Cuts(cut, k, d, pattern, tiles)
<1>0. PICK f : ReachStepByStep(f, d, pattern, tiles)
  BY InOrderStepByStep
<1>1. /\ f[0] = {0}
      /\ \A k \in 1 .. m : f[k] = Reaches(d, pattern, tiles, k, f[k - 1])
      /\ InOrder(d, pattern, tiles) <=> Len(tiles) \in f[m]
  BY <1>0 DEF ReachStepByStep
<1>2. \A k \in 0 .. m : \A j \in f[k] : \E cut : Is(cut, k) /\ cut[k] = j
  <2> DEFINE S == {k \in Nat : k <= m => \A j \in f[k] : \E cut : Is(cut, k) /\ cut[k] = j}
  <2>1. 0 \in S
    <3>1. Is([i \in 0 .. 0 |-> 0], 0)
      BY DEF Cuts
    <3> QED
      BY <3>1, <1>1
  <2>2. ASSUME NEW k \in Nat, k \in S PROVE k + 1 \in S
    <3> SUFFICES ASSUME k + 1 <= m, NEW j \in f[k + 1]
                 PROVE  \E cut : Is(cut, k + 1) /\ cut[k + 1] = j
      OBVIOUS
    <3>1. k + 1 \in 1 .. m /\ (k + 1) - 1 = k /\ k \in 0 .. m
      OBVIOUS
    <3>2. j \in Reaches(d, pattern, tiles, k + 1, f[k])
      BY <1>1, <3>1
    <3>3. PICK i \in f[k] : /\ j \in 0 .. Len(tiles)
                            /\ IF pattern[k + 1].tok = "star" THEN i <= j
                               ELSE i = j - 1 /\ Takes(d, pattern[k + 1], tiles[j])
      BY <3>2 DEF Reaches
    <3>4. PICK c : Is(c, k) /\ c[k] = i
      BY <2>2, <3>1, <3>3
    <3> DEFINE cut == [x \in 0 .. k + 1 |-> IF x = k + 1 THEN j ELSE c[x]]
    <3>5. /\ cut \in [0 .. k + 1 -> 0 .. Len(tiles)] /\ cut[k + 1] = j
          /\ \A x \in 0 .. k : cut[x] = c[x]
      BY <3>3, <3>4 DEF Cuts
    <3>6. i \in Nat
      BY <3>4 DEF Cuts
    <3> HIDE DEF cut
    <3>7. ASSUME NEW x \in 1 .. k + 1
          PROVE  IF pattern[x].tok = "star" THEN cut[x - 1] <= cut[x]
                 ELSE cut[x] = cut[x - 1] + 1 /\ Takes(d, pattern[x], tiles[cut[x]])
      <4>1. CASE x = k + 1
        BY <4>1, <3>3, <3>4, <3>5, <3>6
      <4>2. CASE x \in 1 .. k
        <5>1. cut[x] = c[x] /\ cut[x - 1] = c[x - 1]
          BY <4>2, <3>5
        <5> QED
          BY <4>2, <5>1, <3>4 DEF Cuts
      <4> QED
        BY <4>1, <4>2
    <3>8. cut[0] = 0
      BY <3>4, <3>5 DEF Cuts
    <3> QED
      BY <3>5, <3>7, <3>8 DEF Cuts
  <2> HIDE DEF S
  <2>3. Nat \subseteq S
    BY <2>1, <2>2, NatsBySteps
  <2> QED
    BY <2>3 DEF S
<1>3. ASSUME NEW cut, Is(cut, m) PROVE cut[m] \in f[m]
  <2> DEFINE S == {k \in Nat : k <= m => cut[k] \in f[k]}
  <2>1. 0 \in S
    BY <1>1, <1>3 DEF Cuts
  <2>2. ASSUME NEW k \in Nat, k \in S PROVE k + 1 \in S
    <3> SUFFICES ASSUME k + 1 <= m PROVE cut[k + 1] \in f[k + 1]
      OBVIOUS
    <3>1. k + 1 \in 1 .. m /\ (k + 1) - 1 = k /\ cut[k] \in f[k]
      BY <2>2
    <3>2. /\ cut[k + 1] \in 0 .. Len(tiles) /\ cut[k] \in 0 .. Len(tiles)
          /\ IF pattern[k + 1].tok = "star" THEN cut[k] <= cut[k + 1]
             ELSE cut[k + 1] = cut[k] + 1 /\ Takes(d, pattern[k + 1], tiles[cut[k + 1]])
      BY <1>3, <3>1 DEF Cuts
    <3>3. cut[k + 1] \in Reaches(d, pattern, tiles, k + 1, f[k])
      BY <3>1, <3>2 DEF Reaches
    <3> QED
      BY <1>1, <3>1, <3>3
  <2> HIDE DEF S
  <2>3. m \in S
    BY <2>1, <2>2, NatsBySteps
  <2> QED
    BY <2>3 DEF S
<1>4. ASSUME Len(tiles) \in f[m] PROVE \E cut : Is(cut, m) /\ cut[m] = Len(tiles)
  BY <1>2, <1>4
<1> QED
  BY <1>1, <1>3, <1>4

-----------------------------------------------------------------------------
(* The patterns as bags                                                    *)

Wild(pattern)  == At(pattern, {"set", "any"})
Plain(pattern) == At(pattern, {"tile"})

\* The length of a function on the first n numbers.
LEMMA LenOf ==
  ASSUME NEW n \in Nat, NEW s, NEW X, s \in [1 .. n -> X]
  PROVE  Len(s) = n /\ s \in Seq(X)
OBVIOUS

\* An order in which each element of a set comes once.
Enumerates(w, S) ==
  /\ w \in [1 .. Cardinality(S) -> S]
  /\ \A i, j \in 1 .. Cardinality(S) : w[i] = w[j] => i = j
  /\ \A x \in S : \E i \in 1 .. Cardinality(S) : w[i] = x

\* A sequence whose places count what comes before holds each element once.
LEMMA Enumerated ==
  ASSUME NEW S, IsFiniteSet(S), NEW R, Orders(R, S), NEW seq,
         DOMAIN seq = 1 .. Cardinality(S), seq = [i \in 1 .. Cardinality(S) |-> seq[i]],
         \A i \in 1 .. Cardinality(S) :
            seq[i] \in S /\ Cardinality(Under(R, S, seq[i])) = i - 1
  PROVE  Enumerates(seq, S)
<1>1. /\ \A i, j \in DOMAIN seq : seq[i] = seq[j] => i = j
      /\ \A x \in S : /\ Cardinality(Under(R, S, x)) + 1 \in DOMAIN seq
                      /\ seq[Cardinality(Under(R, S, x)) + 1] = x
  BY InOrderOnce
<1> QED
  BY <1>1 DEF Enumerates

\* The slots of a bag are its wildcards, each once.
LEMMA SlotsAreWildcards ==
  ASSUME NEW d, IsFiniteSet(DOMAIN d), NEW pattern \in Seq(Tokens(DOMAIN d))
  PROVE  \E w : /\ Enumerates(w, Wild(pattern))
                /\ Len(PatternBag(d, pattern).slots) = Cardinality(Wild(pattern))
                /\ DOMAIN PatternBag(d, pattern).slots = 1 .. Cardinality(Wild(pattern))
                /\ \A k \in 1 .. Cardinality(Wild(pattern)) :
                     PatternBag(d, pattern).slots[k] = TilesFor(d, pattern[w[k]])
<1> DEFINE W == Wild(pattern)
           n == Cardinality(W)
           size(i) == Cardinality(TilesFor(d, pattern[i]))
           L(i, j) == \/ size(i) < size(j)
                      \/ size(i) = size(j) /\ i < j
           R == {p \in W \X W : L(p[1], p[2])}
           order == InSequence(W, L)
<1>1. W \subseteq 1 .. Len(pattern) /\ Len(pattern) \in Nat
  BY DEF Wild, At
<1>2. IsFiniteSet(W) /\ n \in Nat
  BY <1>1, PartOfInterval
<1>3. ASSUME NEW i \in W PROVE size(i) \in Nat /\ i \in Nat
  <2>1. pattern[i] \in Tokens(DOMAIN d)
    BY <1>1
  <2>2. TilesFor(d, pattern[i]) \subseteq DOMAIN d
    BY <2>1 DEF TilesFor, Tokens
  <2> QED
    BY <1>1, <2>2, Part
<1> HIDE DEF size
<1>4. Orders(R, W)
  BY <1>3 DEF Orders
<1>5. ASSUME NEW x \in W PROVE {y \in W : L(y, x)} = Under(R, W, x)
  BY DEF Under
<1>6. \A i \in 1 .. n : \E x \in W : Cardinality(Under(R, W, x)) = i - 1
  <2> HIDE DEF R, W
  <2> QED
    BY <1>2, <1>4, Positions
<1>7. \A i \in 1 .. n : \E x \in W : Cardinality({y \in W : L(y, x)}) = i - 1
  <2> HIDE DEF R, L
  <2> QED
    BY <1>5, <1>6
<1>8. order = [i \in 1 .. n |-> CHOOSE x \in W : Cardinality({y \in W : L(y, x)}) = i - 1]
  <2> HIDE DEF W
  <2> QED
    BY DEF InSequence
<1>9. ASSUME NEW i \in 1 .. n
      PROVE  order[i] \in W /\ Cardinality(Under(R, W, order[i])) = i - 1
  <2> HIDE DEF R, L, W, order
  <2>1. order[i] = CHOOSE x \in W : Cardinality({y \in W : L(y, x)}) = i - 1
    BY <1>8
  <2>2. order[i] \in W /\ Cardinality({y \in W : L(y, order[i])}) = i - 1
    BY <1>7, <2>1
  <2> QED
    BY <1>5, <2>2
<1>10. Enumerates(order, W)
  <2>1. DOMAIN order = 1 .. n /\ order = [i \in 1 .. n |-> order[i]]
    <3> HIDE DEF L, W
    <3> QED
      BY <1>8
  <2> HIDE DEF R, W, order
  <2> QED
    BY <1>2, <1>4, <1>9, <2>1, Enumerated
<1> DEFINE slots == PatternBag(d, pattern).slots
<1>11. slots = [k \in 1 .. n |-> TilesFor(d, pattern[order[k]])]
  BY <1>8 DEF PatternBag, Wild, size
<1>12. Len(slots) = n
  <2>1. slots \in [1 .. n -> {TilesFor(d, pattern[order[k]]) : k \in 1 .. n}]
    BY <1>11
  <2> HIDE DEF slots, n
  <2> QED
    BY <1>2, <2>1, LenOf
<1> QED
  BY <1>10, <1>11, <1>12

-----------------------------------------------------------------------------
(* Counting by functions                                                   *)

\* Sets with a one-to-one map onto each other have as many elements.
LEMMA SameCount ==
  ASSUME NEW S, NEW T, IsFiniteSet(S), NEW f, f \in [S -> T],
         \A x, y \in S : f[x] = f[y] => x = y,
         \A y \in T : \E x \in S : f[x] = y
  PROVE  IsFiniteSet(T) /\ Cardinality(T) = Cardinality(S)
<1>1. f \in Injection(S, T)
  BY InjectionMeans
<1>2. f \in Surjection(S, T)
  BY DEF Surjection
<1>3. ExistsBijection(S, T)
  BY <1>1, <1>2 DEF ExistsBijection, Bijection
<1> QED
  BY <1>3, FS_Bijection

\* A set mapped one-to-one into another has no more elements.
LEMMA NoMore ==
  ASSUME NEW S, NEW T, IsFiniteSet(T), NEW f, f \in [S -> T],
         \A x, y \in S : f[x] = f[y] => x = y
  PROVE  IsFiniteSet(S) /\ Cardinality(S) <= Cardinality(T)
<1>1. f \in Injection(S, T)
  BY InjectionMeans
<1> QED
  BY <1>1, FS_Injection

\* The image of a finite set is finite.
LEMMA ImageFinite ==
  ASSUME NEW S, IsFiniteSet(S), NEW f
  PROVE  IsFiniteSet({f[x] : x \in S})
<1> DEFINE T == {f[x] : x \in S}
           g == [x \in S |-> f[x]]
<1>1. g \in Surjection(S, T)
  BY DEF Surjection
<1> HIDE DEF g, T
<1>2. IsFiniteSet(T)
  BY <1>1, FS_Surjection
<1> QED
  BY <1>2 DEF T

Over(c, l) == IF c > l THEN c - l ELSE 0

\* The first n values of left are the tiles counted, without those of literals.
Remains(left, n, D, counts, literals) ==
  /\ n \in Nat
  /\ Len(left) = n
  /\ left \in [1 .. n -> D]
  /\ \A t \in D : Times(left, n, t) = Over(counts[t], literals[t])

\* The tiles left over are as many of each as the literals lack.
LEMMA LeftoverCounts ==
  ASSUME NEW D, IsFiniteSet(D), D \subseteq Nat, NEW bag, NEW counts \in [D -> Nat],
         bag.literals \in [D -> Nat]
  PROVE  \E n : Remains(Leftover(bag, counts), n, D, counts, bag.literals)
<1> DEFINE of == [t \in D |-> {t} \X (1 .. counts[t] - bag.literals[t])]
           copies == UNION {{t} \X (1 .. counts[t] - bag.literals[t]) : t \in DOMAIN counts}
           n == Cardinality(copies)
           L(x, y) == \/ x[1] < y[1]
                      \/ x[1] = y[1] /\ x[2] < y[2]
           R == {p \in copies \X copies : L(p[1], p[2])}
           order == InSequence(copies, L)
<1>0. \A t \in D : /\ counts[t] \in Nat /\ bag.literals[t] \in Nat
                  /\ counts[t] - bag.literals[t] \in Int
                  /\ Over(counts[t], bag.literals[t]) \in Nat
  <2> DEFINE lits == bag.literals
  <2>1. counts \in [D -> Nat] /\ lits \in [D -> Nat]
    OBVIOUS
  <2> HIDE DEF lits
  <2>2. \A t \in D : counts[t] \in Nat /\ lits[t] \in Nat
    BY ONLY <2>1
  <2>3. \A c, l \in Nat : c - l \in Int /\ Over(c, l) \in Nat
    BY ONLY DEF Over
  <2> QED
    BY ONLY <2>2, <2>3 DEF lits
<1>1. ASSUME NEW t \in D
      PROVE  IsFiniteSet(of[t]) /\ Cardinality(of[t]) = Over(counts[t], bag.literals[t])
  <2> DEFINE m == counts[t] - bag.literals[t]
  <2>1. m \in Int
    BY <1>0
  <2>2. /\ IsFiniteSet(1 .. m) /\ Cardinality(1 .. m) = Over(counts[t], bag.literals[t])
    <3> DEFINE T == 1 .. m
    <3>1. IsFiniteSet(T) /\ Cardinality(T) = IF 1 > m THEN 0 ELSE m - 1 + 1
      <4> HIDE DEF m
      <4>1. 1 \in Int /\ m \in Int
        BY <2>1
      <4> QED
        BY ONLY <4>1, FS_Interval
    <3> HIDE DEF T
    <3>2. Cardinality(T) = Over(counts[t], bag.literals[t])
      BY <2>1, <3>1 DEF Over
    <3> QED
      BY <3>1, <3>2 DEF T
  <2>3. IsFiniteSet({t}) /\ Cardinality({t}) = 1
    BY FS_Singleton
  <2> DEFINE A == {t}
             B == 1 .. m
  <2>4. Over(counts[t], bag.literals[t]) \in Nat
    BY <1>0
  <2>5. IsFiniteSet(A \X B) /\ Cardinality(A \X B) = Over(counts[t], bag.literals[t])
    <3>1. IsFiniteSet(A) /\ IsFiniteSet(B) /\ Cardinality(A) = 1
          /\ Cardinality(B) = Over(counts[t], bag.literals[t])
      BY <2>2, <2>3
    <3> HIDE DEF A, B
    <3>2. IsFiniteSet(A \X B) /\ Cardinality(A \X B) = Cardinality(A) * Cardinality(B)
      BY <3>1, FS_Product
    <3> QED
      BY <2>4, <3>1, <3>2
  <2> QED
    BY <2>5
<1>2. copies = UNION {of[t] : t \in D}
  OBVIOUS
<1>3. IsFiniteSet(copies) /\ n \in Nat
  <2> DEFINE parts == {of[t] : t \in D}
  <2>1. IsFiniteSet(parts)
    <3> HIDE DEF of
    <3> QED
      BY ImageFinite
  <2>2. \A T \in parts : IsFiniteSet(T)
    BY <1>1
  <2> HIDE DEF parts, of, copies
  <2>3. IsFiniteSet(UNION parts)
    BY <2>1, <2>2, FS_UNION
  <2> QED
    BY <1>2, <2>3, FS_CardinalityType DEF parts
<1>4. ASSUME NEW x \in copies PROVE /\ x = <<x[1], x[2]>> /\ x[1] \in D /\ x[1] \in Nat /\ x[2] \in Nat
                                    /\ x \in of[x[1]]
  <2>1. PICK t \in D : x \in {t} \X (1 .. counts[t] - bag.literals[t])
    OBVIOUS
  <2>2. counts[t] - bag.literals[t] \in Int
    BY <1>0
  <2> QED
    BY <2>1, <2>2
<1> HIDE DEF copies
<1>5. Orders(R, copies)
  <2>1. \A x, y \in copies : <<x, y>> \in R <=> L(x, y)
    OBVIOUS
  <2>2. \A x, y \in copies : x # y => x[1] # y[1] \/ x[2] # y[2]
    BY <1>4
  <2> HIDE DEF R
  <2>0. \A x \in copies : x[1] \in Nat /\ x[2] \in Nat
    BY <1>4
  <2>3. ASSUME NEW x \in copies, NEW y \in copies, x # y PROVE L(x, y) \/ L(y, x)
    BY <2>2, <2>3, <2>0
  <2>4. \A x \in copies : ~ L(x, x)
    BY <2>0
  <2>5. ASSUME NEW x \in copies, NEW y \in copies, NEW z \in copies, L(x, y), L(y, z)
        PROVE  L(x, z)
    BY <2>5, <2>0
  <2> HIDE DEF L
  <2> QED
    BY <2>1, <2>3, <2>4, <2>5 DEF Orders
<1>6. ASSUME NEW x \in copies PROVE {y \in copies : L(y, x)} = Under(R, copies, x)
  BY DEF Under
<1>7. \A i \in 1 .. n : \E x \in copies : Cardinality({y \in copies : L(y, x)}) = i - 1
  <2> HIDE DEF R, L
  <2>1. \A i \in 1 .. n : \E x \in copies : Cardinality(Under(R, copies, x)) = i - 1
    BY <1>3, <1>5, Positions
  <2> QED
    BY <1>6, <2>1
<1>8. order = [i \in 1 .. n |-> CHOOSE x \in copies : Cardinality({y \in copies : L(y, x)}) = i - 1]
  BY DEF InSequence
<1>9. ASSUME NEW i \in 1 .. n
      PROVE  order[i] \in copies /\ Cardinality(Under(R, copies, order[i])) = i - 1
  <2> HIDE DEF R, L, order
  <2>1. order[i] = CHOOSE x \in copies : Cardinality({y \in copies : L(y, x)}) = i - 1
    BY <1>8
  <2>2. order[i] \in copies /\ Cardinality({y \in copies : L(y, order[i])}) = i - 1
    BY <1>7, <2>1
  <2> QED
    BY <1>6, <2>2
<1>10. Enumerates(order, copies)
  <2>1. DOMAIN order = 1 .. n /\ order = [i \in 1 .. n |-> order[i]]
    <3> HIDE DEF L
    <3> QED
      BY <1>8
  <2> HIDE DEF R, order
  <2> QED
    BY <1>3, <1>5, <1>9, <2>1, Enumerated
<1> DEFINE left == Leftover(bag, counts)
<1>11. left = [k \in 1 .. n |-> order[k][1]]
  BY <1>8 DEF Leftover, copies
<1> HIDE DEF order, left
<1>12. left \in [1 .. n -> D]
  BY <1>4, <1>10, <1>11 DEF Enumerates
<1>13. Len(left) = n
  <2> HIDE DEF n
  <2> QED
    BY <1>3, <1>12, LenOf
<1>14. ASSUME NEW t \in D PROVE Times(left, n, t) = Over(counts[t], bag.literals[t])
  <2> DEFINE A == {i \in 1 .. n : left[i] = t}
             f == [i \in A |-> order[i]]
  <2>1. IsFiniteSet(A)
    <3>1. A \subseteq 1 .. n
      OBVIOUS
    <3> HIDE DEF A, n
    <3> QED
      BY <1>3, <3>1, PartOfInterval
  <2>2. f \in [A -> of[t]]
    <3>1. ASSUME NEW i \in A PROVE order[i] \in of[t]
      <4>1. order[i] \in copies /\ order[i][1] = t
        BY <1>10, <1>11 DEF Enumerates
      <4> QED
        BY <1>4, <4>1
    <3> QED
      BY <3>1
  <2>3. \A x, y \in A : f[x] = f[y] => x = y
    BY <1>10 DEF Enumerates
  <2>4. ASSUME NEW y \in of[t] PROVE \E x \in A : f[x] = y
    <3>1. y \in copies /\ y[1] = t
      BY <1>2
    <3>2. PICK i \in 1 .. n : order[i] = y
      BY <3>1, <1>10 DEF Enumerates
    <3>3. i \in A
      BY <3>1, <3>2, <1>11
    <3> QED
      BY <3>2, <3>3
  <2> HIDE DEF f, A, of
  <2>5. Cardinality(of[t]) = Cardinality(A)
    BY <2>1, <2>2, <2>3, <2>4, SameCount
  <2> QED
    BY <2>5, <1>1 DEF Times, A
<1>15. Remains(left, n, D, counts, bag.literals)
  BY <1>3, <1>12, <1>13, <1>14 DEF Remains
<1>16. left = Leftover(bag, counts)
  BY DEF left
<1> HIDE DEF n
<1> QED
  BY <1>15, <1>16

\* The parts of a set add up to it.
LEMMA TwoParts ==
  ASSUME NEW U, IsFiniteSet(U), NEW P, NEW W, U \subseteq P \cup W, P \cap W = {}
  PROVE  /\ Cardinality(U \cap P) \in Nat /\ Cardinality(U \cap W) \in Nat
         /\ Cardinality(U) = Cardinality(U \cap P) + Cardinality(U \cap W)
<1> DEFINE A == U \cap P
           B == U \cap W
<1>1. IsFiniteSet(A) /\ IsFiniteSet(B) /\ Cardinality(A) \in Nat /\ Cardinality(B) \in Nat
  BY Part
<1>2. A \cup B = U /\ A \cap B = {}
  OBVIOUS
<1> HIDE DEF A, B
<1>3. Cardinality(A \cup B) = Cardinality(A) + Cardinality(B) - Cardinality(A \cap B)
  BY <1>1, FS_Union
<1>4. Cardinality(A) + Cardinality(B) - Cardinality(A \cap B) = Cardinality(A) + Cardinality(B)
  BY <1>1, <1>2, FS_EmptySet
<1>5. Cardinality(U) = Cardinality(A) + Cardinality(B)
  BY <1>2, <1>3, <1>4
<1> QED
  BY <1>1, <1>5 DEF A, B

-----------------------------------------------------------------------------
(* The anagram matchers                                                    *)

\* The positions of a pattern that take one tile each.
Singles(pattern) == At(pattern, {"tile", "set", "any"})
Of(S, f, t) == {x \in S : f[x] = t}

\* What a pattern is as a bag: its tiles, its wildcards and its star.
LEMMA PatternFacts ==
  ASSUME NEW d, IsFiniteSet(DOMAIN d), NEW p \in Seq(Tokens(DOMAIN d))
  PROVE  /\ Singles(p) = Plain(p) \cup Wild(p) /\ Plain(p) \cap Wild(p) = {}
         /\ IsFiniteSet(Singles(p)) /\ IsFiniteSet(Plain(p)) /\ IsFiniteSet(Wild(p))
         /\ Cardinality(Plain(p)) \in Nat /\ Cardinality(Wild(p)) \in Nat
         /\ Cardinality(Singles(p)) = Cardinality(Plain(p)) + Cardinality(Wild(p))
         /\ PatternBag(d, p).total = Cardinality(Plain(p))
         /\ PatternBag(d, p).star <=> At(p, {"star"}) # {}
         /\ \A i \in Plain(p) : /\ p[i].tile \in DOMAIN d
                                /\ \A t : Takes(d, p[i], t) <=> p[i].tile = t
         /\ \A i \in Wild(p) : \A t \in DOMAIN d : Takes(d, p[i], t) <=> t \in TilesFor(d, p[i])
<1> DEFINE A == Singles(p)
           P == Plain(p)
           W == Wild(p)
<1>1. A = P \cup W /\ P \cap W = {}
  BY DEF Singles, Plain, Wild, At
<1>2. A \subseteq 1 .. Len(p) /\ Len(p) \in Nat /\ P \subseteq 1 .. Len(p) /\ W \subseteq 1 .. Len(p)
  BY DEF Singles, Plain, Wild, At
<1>3. \A i \in 1 .. Len(p) : p[i] \in Tokens(DOMAIN d)
  OBVIOUS
<1>4. ASSUME NEW i \in P
      PROVE  p[i].tile \in DOMAIN d /\ \A t : Takes(d, p[i], t) <=> p[i].tile = t
  <2>1. p[i] \in Tokens(DOMAIN d) /\ p[i].tok = "tile"
    BY <1>2, <1>3 DEF Plain, At
  <2> QED
    BY <2>1 DEF Takes, Tokens
<1>5. ASSUME NEW i \in W, NEW t \in DOMAIN d
      PROVE  Takes(d, p[i], t) <=> t \in TilesFor(d, p[i])
  <2>1. p[i] \in Tokens(DOMAIN d) /\ p[i].tok \in {"set", "any"}
    BY <1>2, <1>3 DEF Wild, At
  <2> QED
    BY <2>1 DEF Takes, Tokens, TilesFor
<1>6. PatternBag(d, p).total = Cardinality(P) /\ (PatternBag(d, p).star <=> At(p, {"star"}) # {})
  BY Zenon DEF PatternBag, Plain
<1> HIDE DEF A, P, W
<1>7. IsFiniteSet(A) /\ IsFiniteSet(P) /\ IsFiniteSet(W) /\ Cardinality(P) \in Nat /\ Cardinality(W) \in Nat
  BY <1>2, PartOfInterval
<1>8. Cardinality(A) = Cardinality(P) + Cardinality(W)
  <2>1. A \cap P = P /\ A \cap W = W
    BY <1>1
  <2>2. Cardinality(A) = Cardinality(A \cap P) + Cardinality(A \cap W)
    <3>1. A \subseteq P \cup W /\ P \cap W = {} /\ IsFiniteSet(A)
      BY <1>1, <1>7
    <3> QED
      BY <3>1, TwoParts
  <2> QED
    BY <2>1, <2>2
<1> QED
  BY <1>1, <1>4, <1>5, <1>6, <1>7, <1>8 DEF A, P, W

\* How often a pattern names a tile.
LEMMA LiteralFacts ==
  ASSUME NEW d, IsFiniteSet(DOMAIN d), NEW p \in Seq(Tokens(DOMAIN d))
  PROVE  /\ PatternBag(d, p).literals \in [DOMAIN d -> Nat]
         /\ \A t \in DOMAIN d : PatternBag(d, p).literals[t] =
                                  Cardinality({i \in Plain(p) : p[i].tile = t})
<1> DEFINE lits == [t \in DOMAIN d |-> Cardinality({i \in Plain(p) : p[i].tile = t})]
<1>1. PatternBag(d, p).literals = lits
  BY Zenon DEF PatternBag, Plain
<1>2. ASSUME NEW t \in DOMAIN d PROVE Cardinality({i \in Plain(p) : p[i].tile = t}) \in Nat
  <2> DEFINE T == {i \in Plain(p) : p[i].tile = t}
  <2>1. T \subseteq Plain(p)
    OBVIOUS
  <2> HIDE DEF T
  <2> QED
    BY <2>1, PatternFacts, Part DEF T
<1> QED
  BY <1>1, <1>2

\* The counts of an entry.
LEMMA CountFacts ==
  ASSUME NEW d, NEW tiles \in Seq(DOMAIN d)
  PROVE  /\ Counts(d, tiles) \in [DOMAIN d -> Nat]
         /\ \A t \in DOMAIN d : Counts(d, tiles)[t] = Cardinality(Of(DOMAIN tiles, tiles, t))
         /\ IsFiniteSet(DOMAIN tiles) /\ Cardinality(DOMAIN tiles) = Len(tiles)
<1>1. DOMAIN tiles = 1 .. Len(tiles) /\ Len(tiles) \in Nat
  OBVIOUS
<1>2. \A t \in DOMAIN d : Counts(d, tiles)[t] = Cardinality(Of(DOMAIN tiles, tiles, t))
  BY DEF Counts, Occurrences, Of
<1>3. ASSUME NEW t \in DOMAIN d PROVE Cardinality(Of(DOMAIN tiles, tiles, t)) \in Nat
  <2>1. Of(DOMAIN tiles, tiles, t) \subseteq 1 .. Len(tiles)
    BY <1>1 DEF Of
  <2> QED
    BY <1>1, <2>1, PartOfInterval
<1>4. Counts(d, tiles) \in [DOMAIN d -> Nat]
  BY <1>2, <1>3 DEF Counts
<1>5. IsFiniteSet(1 .. Len(tiles)) /\ Cardinality(1 .. Len(tiles)) = Len(tiles)
  <2> DEFINE n == Len(tiles)
  <2>1. n \in Nat
    OBVIOUS
  <2> HIDE DEF n
  <2>2. IsFiniteSet(1 .. n) /\ Cardinality(1 .. n) = n
    BY <2>1, FS_Interval
  <2> QED
    BY <2>2 DEF n
<1> QED
  BY <1>1, <1>2, <1>4, <1>5

\* An anagram pattern takes some tiles: each of its single tokens one of its own.
AnagramLays(d, p, tiles) ==
  /\ At(p, {"star"}) # {} \/ Cardinality(Singles(p)) = Len(tiles)
  /\ \E f \in Injection(Singles(p), DOMAIN tiles) :
       \A i \in Singles(p) : Takes(d, p[i], tiles[f[i]])

\* What the matcher of an anagram computes, with its slots as wildcards.
LEMMA AnagramMeans ==
  ASSUME NEW d, IsFiniteSet(DOMAIN d), NEW p \in Seq(Tokens(DOMAIN d)),
         NEW counts \in [DOMAIN d -> Nat], NEW len \in Nat
  PROVE  \E w : /\ Enumerates(w, Wild(p))
                /\ Anagram(PatternBag(d, p), counts, len) <=>
                     /\ IF At(p, {"star"}) # {} THEN len >= Cardinality(Singles(p))
                                               ELSE len = Cardinality(Singles(p))
                     /\ \A t \in DOMAIN d :
                          Cardinality({i \in Plain(p) : p[i].tile = t}) <= counts[t]
                     /\ \E h \in [1 .. Cardinality(Wild(p)) -> DOMAIN d] :
                          /\ \A k \in 1 .. Cardinality(Wild(p)) : h[k] \in TilesFor(d, p[w[k]])
                          /\ \A t \in DOMAIN d :
                               Cardinality({i \in Plain(p) : p[i].tile = t})
                                 + Times(h, Cardinality(Wild(p)), t) <= counts[t]
<1> DEFINE D == DOMAIN d
           bag == PatternBag(d, p)
           m == Cardinality(Wild(p))
           lits == [t \in D |-> Cardinality({i \in Plain(p) : p[i].tile = t})]
           rem == [t \in D |-> counts[t] - bag.literals[t]]
           Enough(h) == /\ \A k \in 1 .. m : h[k] \in bag.slots[k]
                        /\ \A t \in D : Times(h, m, t) <= rem[t]
<1>1. PICK w : /\ Enumerates(w, Wild(p))
               /\ Len(bag.slots) = m
               /\ DOMAIN bag.slots = 1 .. m
               /\ \A k \in 1 .. m : bag.slots[k] = TilesFor(d, p[w[k]])
  BY SlotsAreWildcards
<1>2. m \in Nat /\ bag.total + m = Cardinality(Singles(p)) /\ (bag.star <=> At(p, {"star"}) # {})
  BY PatternFacts
<1>3. bag.literals \in [D -> Nat] /\ \A t \in D : bag.literals[t] = lits[t]
  BY LiteralFacts
<1>4. Anagram(bag, counts, len) <=>
        /\ IF bag.star THEN len >= bag.total + Len(bag.slots) ELSE len = bag.total + Len(bag.slots)
        /\ \A t \in D : rem[t] >= 0
        /\ Fills(bag.slots, rem)
  <2> HIDE DEF bag
  <2> QED
    BY DEF Anagram
<1> HIDE DEF bag
<1>0. \A t \in D : lits[t] \in Nat /\ counts[t] \in Nat /\ rem[t] = counts[t] - lits[t]
  <2> HIDE DEF lits
  <2> QED
    BY <1>3
<1>5. (\A t \in D : rem[t] >= 0) <=> \A t \in D : lits[t] <= counts[t]
  <2> HIDE DEF lits, rem
  <2> QED
    BY <1>0
<1>6. ASSUME \A t \in D : lits[t] <= counts[t]
      PROVE  Fills(bag.slots, rem) <=> \E h \in [1 .. m -> D] : Enough(h)
  <2>1. \A t \in D : rem[t] \in Nat
    <3> HIDE DEF lits, rem
    <3> QED
      BY <1>0, <1>6
  <2>2. rem \in Bags(D)
    BY <2>1 DEF Bags
  <2> DEFINE slots == bag.slots
  <2>3. Len(slots) \in Nat
    BY <1>1, <1>2
  <2> HIDE DEF rem, D, slots
  <2>4. Fills(slots, rem) <=> \E h : Suffices(h, D, slots, rem)
    BY <2>2, <2>3, FillsIff
  <2>5. \A h : Suffices(h, D, slots, rem) <=> h \in [1 .. m -> D] /\ Enough(h)
    BY <1>1 DEF Suffices, slots
  <2> HIDE DEF Enough
  <2> QED
    BY <2>4, <2>5 DEF slots
<1>7. ASSUME NEW h \in [1 .. m -> D]
      PROVE  Enough(h) <=> /\ \A k \in 1 .. m : h[k] \in TilesFor(d, p[w[k]])
                           /\ \A t \in D : lits[t] + Times(h, m, t) <= counts[t]
  <2>1. \A t \in D : Times(h, m, t) \in Nat
    BY <1>2, TimesFacts
  <2>2. \A t \in D : Times(h, m, t) <= rem[t] <=> lits[t] + Times(h, m, t) <= counts[t]
    <3> HIDE DEF lits
    <3> QED
      BY <1>3, <2>1
  <2> QED
    BY <1>1, <2>2
<1> QED
  <2> DEFINE size == IF At(p, {"star"}) # {} THEN len >= Cardinality(Singles(p))
                     ELSE len = Cardinality(Singles(p))
  <2>1. Anagram(bag, counts, len) <=>
          size /\ (\A t \in D : lits[t] <= counts[t]) /\ \E h \in [1 .. m -> D] : Enough(h)
    <3>1. size <=> IF bag.star THEN len >= bag.total + Len(bag.slots)
                   ELSE len = bag.total + Len(bag.slots)
      BY <1>1, <1>2
    <3> HIDE DEF size, rem, lits, Enough
    <3> QED
      BY <1>4, <1>5, <1>6, <3>1
  <2>2. Anagram(bag, counts, len) <=>
          /\ size
          /\ \A t \in D : lits[t] <= counts[t]
          /\ \E h \in [1 .. m -> D] : /\ \A k \in 1 .. m : h[k] \in TilesFor(d, p[w[k]])
                                      /\ \A t \in D : lits[t] + Times(h, m, t) <= counts[t]
    <3> HIDE DEF size, lits, Enough
    <3> QED
      BY <1>7, <2>1
  <2> QED
    BY <1>1, <2>2 DEF bag

\* The counts and the search take a word exactly if its tiles can be laid out.
LEMMA AnagramIff ==
  ASSUME NEW d, IsFiniteSet(DOMAIN d), NEW p \in Seq(Tokens(DOMAIN d)),
         NEW tiles \in Seq(DOMAIN d)
  PROVE  Anagram(PatternBag(d, p), Counts(d, tiles), Len(tiles)) <=> AnagramLays(d, p, tiles)
<1> DEFINE D == DOMAIN d
           A == Singles(p)
           P == Plain(p)
           W == Wild(p)
           J == DOMAIN tiles
           m == Cardinality(W)
           star == At(p, {"star"}) # {}
           lits(t) == Cardinality({i \in P : p[i].tile = t})
           has(t) == Cardinality(Of(J, tiles, t))
           Chosen(w, h) == /\ \A k \in 1 .. m : h[k] \in TilesFor(d, p[w[k]])
                           /\ \A t \in D : lits(t) + Times(h, m, t) <= has(t)
           Laid(f) == /\ f \in [A -> J]
                      /\ \A x, y \in A : f[x] = f[y] => x = y
                      /\ \A i \in A : Takes(d, p[i], tiles[f[i]])
<1>1. /\ A = P \cup W /\ P \cap W = {} /\ IsFiniteSet(A) /\ IsFiniteSet(P) /\ IsFiniteSet(W)
      /\ m \in Nat /\ Cardinality(A) \in Nat
      /\ \A i \in P : p[i].tile \in D /\ \A t : Takes(d, p[i], t) <=> p[i].tile = t
      /\ \A i \in W : \A t \in D : Takes(d, p[i], t) <=> t \in TilesFor(d, p[i])
  BY PatternFacts, FS_CardinalityType
<1>2. /\ IsFiniteSet(J) /\ Cardinality(J) = Len(tiles) /\ Len(tiles) \in Nat
      /\ \A j \in J : tiles[j] \in D
      /\ \A t \in D : Counts(d, tiles)[t] = has(t)
      /\ Counts(d, tiles) \in [D -> Nat]
  BY CountFacts
<1>3. PICK w : /\ Enumerates(w, W)
               /\ Anagram(PatternBag(d, p), Counts(d, tiles), Len(tiles)) <=>
                    /\ IF star THEN Len(tiles) >= Cardinality(A) ELSE Len(tiles) = Cardinality(A)
                    /\ \A t \in D : lits(t) <= Counts(d, tiles)[t]
                    /\ \E h \in [1 .. m -> D] :
                         /\ \A k \in 1 .. m : h[k] \in TilesFor(d, p[w[k]])
                         /\ \A t \in D : lits(t) + Times(h, m, t) <= Counts(d, tiles)[t]
  <2> DEFINE c == Counts(d, tiles)
             n == Len(tiles)
  <2>1. c \in [DOMAIN d -> Nat] /\ n \in Nat
    BY <1>2
  <2> HIDE DEF c, n
  <2> QED
    BY <2>1, AnagramMeans DEF c, n
<1>4. AnagramLays(d, p, tiles) <=> (star \/ Cardinality(A) = Len(tiles)) /\ \E f : Laid(f)
  <2>1. \A f : f \in Injection(A, J) <=> f \in [A -> J] /\ \A x, y \in A : f[x] = f[y] => x = y
    BY InjectionMeans
  <2> QED
    BY <2>1 DEF AnagramLays
<1>0. /\ w \in [1 .. m -> W]
      /\ \A i, j \in 1 .. m : w[i] = w[j] => i = j
      /\ \A x \in W : \E i \in 1 .. m : w[i] = x
  BY <1>3 DEF Enumerates
<1>5. ASSUME NEW t \in D, NEW U, U \subseteq A
      PROVE  /\ IsFiniteSet(U \cap P) /\ IsFiniteSet(U \cap W) /\ IsFiniteSet(U)
             /\ Cardinality(U \cap P) \in Nat /\ Cardinality(U \cap W) \in Nat
             /\ Cardinality(U) = Cardinality(U \cap P) + Cardinality(U \cap W)
  <2> HIDE DEF A, P, W
  <2>1. IsFiniteSet(U)
    BY <1>1, <1>5, Part
  <2>3. IsFiniteSet(U \cap P)
    <3> DEFINE V == U \cap P
    <3>1. V \subseteq U
      OBVIOUS
    <3> HIDE DEF V
    <3>2. IsFiniteSet(V)
      BY <2>1, <3>1, Part
    <3> QED
      BY <3>2 DEF V
  <2>4. IsFiniteSet(U \cap W)
    <3> DEFINE V == U \cap W
    <3>1. V \subseteq U
      OBVIOUS
    <3> HIDE DEF V
    <3>2. IsFiniteSet(V)
      BY <2>1, <3>1, Part
    <3> QED
      BY <3>2 DEF V
  <2>2. U \subseteq P \cup W /\ P \cap W = {}
    BY <1>1, <1>5
  <2> QED
    BY <2>1, <2>2, <2>3, <2>4, TwoParts
<1>6. ASSUME NEW t \in D
      PROVE  lits(t) \in Nat /\ has(t) \in Nat /\ \A h : Times(h, m, t) \in Nat
  <2>1. {i \in P : p[i].tile = t} \subseteq P /\ Of(J, tiles, t) \subseteq J
    BY DEF Of
  <2>2. lits(t) \in Nat
    BY <1>1, <2>1, Part
  <2>3. has(t) \in Nat
    BY <1>2, <2>1, Part
  <2> QED
    BY <1>1, <2>2, <2>3, TimesFacts
\* Tiles that are laid out are tiles for the slots.
<1>7. ASSUME NEW f, Laid(f)
      PROVE  Cardinality(A) <= Len(tiles) /\ \E h \in [1 .. m -> D] : Chosen(w, h)
  <2> DEFINE h == [k \in 1 .. m |-> tiles[f[w[k]]]]
  <2>1. Cardinality(A) <= Len(tiles)
    <3> HIDE DEF A, J
    <3> QED
      BY <1>2, <1>7, NoMore
  <2>2. h \in [1 .. m -> D]
    BY <1>1, <1>2, <1>7, <1>0
  <2>3. ASSUME NEW k \in 1 .. m PROVE h[k] \in TilesFor(d, p[w[k]])
    <3>1. w[k] \in W /\ w[k] \in A
      BY <1>1, <1>0
    <3> HIDE DEF A, W, J
    <3>2. f[w[k]] \in J /\ Takes(d, p[w[k]], tiles[f[w[k]]])
      BY <1>7, <3>1
    <3>3. tiles[f[w[k]]] \in D
      BY <1>2, <3>2
    <3>4. h[k] = tiles[f[w[k]]]
      OBVIOUS
    <3> QED
      BY <1>1, <3>1, <3>2, <3>3, <3>4
  <2>4. ASSUME NEW t \in D PROVE lits(t) + Times(h, m, t) <= has(t)
    <3> DEFINE U == {i \in A : tiles[f[i]] = t}
               K == {k \in 1 .. m : h[k] = t}
               g == [i \in U |-> f[i]]
               v == [k \in K |-> w[k]]
    <3>1. U \subseteq A
      OBVIOUS
    <3>2. Cardinality(U) <= has(t)
      <4>1. g \in [U -> Of(J, tiles, t)] /\ \A x, y \in U : g[x] = g[y] => x = y
        BY <1>7 DEF Of
      <4>2. IsFiniteSet(Of(J, tiles, t))
        <5>1. Of(J, tiles, t) \subseteq J
          BY DEF Of
        <5> QED
          BY <1>2, <5>1, Part
      <4> HIDE DEF U, g
      <4> QED
        BY <4>1, <4>2, NoMore
    <3>3. U \cap P = {i \in P : p[i].tile = t}
      BY <1>1, <1>2, <1>7
    <3>4. Times(h, m, t) <= Cardinality(U \cap W)
      <4>1. v \in [K -> U \cap W] /\ \A x, y \in K : v[x] = v[y] => x = y
        BY <1>1, <1>0
      <4>2. IsFiniteSet(U \cap W)
        BY <1>5, <3>1
      <4> HIDE DEF K, v, U, W
      <4>3. Cardinality(K) <= Cardinality(U \cap W)
        BY <4>1, <4>2, NoMore
      <4> QED
        BY <4>3 DEF Times, K
    <3>5. /\ Cardinality(U \cap P) \in Nat /\ Cardinality(U \cap W) \in Nat
          /\ Cardinality(U) = Cardinality(U \cap P) + Cardinality(U \cap W)
      BY <1>5, <3>1
    <3>6. lits(t) = Cardinality(U \cap P)
      BY <3>3
    <3>7. has(t) \in Nat /\ Times(h, m, t) \in Nat
      BY <1>6
    <3> HIDE DEF lits, has, h, U
    <3> QED
      BY <3>2, <3>4, <3>5, <3>6, <3>7
  <2> HIDE DEF h
  <2> QED
    BY <2>1, <2>2, <2>3, <2>4
\* Tiles for the literals and the slots can be laid out.
<1>8. ASSUME NEW h \in [1 .. m -> D], Chosen(w, h) PROVE \E f : Laid(f)
  <2> DEFINE at == [i \in W |-> CHOOSE k \in 1 .. m : w[k] = i]
             a == [i \in A |-> IF i \in P THEN p[i].tile ELSE h[at[i]]]
             T == [t \in D |-> Of(J, tiles, t)]
  <2>1. \A i \in W : at[i] \in 1 .. m /\ w[at[i]] = i
    BY <1>0
  <2> HIDE DEF at
  <2>2. a \in [A -> D]
    BY <1>1, <2>1
  <2>3. T \in [D -> SUBSET J] /\ \A t, u \in D : t # u => T[t] \cap T[u] = {}
    BY DEF Of
  <2>4. ASSUME NEW t \in D PROVE Cardinality({i \in A : a[i] = t}) <= Cardinality(T[t])
    <3> DEFINE U == {i \in A : a[i] = t}
               K == {k \in 1 .. m : h[k] = t}
               v == [i \in U \cap W |-> at[i]]
    <3>1. U \subseteq A
      OBVIOUS
    <3>2. U \cap P = {i \in P : p[i].tile = t}
      BY <1>1
    <3>3. Cardinality(U \cap W) <= Times(h, m, t)
      <4>1. v \in [U \cap W -> K]
        BY <1>1, <2>1
      <4>2. \A x, y \in U \cap W : v[x] = v[y] => x = y
        BY <2>1
      <4>3. IsFiniteSet(K)
        <5>1. K \subseteq 1 .. m
          OBVIOUS
        <5> HIDE DEF K, m
        <5> QED
          BY <1>1, <5>1, PartOfInterval
      <4> HIDE DEF K, v, U, W
      <4>4. Cardinality(U \cap W) <= Cardinality(K)
        BY <4>1, <4>2, <4>3, NoMore
      <4> QED
        BY <4>4 DEF Times, K
    <3>4. /\ Cardinality(U \cap P) \in Nat /\ Cardinality(U \cap W) \in Nat
          /\ Cardinality(U) = Cardinality(U \cap P) + Cardinality(U \cap W)
      BY <1>5, <3>1
    <3>5. lits(t) = Cardinality(U \cap P)
      BY <3>2
    <3>6. has(t) \in Nat /\ Times(h, m, t) \in Nat /\ lits(t) + Times(h, m, t) <= has(t)
      BY <1>6, <1>8
    <3>7. Cardinality(T[t]) = has(t)
      OBVIOUS
    <3> HIDE DEF lits, has, U, T
    <3>8. Cardinality(U) <= Cardinality(T[t])
      BY <3>3, <3>4, <3>5, <3>6, <3>7
    <3> QED
      BY <3>8 DEF U
  <2>5. \E f : Places(f, A, J, a, T)
    <3> HIDE DEF A, J, D, T, a
    <3>1. IsFiniteSet(A) /\ IsFiniteSet(J)
      BY <1>1, <1>2
    <3> QED
      BY <2>2, <2>3, <2>4, <3>1, Coloured
  <2>6. PICK f : Places(f, A, J, a, T)
    BY <2>5
  <2>7. /\ f \in [A -> J]
        /\ \A x, y \in A : f[x] = f[y] => x = y
        /\ \A i \in A : f[i] \in T[a[i]]
    BY <2>6 DEF Places
  <2>8. ASSUME NEW i \in A PROVE Takes(d, p[i], tiles[f[i]])
    <3>1. tiles[f[i]] = a[i]
      BY <2>2, <2>7 DEF Of
    <3>2. CASE i \in P
      BY <1>1, <3>1, <3>2
    <3>3. CASE i \in W
      <4>1. a[i] = h[at[i]] /\ w[at[i]] = i /\ at[i] \in 1 .. m
        BY <1>1, <2>1, <3>3
      <4>2. h[at[i]] \in TilesFor(d, p[i]) /\ h[at[i]] \in D
        BY <1>8, <4>1
      <4> QED
        BY <1>1, <3>1, <3>3, <4>1, <4>2
    <3> QED
      BY <1>1, <3>2, <3>3
  <2> QED
    BY <2>7, <2>8
<1>9. Anagram(PatternBag(d, p), Counts(d, tiles), Len(tiles)) <=>
        /\ IF star THEN Len(tiles) >= Cardinality(A) ELSE Len(tiles) = Cardinality(A)
        /\ \A t \in D : lits(t) <= has(t)
        /\ \E h \in [1 .. m -> D] : Chosen(w, h)
  BY <1>2, <1>3
<1>10. ASSUME NEW h, Chosen(w, h) PROVE \A t \in D : lits(t) <= has(t)
  <2>1. ASSUME NEW t \in D PROVE lits(t) <= has(t)
    <3>1. lits(t) \in Nat /\ has(t) \in Nat /\ Times(h, m, t) \in Nat
          /\ lits(t) + Times(h, m, t) <= has(t)
      BY <1>6, <1>10
    <3> HIDE DEF lits, has
    <3> QED
      BY <3>1
  <2> QED
    BY <2>1
<1> HIDE DEF A, star, lits, has, Chosen, Laid, m, D
<1> QED
  BY <1>1, <1>2, <1>4, <1>7, <1>8, <1>9, <1>10

\* A subanagram pattern takes some tiles: each of them from a token of its own.
SubanagramLays(d, p, tiles) ==
  \/ At(p, {"star"}) # {}
  \/ \E f \in Injection(DOMAIN tiles, Singles(p)) :
       \A i \in DOMAIN tiles : Takes(d, p[f[i]], tiles[i])

\* The search of the subanagram matcher: the wildcards in an order w, the tiles
\* left over by the literals as the n first values of left.
SubanagramBy(w, left, n, d, p, counts, len) ==
  /\ Enumerates(w, Wild(p))
  /\ n \in Nat
  /\ left \in [1 .. n -> DOMAIN d]
  /\ \A t \in DOMAIN d :
       Times(left, n, t) = Over(counts[t], Cardinality({i \in Plain(p) : p[i].tile = t}))
  /\ Subanagram(PatternBag(d, p), counts, len) <=>
       \/ At(p, {"star"}) # {}
       \/ /\ len <= Cardinality(Singles(p))
          /\ n <= Cardinality(Wild(p))
          /\ \E g \in [1 .. n -> 1 .. Cardinality(Wild(p))] :
               /\ \A i, j \in 1 .. n : g[i] = g[j] => i = j
               /\ \A k \in 1 .. n : left[k] \in TilesFor(d, p[w[g[k]]])

\* What Subanagram computes, in terms of the pattern.
LEMMA SubanagramMeans ==
  ASSUME NEW d, IsFiniteSet(DOMAIN d), DOMAIN d \subseteq Nat,
         NEW p \in Seq(Tokens(DOMAIN d)),
         NEW counts \in [DOMAIN d -> Nat], NEW len \in Nat
  PROVE  \E w, left, n : SubanagramBy(w, left, n, d, p, counts, len)
<1> DEFINE D == DOMAIN d
           bag == PatternBag(d, p)
           m == Cardinality(Wild(p))
           left == Leftover(bag, counts)
           Own(g, n) == /\ \A i, j \in 1 .. n : g[i] = g[j] => i = j
                        /\ \A k \in 1 .. n : left[k] \in bag.slots[g[k]]
<1>1. PICK w : /\ Enumerates(w, Wild(p))
               /\ Len(bag.slots) = m
               /\ DOMAIN bag.slots = 1 .. m
               /\ \A k \in 1 .. m : bag.slots[k] = TilesFor(d, p[w[k]])
  BY SlotsAreWildcards
<1>2. m \in Nat /\ bag.total + m = Cardinality(Singles(p)) /\ (bag.star <=> At(p, {"star"}) # {})
  BY PatternFacts
<1>3. bag.literals \in [D -> Nat] /\ \A t \in D : bag.literals[t] =
                                       Cardinality({i \in Plain(p) : p[i].tile = t})
  BY LiteralFacts
<1>4. Subanagram(bag, counts, len) <=>
        \/ bag.star
        \/ /\ len <= bag.total + Len(bag.slots)
           /\ Len(left) <= Len(bag.slots)
           /\ Placed(left, bag.slots)
  <2> HIDE DEF bag
  <2> QED
    BY DEF Subanagram
<1> HIDE DEF bag
<1>5. PICK n : Remains(left, n, D, counts, bag.literals)
  <2> HIDE DEF D
  <2>1. IsFiniteSet(D) /\ D \subseteq Nat /\ counts \in [D -> Nat] /\ bag.literals \in [D -> Nat]
    BY <1>3 DEF D
  <2> QED
    BY <2>1, LeftoverCounts
<1> HIDE DEF left
<1>11. /\ n \in Nat /\ Len(left) = n /\ left \in [1 .. n -> D]
       /\ \A t \in D : Times(left, n, t) = Over(counts[t], bag.literals[t])
  BY <1>5 DEF Remains
<1>6. Placed(left, bag.slots) <=> \E g \in [1 .. n -> 1 .. m] : Own(g, n)
  <2> DEFINE slots == bag.slots
  <2> HIDE DEF slots
  <2>1. Placed(left, slots) <=> \E g : Puts(g, n, left, slots)
    BY <1>11, PlacedIff
  <2>2. \A g : Puts(g, n, left, slots) <=> g \in [1 .. n -> 1 .. m] /\ Own(g, n)
    BY <1>1 DEF Puts, slots
  <2> HIDE DEF Own
  <2> QED
    BY <2>1, <2>2 DEF slots
<1>7. ASSUME NEW g \in [1 .. n -> 1 .. m]
      PROVE  Own(g, n) <=> /\ \A i, j \in 1 .. n : g[i] = g[j] => i = j
                           /\ \A k \in 1 .. n : left[k] \in TilesFor(d, p[w[g[k]]])
  <2>1. \A k \in 1 .. n : g[k] \in 1 .. m /\ bag.slots[g[k]] = TilesFor(d, p[w[g[k]]])
    <3>1. ASSUME NEW k \in 1 .. n
          PROVE  g[k] \in 1 .. m /\ bag.slots[g[k]] = TilesFor(d, p[w[g[k]]])
      <4>1. g[k] \in 1 .. m
        OBVIOUS
      <4> HIDE DEF m
      <4> QED
        BY <1>1, <4>1
    <3> QED
      BY <3>1
  <2> QED
    BY <2>1
<1>8. Subanagram(bag, counts, len) <=>
        \/ At(p, {"star"}) # {}
        \/ /\ len <= Cardinality(Singles(p))
           /\ n <= m
           /\ \E g \in [1 .. n -> 1 .. m] :
                        /\ \A i, j \in 1 .. n : g[i] = g[j] => i = j
                        /\ \A k \in 1 .. n : left[k] \in TilesFor(d, p[w[g[k]]])
  <2>1. Subanagram(bag, counts, len) <=>
        \/ At(p, {"star"}) # {}
        \/ /\ len <= Cardinality(Singles(p))
           /\ n <= m
           /\ \E g \in [1 .. n -> 1 .. m] : Own(g, n)
    <3>1. bag.total + Len(bag.slots) = Cardinality(Singles(p)) /\ Len(bag.slots) = m /\ Len(left) = n
      BY <1>1, <1>2, <1>11
    <3> HIDE DEF Own, m
    <3> QED
      BY <1>2, <1>4, <1>6, <3>1
  <2> HIDE DEF Own
  <2> QED
    BY <1>7, <2>1
<1>9. \A t \in D : Times(left, n, t) = Over(counts[t], Cardinality({i \in Plain(p) : p[i].tile = t}))
  BY <1>3, <1>11
<1>10. SubanagramBy(w, left, n, d, p, counts, len)
  BY <1>1, <1>11, <1>8, <1>9 DEF bag, SubanagramBy
<1> QED
  BY <1>10

\* The counts and the search take a word exactly if its tiles can be laid out.
LEMMA SubanagramIff ==
  ASSUME NEW d, IsFiniteSet(DOMAIN d), DOMAIN d \subseteq Nat,
         NEW p \in Seq(Tokens(DOMAIN d)), NEW tiles \in Seq(DOMAIN d)
  PROVE  Subanagram(PatternBag(d, p), Counts(d, tiles), Len(tiles)) <=>
           SubanagramLays(d, p, tiles)
<1> DEFINE D == DOMAIN d
           A == Singles(p)
           P == Plain(p)
           W == Wild(p)
           J == DOMAIN tiles
           m == Cardinality(W)
           c == Counts(d, tiles)
           star == At(p, {"star"}) # {}
           lits(t) == Cardinality({i \in P : p[i].tile = t})
           has(t) == Cardinality(Of(J, tiles, t))
           Laid(f) == /\ f \in [J -> A]
                      /\ \A x, y \in J : f[x] = f[y] => x = y
                      /\ \A j \in J : Takes(d, p[f[j]], tiles[j])
<1>1. /\ A = P \cup W /\ P \cap W = {} /\ IsFiniteSet(A) /\ IsFiniteSet(P) /\ IsFiniteSet(W)
      /\ m \in Nat /\ Cardinality(A) \in Nat
      /\ \A i \in P : p[i].tile \in D /\ \A t : Takes(d, p[i], t) <=> p[i].tile = t
      /\ \A i \in W : \A t \in D : Takes(d, p[i], t) <=> t \in TilesFor(d, p[i])
  BY PatternFacts, FS_CardinalityType
<1>2. /\ IsFiniteSet(J) /\ Cardinality(J) = Len(tiles) /\ Len(tiles) \in Nat
      /\ \A j \in J : tiles[j] \in D
      /\ \A t \in D : c[t] = has(t)
      /\ c \in [D -> Nat]
  BY CountFacts
<1>3. PICK w, left, n : SubanagramBy(w, left, n, d, p, c, Len(tiles))
  <2> DEFINE len == Len(tiles)
  <2>1. c \in [DOMAIN d -> Nat] /\ len \in Nat
    BY <1>2
  <2> HIDE DEF c, len
  <2> QED
    BY <2>1, SubanagramMeans DEF len
<1> DEFINE Put(g) == /\ \A i, j \in 1 .. n : g[i] = g[j] => i = j
                     /\ \A k \in 1 .. n : left[k] \in TilesFor(d, p[w[g[k]]])
<1>4. /\ n \in Nat
      /\ left \in [1 .. n -> D]
      /\ \A t \in D : Times(left, n, t) = Over(c[t], lits(t))
      /\ w \in [1 .. m -> W]
      /\ \A i, j \in 1 .. m : w[i] = w[j] => i = j
      /\ \A x \in W : \E i \in 1 .. m : w[i] = x
  BY <1>3 DEF SubanagramBy, Enumerates
<1>5. Subanagram(PatternBag(d, p), c, Len(tiles)) <=>
        \/ star
        \/ /\ Len(tiles) <= Cardinality(A)
           /\ n <= m
           /\ \E g \in [1 .. n -> 1 .. m] : Put(g)
  BY <1>3 DEF SubanagramBy
<1>6. SubanagramLays(d, p, tiles) <=> star \/ \E f : Laid(f)
  <2>1. \A f : f \in Injection(J, A) <=> f \in [J -> A] /\ \A x, y \in J : f[x] = f[y] => x = y
    BY InjectionMeans
  <2> QED
    BY <2>1 DEF SubanagramLays
<1>7. ASSUME NEW t \in D
      PROVE  /\ lits(t) \in Nat /\ has(t) \in Nat
             /\ Times(left, n, t) = IF has(t) > lits(t) THEN has(t) - lits(t) ELSE 0
  <2>1. {i \in P : p[i].tile = t} \subseteq P /\ Of(J, tiles, t) \subseteq J
    BY DEF Of
  <2>2. lits(t) \in Nat
    BY <1>1, <2>1, Part
  <2>3. has(t) \in Nat
    BY <1>2, <2>1, Part
  <2>4. Times(left, n, t) = Over(has(t), lits(t))
    BY <1>2, <1>4
  <2> QED
    BY <2>2, <2>3, <2>4 DEF Over
\* Tiles laid on tokens of their own leave slots for those beyond the literals.
<1>8. ASSUME NEW f, Laid(f)
      PROVE  /\ Len(tiles) <= Cardinality(A)
             /\ n <= m
             /\ \E g \in [1 .. n -> 1 .. m] : Put(g)
  <2> DEFINE K == 1 .. n
             B == 1 .. m
             T == [t \in D |-> {s \in B : \E j \in J : tiles[j] = t /\ f[j] = w[s]}]
  <2>1. Len(tiles) <= Cardinality(A)
    <3>1. f \in [J -> A] /\ \A x, y \in J : f[x] = f[y] => x = y
      BY <1>8
    <3> HIDE DEF A, J
    <3>2. Cardinality(J) <= Cardinality(A)
      BY <1>1, <3>1, NoMore
    <3> QED
      BY <1>2, <3>2
  <2>2. T \in [D -> SUBSET B]
    OBVIOUS
  <2>3. ASSUME NEW t \in D, NEW u \in D, t # u PROVE T[t] \cap T[u] = {}
    BY <1>8, <2>3
  <2>4. IsFiniteSet(K) /\ Cardinality(K) = n /\ IsFiniteSet(B) /\ Cardinality(B) = m
    <3>1. \A x \in Nat : IsFiniteSet(1 .. x) /\ Cardinality(1 .. x) = x
      BY FS_Interval
    <3> HIDE DEF m
    <3>2. m \in Nat /\ n \in Nat
      BY <1>1, <1>4
    <3> QED
      BY <3>1, <3>2
  <2>5. ASSUME NEW t \in D
        PROVE  Cardinality({k \in K : left[k] = t}) <= Cardinality(T[t])
    <3> DEFINE S == Of(J, tiles, t)
               U == {f[j] : j \in S}
               L == {i \in P : p[i].tile = t}
               h == [j \in S |-> f[j]]
               V == T[t]
    <3>1. IsFiniteSet(S) /\ IsFiniteSet(L) /\ IsFiniteSet(V) /\ Cardinality(V) \in Nat
      <4>1. S \subseteq J /\ L \subseteq P
        BY DEF Of
      <4>2. V \subseteq B
        OBVIOUS
      <4> HIDE DEF S, L, V, J, P, B
      <4> QED
        BY <1>1, <1>2, <2>4, <4>1, <4>2, Part
    <3>2. IsFiniteSet(U) /\ Cardinality(U) = Cardinality(S)
      <4>1. h \in [S -> U] /\ \A x, y \in S : h[x] = h[y] => x = y
        BY <1>8 DEF Of
      <4>2. \A y \in U : \E x \in S : h[x] = y
        OBVIOUS
      <4> HIDE DEF S, U, h
      <4> QED
        BY <3>1, <4>1, <4>2, SameCount
    <3>3. U \subseteq P \cup W
      BY <1>1, <1>8 DEF Of
    <3>4. /\ Cardinality(U \cap P) \in Nat /\ Cardinality(U \cap W) \in Nat
          /\ Cardinality(U) = Cardinality(U \cap P) + Cardinality(U \cap W)
      <4> HIDE DEF U, P, W
      <4> QED
        BY <1>1, <3>2, <3>3, TwoParts
    <3>5. U \cap P \subseteq L
      BY <1>1, <1>8 DEF Of
    <3>6. Cardinality(U \cap P) <= Cardinality(L)
      <4> DEFINE X == U \cap P
      <4>1. X \subseteq L
        BY <3>5
      <4> HIDE DEF X, L
      <4> QED
        BY <3>1, <4>1, Part DEF X
    <3>7. Cardinality(U \cap W) <= Cardinality(V)
      <4> DEFINE X == U \cap W
                 at == [x \in X |-> CHOOSE s \in B : w[s] = x]
      <4>1. ASSUME NEW x \in X PROVE at[x] \in V /\ w[at[x]] = x
        <5>1. at[x] \in B /\ w[at[x]] = x
          BY <1>4
        <5>2. PICK j \in S : f[j] = x
          OBVIOUS
        <5> HIDE DEF at
        <5> QED
          BY <5>1, <5>2 DEF Of
      <4> HIDE DEF X, V
      <4>2. at \in [X -> V] /\ \A x, y \in X : at[x] = at[y] => x = y
        <5>1. DOMAIN at = X /\ at = [x \in X |-> at[x]]
          OBVIOUS
        <5> HIDE DEF at
        <5> QED
          BY <4>1, <5>1
      <4> HIDE DEF at
      <4>3. Cardinality(X) <= Cardinality(V)
        BY <3>1, <4>2, NoMore
      <4> QED
        BY <4>3 DEF X
    <3>8. /\ lits(t) \in Nat /\ has(t) \in Nat
          /\ Times(left, n, t) = IF has(t) > lits(t) THEN has(t) - lits(t) ELSE 0
      BY <1>7
    <3>9. lits(t) = Cardinality(L) /\ has(t) = Cardinality(S)
      OBVIOUS
    <3> HIDE DEF lits, has, L, S, U, V, P, W
    <3>10. has(t) - lits(t) <= Cardinality(V)
      <4>1. has(t) = Cardinality(U \cap P) + Cardinality(U \cap W)
        BY <3>2, <3>4, <3>9
      <4>2. Cardinality(U \cap P) <= lits(t)
        BY <3>6, <3>9
      <4>3. /\ Cardinality(U \cap P) \in Nat /\ Cardinality(U \cap W) \in Nat
            /\ Cardinality(V) \in Nat /\ lits(t) \in Nat /\ has(t) \in Nat
        BY <3>1, <3>4, <3>8
      <4> QED
        BY <3>7, <4>1, <4>2, <4>3
    <3>11. Times(left, n, t) <= Cardinality(V)
      BY <3>1, <3>8, <3>10
    <3> QED
      BY <3>11 DEF V, Times
  <2>6. \E g : Places(g, K, B, left, T)
    <3>1. left \in [K -> D]
      BY <1>4
    <3> HIDE DEF K, B, D, T
    <3> QED
      BY <2>2, <2>3, <2>4, <2>5, <3>1, Coloured
  <2>7. PICK g : Places(g, K, B, left, T)
    BY <2>6
  <2>8. /\ g \in [K -> B]
        /\ \A x, y \in K : g[x] = g[y] => x = y
        /\ \A k \in K : g[k] \in T[left[k]]
    BY <2>7 DEF Places
  <2>9. n <= m
    <3> HIDE DEF K, B, m
    <3> QED
      BY <2>4, <2>8, NoMore
  <2>10. ASSUME NEW k \in K PROVE left[k] \in TilesFor(d, p[w[g[k]]])
    <3>1. left[k] \in D /\ g[k] \in B /\ g[k] \in T[left[k]]
      BY <1>4, <2>8
    <3>2. PICK j \in J : tiles[j] = left[k] /\ f[j] = w[g[k]]
      BY <3>1
    <3>3. Takes(d, p[w[g[k]]], left[k])
      BY <1>8, <3>2
    <3>4. w[g[k]] \in W
      BY <1>4, <3>1
    <3> HIDE DEF W
    <3> QED
      BY <1>1, <3>1, <3>3, <3>4
  <2> QED
    BY <2>1, <2>8, <2>9, <2>10
\* With a slot for each tile beyond the literals every tile has a token.
<1>9. ASSUME NEW g \in [1 .. n -> 1 .. m], Put(g) PROVE \E f : Laid(f)
  <2> DEFINE K(t) == {k \in 1 .. n : left[k] = t}
             L(t) == {i \in P : p[i].tile = t}
             M(t) == {w[g[k]] : k \in K(t)}
             T == [t \in D |-> L(t) \cup M(t)]
             a == [j \in J |-> tiles[j]]
  <2>1. ASSUME NEW k \in 1 .. n PROVE g[k] \in 1 .. m /\ w[g[k]] \in W
    BY <1>4
  <2>2. \A k, l \in 1 .. n : w[g[k]] = w[g[l]] => k = l
    <3>1. ASSUME NEW k \in 1 .. n, NEW l \in 1 .. n, w[g[k]] = w[g[l]] PROVE k = l
      <4>1. g[k] = g[l]
        <5> HIDE DEF m
        <5> QED
          BY <1>4, <2>1, <3>1
      <4> QED
        BY <1>9, <4>1
    <3> QED
      BY <3>1
  <2>3. \A t \in D : L(t) \subseteq P /\ M(t) \subseteq W
    BY <2>1
  <2>4. T \in [D -> SUBSET A]
    <3>1. ASSUME NEW t \in D PROVE T[t] \subseteq A
      <4> HIDE DEF L, M
      <4> QED
        BY <1>1, <2>3
    <3> QED
      BY <3>1
  <2>5. ASSUME NEW t \in D, NEW u \in D, t # u PROVE T[t] \cap T[u] = {}
    <3>1. L(t) \cap L(u) = {}
      BY <2>5
    <3>2. M(t) \cap M(u) = {}
      BY <2>2, <2>5
    <3>3. L(t) \cap M(u) = {} /\ L(u) \cap M(t) = {}
      BY <1>1, <2>3
    <3> QED
      BY <3>1, <3>2, <3>3
  <2>6. ASSUME NEW t \in D PROVE Cardinality({j \in J : a[j] = t}) <= Cardinality(T[t])
    <3> DEFINE X == L(t)
               Y == M(t)
               Z == K(t)
               U == T[t]
               h == [k \in Z |-> w[g[k]]]
    <3>1. IsFiniteSet(Z)
      <4>1. Z \subseteq 1 .. n
        OBVIOUS
      <4> HIDE DEF Z
      <4> QED
        BY <1>4, <4>1, PartOfInterval
    <3>2. IsFiniteSet(Y) /\ Cardinality(Y) = Cardinality(Z)
      <4>1. h \in [Z -> Y] /\ \A x, y \in Z : h[x] = h[y] => x = y
        BY <2>2
      <4>2. \A y \in Y : \E x \in Z : h[x] = y
        OBVIOUS
      <4>3. IsFiniteSet(Z)
        BY <3>1
      <4> HIDE DEF Z, Y, h
      <4>4. IsFiniteSet(Y) /\ Cardinality(Y) = Cardinality(Z)
        BY <4>1, <4>2, <4>3, SameCount
      <4> QED
        BY <4>4
    <3>3. U \cap P = X /\ U \cap W = Y /\ U \subseteq P \cup W /\ U \subseteq A
      <4>1. U = X \cup Y /\ X \subseteq P /\ Y \subseteq W
        BY <2>3
      <4> HIDE DEF U, X, Y, P, W, A
      <4> QED
        BY <1>1, <4>1
    <3>4. IsFiniteSet(U)
      <4> HIDE DEF U, A
      <4> QED
        BY <1>1, <3>3, Part
    <3>5. Cardinality(X) \in Nat /\ Cardinality(Y) \in Nat
          /\ Cardinality(U) = Cardinality(X) + Cardinality(Y)
      <4> HIDE DEF U, X, Y, P, W
      <4> QED
        BY <1>1, <3>3, <3>4, TwoParts
    <3>6. /\ lits(t) \in Nat /\ has(t) \in Nat
          /\ Times(left, n, t) = IF has(t) > lits(t) THEN has(t) - lits(t) ELSE 0
      BY <1>7
    <3>7. lits(t) = Cardinality(X) /\ Times(left, n, t) = Cardinality(Z)
      BY DEF Times
    <3>8. {j \in J : a[j] = t} = Of(J, tiles, t)
      BY DEF Of
    <3> HIDE DEF lits, X, Y, Z, U, T
    <3>9. has(t) <= Cardinality(U)
      <4> HIDE DEF has
      <4> QED
        BY <3>2, <3>5, <3>6, <3>7
    <3> QED
      BY <3>8, <3>9 DEF U
  <2>7. \E f : Places(f, J, A, a, T)
    <3>1. a \in [J -> D]
      BY <1>2
    <3> HIDE DEF J, A, D, T, a
    <3> QED
      BY <1>1, <1>2, <2>4, <2>5, <2>6, <3>1, Coloured
  <2>8. PICK f : Places(f, J, A, a, T)
    BY <2>7
  <2>9. /\ f \in [J -> A]
        /\ \A x, y \in J : f[x] = f[y] => x = y
        /\ \A j \in J : f[j] \in T[a[j]]
    BY <2>8 DEF Places
  <2>10. ASSUME NEW j \in J PROVE Takes(d, p[f[j]], tiles[j])
    <3>1. tiles[j] \in D /\ (f[j] \in L(tiles[j]) \/ f[j] \in M(tiles[j]))
      BY <1>2, <2>9
    <3>2. CASE f[j] \in L(tiles[j])
      BY <1>1, <3>2
    <3>3. CASE f[j] \in M(tiles[j])
      <4>1. PICK k \in 1 .. n : left[k] = tiles[j] /\ f[j] = w[g[k]]
        BY <3>3
      <4>2. tiles[j] \in TilesFor(d, p[f[j]])
        BY <1>9, <4>1
      <4>3. f[j] \in W
        BY <2>1, <4>1
      <4> HIDE DEF W
      <4> QED
        BY <1>1, <3>1, <4>2, <4>3
    <3> QED
      BY <3>1, <3>2, <3>3
  <2> QED
    BY <2>9, <2>10
<1> HIDE DEF A, star, Put, Laid, m, D, c
<1>10. Subanagram(PatternBag(d, p), c, Len(tiles)) <=> SubanagramLays(d, p, tiles)
  BY <1>5, <1>6, <1>8, <1>9
<1> QED
  BY <1>10 DEF c

-----------------------------------------------------------------------------
(* Patterns                                                                *)

\* Entries say of their own tiles what an index says of them.
Describes(d, own) == \E tiles \in Seq(DOMAIN d) : own = OwnAttributes(d, tiles)
WellMade(index) ==
  /\ IsDistribution(index.distribution)
  /\ \A id \in EntryIds(index) : Describes(index.distribution, index.entries[id].own)

\* The anagram row finds what lays against its pattern.
LEMMA AnagramHit ==
  ASSUME NEW d, IsDistribution(d), NEW row, IsPattern(row, d), row.kind = "anagram_match",
         NEW tiles \in Seq(DOMAIN d)
  PROVE  Anagram(PatternBag(d, row.pattern), Counts(d, tiles), Len(tiles)) <=>
           LaysAgainst(d, row, tiles)
<1> DEFINE p == row.pattern
<1>1. p \in Seq(Tokens(DOMAIN d)) /\ IsFiniteSet(DOMAIN d)
  BY DEF IsPattern, IsDistribution, PatternKinds
<1>2. AnagramLays(d, p, tiles) <=> LaysAgainst(d, row, tiles)
  BY DEF AnagramLays, LaysAgainst, Singles
<1> HIDE DEF p
<1>3. Anagram(PatternBag(d, p), Counts(d, tiles), Len(tiles)) <=> AnagramLays(d, p, tiles)
  BY <1>1, AnagramIff
<1> QED
  BY <1>2, <1>3 DEF p

\* The subanagram row finds what lays against its pattern.
LEMMA SubanagramHit ==
  ASSUME NEW d, IsDistribution(d), NEW row, IsPattern(row, d), row.kind = "subanagram_match",
         NEW tiles \in Seq(DOMAIN d)
  PROVE  Subanagram(PatternBag(d, row.pattern), Counts(d, tiles), Len(tiles)) <=>
           LaysAgainst(d, row, tiles)
<1> DEFINE p == row.pattern
<1>1. p \in Seq(Tokens(DOMAIN d)) /\ IsFiniteSet(DOMAIN d) /\ DOMAIN d \subseteq Nat
  BY DEF IsPattern, IsDistribution, PatternKinds
<1>2. SubanagramLays(d, p, tiles) <=> LaysAgainst(d, row, tiles)
  BY DEF SubanagramLays, LaysAgainst, Singles
<1> HIDE DEF p
<1>3. Subanagram(PatternBag(d, p), Counts(d, tiles), Len(tiles)) <=> SubanagramLays(d, p, tiles)
  BY <1>1, SubanagramIff
<1> QED
  BY <1>2, <1>3 DEF p

\* The pattern row finds what lays against its pattern.
LEMMA OrderHit ==
  ASSUME NEW d, NEW row, IsPattern(row, d), row.kind = "pattern_match",
         NEW tiles \in Seq(DOMAIN d)
  PROVE  InOrder(d, row.pattern, tiles) <=> LaysAgainst(d, row, tiles)
<1> DEFINE p == row.pattern
<1>1. p \in Seq(Tokens(DOMAIN d)) /\ Len(p) \in Nat /\ Len(tiles) \in Nat /\ DOMAIN p = 1 .. Len(p)
  BY DEF IsPattern
<1>2. LaysAgainst(d, row, tiles) <=>
        \E cut \in [0 .. Len(p) -> 0 .. Len(tiles)] :
          /\ cut[0] = 0
          /\ cut[Len(p)] = Len(tiles)
          /\ \A i \in DOMAIN p :
               IF p[i].tok = "star" THEN cut[i - 1] <= cut[i]
               ELSE cut[i] = cut[i - 1] + 1 /\ Takes(d, p[i], tiles[cut[i]])
  BY DEF LaysAgainst
<1> HIDE DEF p
<1>3. LaysAgainst(d, row, tiles) <=>
        \E cut : Cuts(cut, Len(p), d, p, tiles) /\ cut[Len(p)] = Len(tiles)
  BY <1>1, <1>2 DEF Cuts
<1>4. InOrder(d, p, tiles) <=>
        \E cut : Cuts(cut, Len(p), d, p, tiles) /\ cut[Len(p)] = Len(tiles)
  BY <1>1, InOrderIff
<1> QED
  BY <1>3, <1>4 DEF p

\* Whatever the distribution, the index and the pattern, the matchers take an
\* entry exactly if some assignment of its tiles to the tokens does (pattern.rs
\* fill_slots, anagram, subanagram, place_leftovers, pattern_match).
THEOREM PatternsAreTried ==
  ASSUME NEW index, WellMade(index), NEW row, IsPattern(row, index.distribution)
  PROVE  PatternsTryEveryWay(index, row)
<1> DEFINE d == index.distribution
<1>1. SUFFICES ASSUME NEW id \in EntryIds(index)
               PROVE  Hit(index, row, id) <=> LaysAgainst(d, row, TilesOf(index, id))
  BY DEF PatternsTryEveryWay
<1>2. PICK tiles \in Seq(DOMAIN d) : index.entries[id].own = OwnAttributes(d, tiles)
  BY <1>1 DEF WellMade, Describes
<1>3. /\ index.entries[id].own.tiles = tiles
      /\ index.entries[id].own.counts = Counts(d, tiles)
      /\ index.entries[id].own.length = Len(tiles)
  BY <1>2 DEF OwnAttributes
<1>4. TilesOf(index, id) = tiles
  BY <1>3 DEF TilesOf
<1>5. IsDistribution(d) /\ IsPattern(row, d)
  BY DEF WellMade
<1>6. CASE row.kind = "anagram_match"
  <2>1. Hit(index, row, id) <=> Anagram(PatternBag(d, row.pattern), Counts(d, tiles), Len(tiles))
    BY <1>3, <1>6 DEF Hit
  <2> HIDE DEF d
  <2> QED
    BY <1>4, <1>5, <1>6, <2>1, AnagramHit
<1>7. CASE row.kind = "subanagram_match"
  <2>1. Hit(index, row, id) <=> Subanagram(PatternBag(d, row.pattern), Counts(d, tiles), Len(tiles))
    BY <1>3, <1>7 DEF Hit
  <2> HIDE DEF d
  <2> QED
    BY <1>4, <1>5, <1>7, <2>1, SubanagramHit
<1>8. CASE row.kind = "pattern_match"
  <2>1. Hit(index, row, id) <=> InOrder(d, row.pattern, tiles)
    BY <1>3, <1>8 DEF Hit
  <2> HIDE DEF d
  <2> QED
    BY <1>4, <1>5, <1>8, <2>1, OrderHit
<1> QED
  BY <1>5, <1>6, <1>7, <1>8 DEF IsPattern, PatternKinds

-----------------------------------------------------------------------------
(* The levels of groups                                                    *)

GroupsOver(S) == [op : {"and", "or"}, children : Seq(Conditions \cup S) \ {<<>>}]

\* There are no groups without a level, and one more level of groups has groups
\* of the levels so far.
LEMMA GroupLevels ==
  /\ GroupsTo(0) = {}
  /\ \A n \in Nat : GroupsTo(n + 1) = GroupsOver(GroupsTo(n))
<1> DEFINE Is(f, n) == f = [k \in 0 .. n |-> IF k = 0 THEN {} ELSE GroupsOver(f[k - 1])]
           S == {n \in Nat : \E f : Is(f, n)}
           to == [n \in Nat |-> CHOOSE f : Is(f, n)]
<1>1. 0 \in S
  <2>1. Is([k \in 0 .. 0 |-> {}], 0)
    OBVIOUS
  <2> QED
    BY <2>1
<1>2. ASSUME NEW n \in Nat, n \in S PROVE n + 1 \in S
  <2>1. PICK f : Is(f, n)
    BY <1>2
  <2> DEFINE last == GroupsOver(f[n])
             g == [k \in 0 .. n + 1 |-> IF k = n + 1 THEN last ELSE f[k]]
  <2>2. \A k \in 0 .. n : g[k] = f[k]
    OBVIOUS
  <2>3. g[n + 1] = last /\ DOMAIN g = 0 .. n + 1
    OBVIOUS
  <2>0. \A k \in 0 .. n : f[k] = IF k = 0 THEN {} ELSE GroupsOver(f[k - 1])
    BY <2>1
  <2>4. ASSUME NEW k \in 0 .. n + 1
        PROVE  g[k] = IF k = 0 THEN {} ELSE GroupsOver(g[k - 1])
    <3> HIDE DEF g
    <3>1. CASE k = n + 1
      BY <3>1, <2>2, <2>3
    <3>2. CASE k \in 1 .. n
      <4>1. k - 1 \in 0 .. n /\ k \in 0 .. n /\ k # 0
        BY <3>2
      <4> QED
        BY <2>2, <2>0, <4>1
    <3>3. CASE k = 0
      BY <3>3, <2>2, <2>0
    <3> QED
      BY <3>1, <3>2, <3>3
  <2>5. Is(g, n + 1)
    <3>1. g = [k \in 0 .. n + 1 |-> g[k]]
      OBVIOUS
    <3> HIDE DEF g
    <3> QED
      BY <2>4, <3>1
  <2> HIDE DEF g
  <2> QED
    BY <2>5
<1>3. \A n \in Nat : Is(to[n], n)
  <2>1. Nat \subseteq S
    <3> HIDE DEF S
    <3> QED
      BY <1>1, <1>2, NatsBySteps
  <2> HIDE DEF Is
  <2> QED
    BY <2>1
<1>4. \A n \in Nat : GroupsTo(n) = to[n][n]
  BY DEF GroupsTo, GroupsOver
<1> HIDE DEF to
<1>5. \A n \in Nat : \A k \in 0 .. n :
         to[n][k] = IF k = 0 THEN {} ELSE GroupsOver(to[n][k - 1])
  BY <1>3
<1> HIDE DEF Is
<1>6. ASSUME NEW n \in Nat, NEW m \in Nat, NEW k \in Nat, k <= n, k <= m
      PROVE  to[n][k] = to[m][k]
  <2> DEFINE T == {j \in Nat : j <= n /\ j <= m => to[n][j] = to[m][j]}
  <2>1. 0 \in T
    BY <1>5
  <2>2. ASSUME NEW j \in Nat, j \in T PROVE j + 1 \in T
    <3>1. ASSUME j + 1 <= n, j + 1 <= m PROVE to[n][j + 1] = to[m][j + 1]
      <4>1. to[n][j] = to[m][j] /\ j + 1 \in 0 .. n /\ j + 1 \in 0 .. m
        BY <2>2, <3>1
      <4>2. to[n][j + 1] = GroupsOver(to[n][j + 1 - 1]) /\ to[m][j + 1] = GroupsOver(to[m][j + 1 - 1])
        BY <1>5, <4>1
      <4> QED
        BY <4>1, <4>2
    <3> QED
      BY <3>1
  <2> HIDE DEF T
  <2>3. k \in T
    BY <2>1, <2>2, NatsBySteps
  <2> QED
    BY <1>6, <2>3 DEF T
<1>7. GroupsTo(0) = {}
  BY <1>4, <1>5
<1>8. ASSUME NEW n \in Nat PROVE GroupsTo(n + 1) = GroupsOver(GroupsTo(n))
  <2>1. to[n + 1][n + 1] = GroupsOver(to[n + 1][n + 1 - 1])
    BY <1>5
  <2>2. to[n + 1][n] = to[n][n]
    BY <1>6
  <2> QED
    BY <1>4, <2>1, <2>2
<1> QED
  BY <1>7, <1>8

\* The children of a group of some levels are conditions or groups of one level
\* less, and no condition is taken for a group.
LEMMA GroupFacts ==
  ASSUME NEW n \in Nat, NEW g \in GroupsTo(n)
  PROVE  /\ n - 1 \in Nat
         /\ g.op \in {"and", "or"} /\ g.children \in Seq(Conditions \cup GroupsTo(n - 1))
         /\ GroupsIn(g) \subseteq GroupsTo(n - 1)
         /\ RowsIn(g) \subseteq Conditions
         /\ LimitsIn(g) \subseteq Conditions /\ Predicates(g) \subseteq Conditions
         /\ ToSet(g.children) = GroupsIn(g) \cup RowsIn(g) /\ ToSet(g.children) # {}
         /\ IsGroup(g)
<1>1. n - 1 \in Nat
  BY GroupLevels
<1>2. GroupsTo(n) = GroupsOver(GroupsTo(n - 1))
  <2> DEFINE m == n - 1
  <2>1. m \in Nat /\ n = m + 1
    BY <1>1
  <2> HIDE DEF m
  <2>2. GroupsTo(n) = GroupsOver(GroupsTo(m))
    BY <2>1, GroupLevels
  <2> QED
    BY <2>2 DEF m
<1>3. g.op \in {"and", "or"} /\ g.children \in Seq(Conditions \cup GroupsTo(n - 1))
  BY <1>2 DEF GroupsOver
<1>4. ASSUME NEW c \in GroupsTo(n - 1) PROVE IsGroup(c)
  <2> DEFINE m == n - 1
  <2>1. m \in Nat /\ c \in GroupsTo(m)
    BY <1>1
  <2> HIDE DEF m
  <2>2. m # 0
    BY <2>1, GroupLevels
  <2> DEFINE k == m - 1
  <2>3. k \in Nat /\ m = k + 1
    BY <2>1, <2>2
  <2> HIDE DEF k
  <2>4. c \in GroupsOver(GroupsTo(k))
    BY <2>1, <2>3, GroupLevels
  <2> QED
    BY <2>4 DEF GroupsOver, IsGroup
<1>5. \A c \in ToSet(g.children) : c \in Conditions \/ c \in GroupsTo(n - 1)
  BY <1>3 DEF ToSet
<1>6. \A c \in Conditions : ~ IsGroup(c)
  BY SearchAssumption DEF IsGroup
<1>7. IsGroup(g)
  BY <1>2 DEF GroupsOver, IsGroup
<1>8. ToSet(g.children) # {}
  <2>1. g.children \in Seq(Conditions \cup GroupsTo(n - 1)) /\ g.children # <<>>
    BY <1>2 DEF GroupsOver
  <2>2. Len(g.children) # 0
    BY <2>1
  <2>3. 1 \in DOMAIN g.children
    BY <2>1, <2>2
  <2> QED
    BY <2>3 DEF ToSet
<1> QED
  BY <1>1, <1>3, <1>4, <1>5, <1>6, <1>7, <1>8 DEF GroupsIn, RowsIn, LimitsIn, Predicates

\* A group has finitely many limit rows.
LEMMA LimitsFinite ==
  ASSUME NEW n \in Nat, NEW g \in GroupsTo(n)
  PROVE  IsFiniteSet(LimitsIn(g))
<1>1. g.children \in Seq(Conditions \cup GroupsTo(n - 1))
  BY GroupFacts
<1>2. IsFiniteSet(ToSet(g.children))
  <2> DEFINE c == g.children
             D == DOMAIN c
  <2>1. IsFiniteSet(D)
    <3>1. D = 1 .. Len(c) /\ Len(c) \in Nat
      BY <1>1
    <3> HIDE DEF D, c
    <3> QED
      BY <3>1, FS_Interval
  <2>2. ToSet(c) = {c[i] : i \in D}
    BY DEF ToSet
  <2> HIDE DEF c, D
  <2>3. IsFiniteSet({c[i] : i \in D})
    BY <2>1, ImageFinite
  <2>4. IsFiniteSet(ToSet(c))
    BY <2>2, <2>3
  <2> QED
    BY <2>4 DEF c
<1>3. LimitsIn(g) \subseteq ToSet(g.children)
  BY DEF LimitsIn, RowsIn
<1>4. IsFiniteSet(LimitsIn(g))
  BY <1>2, <1>3, FS_Subset
<1> QED
  BY <1>4


-----------------------------------------------------------------------------
(* Evaluation and meaning, level by level                                  *)

Passing(index, g, from) == {id \in from : \A r \in Predicates(g) : Test(index, r, id)}

\* What the rows and child groups of a group find among its candidates, the
\* groups evaluated by `sub`.
Found(index, g, from, sub) ==
  IF g.op = "and"
  THEN {id \in Passing(index, g, from) :
          \A c \in GroupsIn(g) : id \in sub[c][Passing(index, g, from)]}
  ELSE IF Predicates(g) \cup GroupsIn(g) = {} THEN from
  ELSE {id \in from : \/ \E r \in Predicates(g) : Test(index, r, id)
                      \/ \E c \in GroupsIn(g) : id \in sub[c][from]}

\* What they mean, as the parts of which the group takes all or any.
Branches(index, g, from, sub) ==
  {{id \in from : Test(index, r, id)} : r \in Predicates(g)}
    \cup {sub[c][IF g.op = "and" THEN Passing(index, g, from) ELSE from] : c \in GroupsIn(g)}
Meant(index, g, from, sub) ==
  LET parts == Branches(index, g, from, sub)
  IN  IF parts = {} THEN from
      ELSE IF g.op = "and" THEN {id \in from : \A P \in parts : id \in P}
      ELSE {id \in from : \E P \in parts : id \in P}

Results(index, n) == [GroupsTo(n) -> [SUBSET EntryIds(index) -> SUBSET EntryIds(index)]]
AllResults(index) == UNION {Results(index, n) : n \in 0 .. Depth}

\* Evaluation is defined from one level of groups to the next.
EvalStepByStep(f, index) ==
  /\ \A n \in 0 .. Depth : f[n] \in Results(index, n)
  /\ \A n \in 1 .. Depth : \A g \in GroupsTo(n) : \A from \in SUBSET EntryIds(index) :
       f[n][g][from] = ApplyLimits(index, LimitsIn(g), Found(index, g, from, f[n - 1]))
  /\ \A g \in GroupsTo(Depth) : \A from \in SUBSET EntryIds(index) :
       EvalGroup(index, g, from) = f[Depth][g][from]

\* The evaluation of groups goes level by level.
LEMMA EvalLevels ==
  ASSUME NEW index
  PROVE  \E f : EvalStepByStep(f, index)
<1> DEFINE Asked == SUBSET EntryIds(index)
           X == AllResults(index)
           Level(n, sub) == [g \in GroupsTo(n) |-> [from \in Asked |->
                               ApplyLimits(index, LimitsIn(g), Found(index, g, from, sub))]]
           base == Level(0, {})
           step == [n \in 1 .. Depth |-> [sub \in X |-> Level(n, sub)]]
           Is(f) == f = [n \in 0 .. Depth |-> Level(n, f[n - 1])]
           eval == CHOOSE f : Is(f)
<1>0. Depth \in Nat
  BY SearchAssumption
<1>1. ASSUME NEW n \in 0 .. Depth, NEW sub PROVE Level(n, sub) \in Results(index, n)
  <2>1. ASSUME NEW g \in GroupsTo(n), NEW from \in Asked
        PROVE  ApplyLimits(index, LimitsIn(g), Found(index, g, from, sub)) \in Asked
    <3>1. Found(index, g, from, sub) \subseteq from
      BY DEF Found, Passing
    <3>2. ApplyLimits(index, LimitsIn(g), Found(index, g, from, sub)) \subseteq Found(index, g, from, sub)
      <4> DEFINE F == Found(index, g, from, sub)
      <4> HIDE DEF F
      <4> QED
        BY DEF ApplyLimits
    <3> QED
      BY <3>1, <3>2
  <2> QED
    BY <2>1 DEF Results
<1>2. \A x, y : Level(0, x) = Level(0, y)
  BY GroupLevels
<1> HIDE DEF Level
<1>3. \A n \in 0 .. Depth : \A sub : Level(n, sub) \in X
  BY <1>1 DEF AllResults
<1>4. base \in X
  BY <1>0, <1>3
<1>5. step \in [1 .. Depth -> [X -> X]]
  BY <1>3
<1>6. \A n \in 1 .. Depth : \A sub \in X : step[n][sub] = Level(n, sub)
  OBVIOUS
<1> HIDE DEF step, X, base
<1>7. PICK f : Walks(f, Depth, X, base, step)
  BY <1>0, <1>4, <1>5, StepByStep
<1>8. Is(f)
  <2>1. ASSUME NEW n \in 0 .. Depth PROVE f[n] = Level(n, f[n - 1])
    <3>1. CASE n = 0
      BY <1>2, <1>7, <3>1 DEF Walks, base
    <3>2. CASE n \in 1 .. Depth
      <4>1. n - 1 \in 0 .. Depth /\ f[n] = step[n][f[n - 1]]
        BY <1>0, <1>7, <3>2 DEF Walks
      <4>2. f[n - 1] \in X
        BY <1>7, <4>1 DEF Walks
      <4> QED
        BY <1>6, <3>2, <4>1, <4>2
    <3> QED
      BY <3>1, <3>2
  <2>2. f \in [0 .. Depth -> X]
    BY <1>7 DEF Walks
  <2> QED
    BY <2>1, <2>2
<1>9. Is(eval)
  <2> HIDE DEF Is
  <2> QED
    BY <1>8
<1>10. \A g, from : EvalGroup(index, g, from) = eval[Depth][g][from]
  BY DEF EvalGroup, Level, Found, Passing
<1> HIDE DEF eval
<1>11. \A n \in 0 .. Depth : eval[n] = Level(n, eval[n - 1])
  BY <1>9
<1>12. \A n \in 0 .. Depth : eval[n] \in Results(index, n)
  BY <1>1, <1>11 DEF Level
<1>13. ASSUME NEW n \in 1 .. Depth, NEW g \in GroupsTo(n), NEW from \in Asked
       PROVE  eval[n][g][from] = ApplyLimits(index, LimitsIn(g), Found(index, g, from, eval[n - 1]))
  <2>1. eval[n] = Level(n, eval[n - 1])
    BY <1>0, <1>11
  <2> QED
    BY <2>1 DEF Level
<1>14. EvalStepByStep(eval, index)
  BY <1>10, <1>12, <1>13 DEF EvalStepByStep
<1> QED
  BY <1>14

\* So is what a group means.
MeansStepByStep(f, index) ==
  /\ \A n \in 0 .. Depth : f[n] \in Results(index, n)
  /\ \A n \in 1 .. Depth : \A g \in GroupsTo(n) : \A from \in SUBSET EntryIds(index) :
       f[n][g][from] = Kept(index, Meant(index, g, from, f[n - 1]), LimitsIn(g))
  /\ \A g \in GroupsTo(Depth) : Means(index, g) = f[Depth][g][EntryIds(index)]

\* The meaning of groups goes level by level.
LEMMA MeansLevels ==
  ASSUME NEW index
  PROVE  \E f : MeansStepByStep(f, index)
<1> DEFINE Asked == SUBSET EntryIds(index)
           X == AllResults(index)
           Level(n, sub) == [g \in GroupsTo(n) |-> [from \in Asked |->
                               Kept(index, Meant(index, g, from, sub), LimitsIn(g))]]
           base == Level(0, {})
           step == [n \in 1 .. Depth |-> [sub \in X |-> Level(n, sub)]]
           Is(f) == f = [n \in 0 .. Depth |-> Level(n, f[n - 1])]
           means == CHOOSE f : Is(f)
<1>0. Depth \in Nat
  BY SearchAssumption
<1>1. ASSUME NEW n \in 0 .. Depth, NEW sub PROVE Level(n, sub) \in Results(index, n)
  <2>1. ASSUME NEW g \in GroupsTo(n), NEW from \in Asked
        PROVE  Kept(index, Meant(index, g, from, sub), LimitsIn(g)) \in Asked
    <3>1. Meant(index, g, from, sub) \subseteq from
      BY DEF Meant
    <3>2. Kept(index, Meant(index, g, from, sub), LimitsIn(g)) \subseteq Meant(index, g, from, sub)
      <4> DEFINE F == Meant(index, g, from, sub)
      <4> HIDE DEF F
      <4> QED
        BY DEF Kept
    <3> QED
      BY <3>1, <3>2
  <2> QED
    BY <2>1 DEF Results
<1>2. \A x, y : Level(0, x) = Level(0, y)
  BY GroupLevels
<1> HIDE DEF Level
<1>3. \A n \in 0 .. Depth : \A sub : Level(n, sub) \in X
  BY <1>1 DEF AllResults
<1>4. base \in X
  BY <1>0, <1>3
<1>5. step \in [1 .. Depth -> [X -> X]]
  BY <1>3
<1>6. \A n \in 1 .. Depth : \A sub \in X : step[n][sub] = Level(n, sub)
  OBVIOUS
<1> HIDE DEF step, X, base
<1>7. PICK f : Walks(f, Depth, X, base, step)
  BY <1>0, <1>4, <1>5, StepByStep
<1>8. Is(f)
  <2>1. ASSUME NEW n \in 0 .. Depth PROVE f[n] = Level(n, f[n - 1])
    <3>1. CASE n = 0
      BY <1>2, <1>7, <3>1 DEF Walks, base
    <3>2. CASE n \in 1 .. Depth
      <4>1. n - 1 \in 0 .. Depth /\ f[n] = step[n][f[n - 1]]
        BY <1>0, <1>7, <3>2 DEF Walks
      <4>2. f[n - 1] \in X
        BY <1>7, <4>1 DEF Walks
      <4> QED
        BY <1>6, <3>2, <4>1, <4>2
    <3> QED
      BY <3>1, <3>2
  <2>2. f \in [0 .. Depth -> X]
    BY <1>7 DEF Walks
  <2> QED
    BY <2>1, <2>2
<1>9. Is(means)
  <2> HIDE DEF Is
  <2> QED
    BY <1>8
<1>10. \A g : Means(index, g) = means[Depth][g][EntryIds(index)]
  BY DEF Means, Level, Meant, Branches, Passing
<1> HIDE DEF means
<1>11. \A n \in 0 .. Depth : means[n] = Level(n, means[n - 1])
  BY <1>9
<1>12. \A n \in 0 .. Depth : means[n] \in Results(index, n)
  BY <1>1, <1>11 DEF Level
<1>13. ASSUME NEW n \in 1 .. Depth, NEW g \in GroupsTo(n), NEW from \in Asked
       PROVE  means[n][g][from] = Kept(index, Meant(index, g, from, means[n - 1]), LimitsIn(g))
  <2>1. means[n] = Level(n, means[n - 1])
    BY <1>0, <1>11
  <2> QED
    BY <2>1 DEF Level
<1>14. MeansStepByStep(means, index)
  BY <1>10, <1>12, <1>13 DEF MeansStepByStep
<1> QED
  BY <1>14

\* Limits keep what they mean, whatever they are given.
LimitsAgree(index) ==
  \A limits \in SUBSET {r \in Conditions : r.kind \in Limits} : \A result \in SUBSET EntryIds(index) :
     IsFiniteSet(limits) => ApplyLimits(index, limits, result) = Kept(index, result, limits)

\* What a group finds among its candidates is what it means among them.
LEMMA FoundIsMeant ==
  ASSUME NEW index, NEW g, g.op \in {"and", "or"}, NEW from, NEW S, NEW f,
         from \in SUBSET S,
         \A c \in GroupsIn(g) : \A x \in SUBSET S : f[c][x] \in SUBSET S
  PROVE  Found(index, g, from, f) = Meant(index, g, from, f)
<1> DEFINE P == Predicates(g)
           G == GroupsIn(g)
           parts == Branches(index, g, from, f)
           test(r) == {id \in from : Test(index, r, id)}
           inner == IF g.op = "and" THEN Passing(index, g, from) ELSE from
<1>1. parts = {test(r) : r \in P} \cup {f[c][inner] : c \in G}
  BY DEF Branches
<1>2. parts = {} <=> P = {} /\ G = {}
  <2> HIDE DEF test, inner, P, G, parts
  <2> QED
    BY <1>1
<1>3. CASE g.op = "and"
  <2>1. inner = Passing(index, g, from)
    BY <1>3
  <2>2. ASSUME NEW id \in from
        PROVE  (\A Q \in parts : id \in Q) <=>
                 (\A r \in P : Test(index, r, id)) /\ \A c \in G : id \in f[c][inner]
    <3> HIDE DEF P, G, inner, parts
    <3> QED
      BY <1>1
  <2>3. Found(index, g, from, f) = {id \in from : \A Q \in parts : id \in Q}
    <3>1. Found(index, g, from, f) = {id \in Passing(index, g, from) : \A c \in G : id \in f[c][inner]}
      BY <1>3, <2>1 DEF Found
    <3>2. Passing(index, g, from) = {id \in from : \A r \in P : Test(index, r, id)}
      BY DEF Passing
    <3> HIDE DEF P, G, inner, parts
    <3> QED
      BY <2>2, <3>1, <3>2
  <2>4. parts = {} => {id \in from : \A Q \in parts : id \in Q} = from
    OBVIOUS
  <2> HIDE DEF parts
  <2> QED
    BY <1>3, <2>3, <2>4 DEF Meant, parts
<1>4. CASE g.op = "or"
  <2>1. inner = from /\ g.op # "and"
    BY <1>4
  <2>2. ASSUME NEW id \in from
        PROVE  (\E Q \in parts : id \in Q) <=>
                 (\E r \in P : Test(index, r, id)) \/ \E c \in G : id \in f[c][from]
    <3>1. (\E Q \in parts : id \in Q) <=>
             (\E r \in P : id \in test(r)) \/ \E c \in G : id \in f[c][inner]
      <4> HIDE DEF P, G, inner, parts, test
      <4> QED
        BY <1>1
    <3> HIDE DEF P, G, parts
    <3> QED
      BY <2>1, <3>1
  <2>3. Found(index, g, from, f) =
          IF P \cup G = {} THEN from
          ELSE {id \in from : \/ \E r \in P : Test(index, r, id)
                              \/ \E c \in G : id \in f[c][from]}
    BY <2>1 DEF Found
  <2>4. Meant(index, g, from, f) = IF parts = {} THEN from ELSE {id \in from : \E Q \in parts : id \in Q}
    BY <2>1 DEF Meant
  <2> HIDE DEF P, G, parts
  <2> QED
    BY <1>2, <2>2, <2>3, <2>4
<1> QED
  BY <1>3, <1>4

\* The two recursions agree at every level.
LEMMA LevelsAgree ==
  ASSUME NEW index, LimitsAgree(index), NEW f, EvalStepByStep(f, index),
         NEW h, MeansStepByStep(h, index)
  PROVE  \A n \in 0 .. Depth : f[n] = h[n]
<1> DEFINE S == {n \in Nat : n <= Depth => f[n] = h[n]}
           Asked == SUBSET EntryIds(index)
<1>1. 0 \in S
  <2>1. f[0] \in Results(index, 0) /\ h[0] \in Results(index, 0)
    BY SearchAssumption DEF EvalStepByStep, MeansStepByStep
  <2> QED
    BY <2>1, GroupLevels DEF Results
<1>2. ASSUME NEW n \in Nat, n \in S PROVE n + 1 \in S
  <2>1. SUFFICES ASSUME n + 1 <= Depth PROVE f[n + 1] = h[n + 1]
    OBVIOUS
  <2> DEFINE k == n + 1
  <2>2. k \in 1 .. Depth /\ k \in 0 .. Depth /\ k - 1 = n /\ n \in 0 .. Depth /\ k \in Nat /\ f[n] = h[n]
    BY <1>2, <2>1, SearchAssumption
  <2> HIDE DEF k
  <2>3. ASSUME NEW g \in GroupsTo(k), NEW from \in Asked PROVE f[k][g][from] = h[k][g][from]
    <3>1. f[k][g][from] = ApplyLimits(index, LimitsIn(g), Found(index, g, from, f[n]))
      BY <2>2 DEF EvalStepByStep
    <3>2. h[k][g][from] = Kept(index, Meant(index, g, from, f[n]), LimitsIn(g))
      BY <2>2 DEF MeansStepByStep
    <3>3. Found(index, g, from, f[n]) = Meant(index, g, from, f[n])
      <4>1. g.op \in {"and", "or"} /\ GroupsIn(g) \subseteq GroupsTo(n)
        BY <2>2, GroupFacts
      <4>2. f[n] \in Results(index, n)
        BY <2>2 DEF EvalStepByStep
      <4>3. \A c \in GroupsIn(g) : \A x \in Asked : f[n][c][x] \in Asked
        BY <4>1, <4>2 DEF Results
      <4> QED
        BY <4>1, <4>3, FoundIsMeant
    <3>4. Found(index, g, from, f[n]) \in Asked
      BY DEF Found, Passing
    <3>5. LimitsIn(g) \in SUBSET {r \in Conditions : r.kind \in Limits}
      <4>1. LimitsIn(g) \subseteq Conditions
        BY <2>2, GroupFacts
      <4> QED
        BY <4>1 DEF LimitsIn
    <3>8. IsFiniteSet(LimitsIn(g))
      BY <2>2, LimitsFinite
    <3> DEFINE F == Found(index, g, from, f[n])
               L == LimitsIn(g)
    <3>6. F \in Asked /\ L \in SUBSET {r \in Conditions : r.kind \in Limits} /\ IsFiniteSet(L)
      BY <3>4, <3>5, <3>8
    <3> HIDE DEF F, L
    <3>7. ApplyLimits(index, L, F) = Kept(index, F, L)
      BY <3>6 DEF LimitsAgree
    <3> QED
      BY <3>1, <3>2, <3>3, <3>7 DEF F, L
  <2>4. f[k] \in Results(index, k) /\ h[k] \in Results(index, k)
    BY <2>2 DEF EvalStepByStep, MeansStepByStep
  <2>5. f[k] = h[k]
    <3> DEFINE A == GroupsTo(k)
    <3>1. f[k] \in [A -> [Asked -> Asked]] /\ h[k] \in [A -> [Asked -> Asked]]
      BY <2>4 DEF Results
    <3>2. \A g \in A : \A from \in Asked : f[k][g][from] = h[k][g][from]
      BY <2>3
    <3> HIDE DEF A, Asked
    <3>3. \A g \in A : f[k][g] = h[k][g]
      BY <3>1, <3>2
    <3> QED
      BY <3>1, <3>3
  <2> QED
    BY <2>5 DEF k
<1> HIDE DEF S
<1>3. Nat \subseteq S
  BY <1>1, <1>2, NatsBySteps
<1> QED
  BY <1>3, SearchAssumption DEF S

\* Evaluating a group from all entries finds what it means, and from fewer if
\* none that an AND group's own rows accept is missing.
LEMMA EvalIsMeaning ==
  ASSUME NEW index, LimitsAgree(index), NEW group \in GroupsTo(Depth),
         NEW from \in SUBSET EntryIds(index),
         \/ from = EntryIds(index)
         \/ group.op = "and" /\ Passing(index, group, from) = Passing(index, group, EntryIds(index))
  PROVE  EvalGroup(index, group, from) = Means(index, group)
<1> DEFINE all == EntryIds(index)
<1>1. PICK f : EvalStepByStep(f, index)
  BY EvalLevels
<1>2. PICK h : MeansStepByStep(h, index)
  BY MeansLevels
<1>3. Depth \in 1 .. Depth
  <2>1. Depth \in Nat
    BY SearchAssumption
  <2>2. Depth - 1 \in Nat
    BY <2>1, GroupFacts
  <2> QED
    BY <2>1, <2>2
<1>4. f[Depth] = h[Depth]
  BY <1>1, <1>2, <1>3, LevelsAgree
<1>5. Means(index, group) = f[Depth][group][all]
  BY <1>2, <1>4 DEF MeansStepByStep
<1>6. EvalGroup(index, group, from) = f[Depth][group][from]
  BY <1>1 DEF EvalStepByStep
<1>7. \A x \in SUBSET all : f[Depth][group][x] =
        ApplyLimits(index, LimitsIn(group), Found(index, group, x, f[Depth - 1]))
  BY <1>1, <1>3 DEF EvalStepByStep
<1>8. Found(index, group, from, f[Depth - 1]) = Found(index, group, all, f[Depth - 1])
  <2>1. CASE from = all
    BY <2>1
  <2>2. CASE group.op = "and" /\ Passing(index, group, from) = Passing(index, group, all)
    BY <2>2 DEF Found
  <2> QED
    BY <2>1, <2>2
<1> QED
  BY <1>5, <1>6, <1>7, <1>8

-----------------------------------------------------------------------------
(* Trees without limits are formulas                                       *)

Nodes(n)  == Conditions \cup GroupsTo(n)
Truths(n) == [Nodes(n) -> BOOLEAN]
AllTruths == UNION {Truths(n) : n \in 0 .. Depth}

\* Whether a node holds for an entry is defined level by level.
HoldsStepByStep(f, index, id) ==
  /\ \A n \in 0 .. Depth : f[n] \in Truths(n)
  /\ \A n \in 0 .. Depth : \A r \in Conditions : f[n][r] <=> Test(index, r, id)
  /\ \A n \in 1 .. Depth : \A g \in GroupsTo(n) :
       f[n][g] <=> IF g.op = "and" THEN \A x \in ToSet(g.children) : f[n - 1][x]
                   ELSE \E x \in ToSet(g.children) : f[n - 1][x]
  /\ \A g \in GroupsTo(Depth) : Satisfies(index, g, id) <=> f[Depth][g]

\* Rows are no groups.
LEMMA NodeFacts ==
  /\ \A r \in Conditions : ~ IsGroup(r)
  /\ \A n \in Nat : \A g \in GroupsTo(n) : IsGroup(g)
  /\ GroupsTo(0) = {}
BY GroupFacts, GroupLevels, SearchAssumption DEF IsGroup

\* The truth of a tree for an entry goes level by level.
LEMMA HoldsLevels ==
  ASSUME NEW index, NEW id
  PROVE  \E f : HoldsStepByStep(f, index, id)
<1> DEFINE X == AllTruths
           Body(c, sub) == IF ~ IsGroup(c) THEN Test(index, c, id)
                           ELSE IF c.op = "and" THEN \A x \in ToSet(c.children) : sub[x]
                           ELSE \E x \in ToSet(c.children) : sub[x]
           Level(n, sub) == [c \in Nodes(n) |-> Body(c, sub)]
           base == Level(0, {})
           step == [n \in 1 .. Depth |-> [sub \in X |-> Level(n, sub)]]
           Is(f) == f = [n \in 0 .. Depth |-> Level(n, f[n - 1])]
           holds == CHOOSE f : Is(f)
<1>0. Depth \in Nat
  BY SearchAssumption
<1>1. ASSUME NEW n \in 0 .. Depth, NEW sub PROVE Level(n, sub) \in Truths(n)
  <2>1. ASSUME NEW c \in Nodes(n) PROVE Body(c, sub) \in BOOLEAN
    <3>1. Test(index, c, id) \in BOOLEAN
      BY DEF Test
    <3> QED
      BY <3>1
  <2> HIDE DEF Body
  <2> QED
    BY <2>1 DEF Truths
<1>2. \A x, y : Level(0, x) = Level(0, y)
  <2>1. ASSUME NEW x, NEW y, NEW c \in Nodes(0) PROVE Body(c, x) = Body(c, y)
    <3>1. ~ IsGroup(c)
      BY NodeFacts DEF Nodes
    <3> QED
      BY <3>1
  <2> HIDE DEF Body
  <2> QED
    BY <2>1
<1>3. \A n \in 0 .. Depth : \A sub : Level(n, sub) \in X
  <2> HIDE DEF Level
  <2> QED
    BY <1>1 DEF AllTruths
<1> HIDE DEF Level
<1>4. base \in X
  BY <1>0, <1>3
<1>5. step \in [1 .. Depth -> [X -> X]]
  BY <1>3
<1>6. \A n \in 1 .. Depth : \A sub \in X : step[n][sub] = Level(n, sub)
  OBVIOUS
<1> HIDE DEF step, X, base
<1>7. PICK f : Walks(f, Depth, X, base, step)
  BY <1>0, <1>4, <1>5, StepByStep
<1>8. Is(f)
  <2>1. ASSUME NEW n \in 0 .. Depth PROVE f[n] = Level(n, f[n - 1])
    <3>1. CASE n = 0
      BY <1>2, <1>7, <3>1 DEF Walks, base
    <3>2. CASE n \in 1 .. Depth
      <4>1. n - 1 \in 0 .. Depth /\ f[n] = step[n][f[n - 1]]
        BY <1>0, <1>7, <3>2 DEF Walks
      <4>2. f[n - 1] \in X
        BY <1>7, <4>1 DEF Walks
      <4> QED
        BY <1>6, <3>2, <4>1, <4>2
    <3> QED
      BY <3>1, <3>2
  <2>2. f \in [0 .. Depth -> X]
    BY <1>7 DEF Walks
  <2> QED
    BY <2>1, <2>2
<1>9. Is(holds)
  <2> HIDE DEF Is
  <2> QED
    BY <1>8
<1>10. \A g : Satisfies(index, g, id) <=> holds[Depth][g]
  BY DEF Satisfies, Level, Nodes
<1> HIDE DEF holds
<1>11. \A n \in 0 .. Depth : holds[n] = Level(n, holds[n - 1])
  BY <1>9
<1>12. \A n \in 0 .. Depth : holds[n] \in Truths(n)
  BY <1>1, <1>11
<1>13. ASSUME NEW n \in 0 .. Depth, NEW r \in Conditions PROVE holds[n][r] <=> Test(index, r, id)
  <2>1. holds[n][r] = Body(r, holds[n - 1])
    <3> HIDE DEF Body
    <3> QED
      BY <1>11 DEF Level, Nodes
  <2>2. ~ IsGroup(r)
    BY NodeFacts
  <2> QED
    BY <2>1, <2>2
<1>14. ASSUME NEW n \in 1 .. Depth, NEW g \in GroupsTo(n)
       PROVE  holds[n][g] <=> IF g.op = "and" THEN \A x \in ToSet(g.children) : holds[n - 1][x]
                              ELSE \E x \in ToSet(g.children) : holds[n - 1][x]
  <2>1. holds[n][g] = Body(g, holds[n - 1])
    <3>1. n \in 0 .. Depth /\ g \in Nodes(n)
      BY <1>0 DEF Nodes
    <3> HIDE DEF Body
    <3> QED
      BY <1>11, <3>1 DEF Level
  <2>2. IsGroup(g)
    <3>1. n \in Nat
      BY <1>0
    <3> QED
      BY <3>1, NodeFacts
  <2> QED
    BY <2>1, <2>2
<1>15. HoldsStepByStep(holds, index, id)
  BY <1>10, <1>12, <1>13, <1>14 DEF HoldsStepByStep
<1> QED
  BY <1>15

\* So is whether it has a limit.
HasStepByStep(f) ==
  /\ \A n \in 0 .. Depth : f[n] \in Truths(n)
  /\ \A n \in 0 .. Depth : \A r \in Conditions : f[n][r] <=> r.kind \in Limits
  /\ \A n \in 1 .. Depth : \A g \in GroupsTo(n) :
       f[n][g] <=> \E x \in ToSet(g.children) : f[n - 1][x]
  /\ \A g \in GroupsTo(Depth) : HasLimits(g) <=> f[Depth][g]

\* Whether a tree has limits goes level by level.
LEMMA HasLevels ==
  \E f : HasStepByStep(f)
<1> DEFINE X == AllTruths
           Body(c, sub) == IF IsGroup(c) THEN \E x \in ToSet(c.children) : sub[x]
                           ELSE c.kind \in Limits
           Level(n, sub) == [c \in Nodes(n) |-> Body(c, sub)]
           base == Level(0, {})
           step == [n \in 1 .. Depth |-> [sub \in X |-> Level(n, sub)]]
           Is(f) == f = [n \in 0 .. Depth |-> Level(n, f[n - 1])]
           has == CHOOSE f : Is(f)
<1>0. Depth \in Nat
  BY SearchAssumption
<1>1. ASSUME NEW n \in 0 .. Depth, NEW sub PROVE Level(n, sub) \in Truths(n)
  <2>1. ASSUME NEW c \in Nodes(n) PROVE Body(c, sub) \in BOOLEAN
    <3>1. (c.kind \in Limits) \in BOOLEAN /\ (\E x \in ToSet(c.children) : sub[x]) \in BOOLEAN
      OBVIOUS
    <3> QED
      BY <3>1
  <2> HIDE DEF Body
  <2> QED
    BY <2>1 DEF Truths
<1>2. \A x, y : Level(0, x) = Level(0, y)
  <2>1. ASSUME NEW x, NEW y, NEW c \in Nodes(0) PROVE Body(c, x) = Body(c, y)
    <3>1. ~ IsGroup(c)
      BY NodeFacts DEF Nodes
    <3> QED
      BY <3>1
  <2> HIDE DEF Body
  <2> QED
    BY <2>1
<1>3. \A n \in 0 .. Depth : \A sub : Level(n, sub) \in X
  <2> HIDE DEF Level
  <2> QED
    BY <1>1 DEF AllTruths
<1> HIDE DEF Level
<1>4. base \in X
  BY <1>0, <1>3
<1>5. step \in [1 .. Depth -> [X -> X]]
  BY <1>3
<1>6. \A n \in 1 .. Depth : \A sub \in X : step[n][sub] = Level(n, sub)
  OBVIOUS
<1> HIDE DEF step, X, base
<1>7. PICK f : Walks(f, Depth, X, base, step)
  BY <1>0, <1>4, <1>5, StepByStep
<1>8. Is(f)
  <2>1. ASSUME NEW n \in 0 .. Depth PROVE f[n] = Level(n, f[n - 1])
    <3>1. CASE n = 0
      BY <1>2, <1>7, <3>1 DEF Walks, base
    <3>2. CASE n \in 1 .. Depth
      <4>1. n - 1 \in 0 .. Depth /\ f[n] = step[n][f[n - 1]]
        BY <1>0, <1>7, <3>2 DEF Walks
      <4>2. f[n - 1] \in X
        BY <1>7, <4>1 DEF Walks
      <4> QED
        BY <1>6, <3>2, <4>1, <4>2
    <3> QED
      BY <3>1, <3>2
  <2>2. f \in [0 .. Depth -> X]
    BY <1>7 DEF Walks
  <2> QED
    BY <2>1, <2>2
<1>9. Is(has)
  <2> HIDE DEF Is
  <2> QED
    BY <1>8
<1>10. \A g : HasLimits(g) <=> has[Depth][g]
  BY DEF HasLimits, Level, Nodes
<1> HIDE DEF has
<1>11. \A n \in 0 .. Depth : has[n] = Level(n, has[n - 1])
  BY <1>9
<1>12. \A n \in 0 .. Depth : has[n] \in Truths(n)
  BY <1>1, <1>11
<1>13. ASSUME NEW n \in 0 .. Depth, NEW r \in Conditions PROVE has[n][r] <=> r.kind \in Limits
  <2>1. has[n][r] = Body(r, has[n - 1])
    <3> HIDE DEF Body
    <3> QED
      BY <1>11 DEF Level, Nodes
  <2>2. ~ IsGroup(r)
    BY NodeFacts
  <2> QED
    BY <2>1, <2>2
<1>14. ASSUME NEW n \in 1 .. Depth, NEW g \in GroupsTo(n)
       PROVE  has[n][g] <=> \E x \in ToSet(g.children) : has[n - 1][x]
  <2>1. has[n][g] = Body(g, has[n - 1])
    <3>1. n \in 0 .. Depth /\ g \in Nodes(n)
      BY <1>0 DEF Nodes
    <3> HIDE DEF Body
    <3> QED
      BY <1>11, <3>1 DEF Level
  <2>2. IsGroup(g)
    <3>1. n \in Nat
      BY <1>0
    <3> QED
      BY <3>1, NodeFacts
  <2> QED
    BY <2>1, <2>2
<1>15. HasStepByStep(has)
  BY <1>10, <1>12, <1>13, <1>14 DEF HasStepByStep
<1> QED
  BY <1>15

\* With no limit in it a tree finds exactly the candidates that satisfy it.
LEMMA FormulaLevels ==
  ASSUME NEW index, NEW id \in EntryIds(index), NEW f, EvalStepByStep(f, index),
         NEW holds, HoldsStepByStep(holds, index, id), NEW has, HasStepByStep(has)
  PROVE  \A n \in 0 .. Depth : \A g \in GroupsTo(n) : \A from \in SUBSET EntryIds(index) :
            ~ has[n][g] /\ id \in from => (id \in f[n][g][from] <=> holds[n][g])
<1> DEFINE Asked == SUBSET EntryIds(index)
           Same(n) == \A g \in GroupsTo(n) : \A from \in Asked :
                         ~ has[n][g] /\ id \in from => (id \in f[n][g][from] <=> holds[n][g])
           S == {n \in Nat : n <= Depth => Same(n)}
<1>1. 0 \in S
  BY GroupLevels
<1>2. ASSUME NEW m \in Nat, m \in S PROVE m + 1 \in S
  <2>1. SUFFICES ASSUME m + 1 <= Depth PROVE Same(m + 1)
    OBVIOUS
  <2> DEFINE n == m + 1
  <2>2. n \in 1 .. Depth /\ n \in 0 .. Depth /\ n - 1 = m /\ m \in 0 .. Depth /\ n \in Nat
    BY <2>1, SearchAssumption
  <2>3. Same(m)
    <3> HIDE DEF Same
    <3>1. m <= Depth
      BY <2>1, SearchAssumption
    <3> QED
      BY <1>2, <3>1
  <2> HIDE DEF n
  <2>4. ASSUME NEW g \in GroupsTo(n), NEW from \in Asked, ~ has[n][g], id \in from
        PROVE  id \in f[n][g][from] <=> holds[n][g]
    <3> DEFINE C == ToSet(g.children)
               G == GroupsIn(g)
               R == RowsIn(g)
    <3>1. /\ G \subseteq GroupsTo(m) /\ R \subseteq Conditions /\ C = G \cup R /\ C # {}
          /\ g.op \in {"and", "or"}
      BY <2>2, GroupFacts
    <3>2. \A x \in C : ~ has[m][x]
      BY <2>2, <2>4 DEF HasStepByStep
    <3>3. \A r \in R : r.kind \notin Limits
      <4> HIDE DEF C, R, G
      <4> QED
        BY <2>2, <3>1, <3>2 DEF HasStepByStep
    <3>4. LimitsIn(g) = {} /\ Predicates(g) = R
      BY <3>3 DEF LimitsIn, Predicates
    <3>5. f[n][g][from] = Found(index, g, from, f[m])
      <4>1. f[n][g][from] = ApplyLimits(index, LimitsIn(g), Found(index, g, from, f[m]))
        BY <2>2 DEF EvalStepByStep
      <4> DEFINE F == Found(index, g, from, f[m])
      <4> HIDE DEF F
      <4>2. ApplyLimits(index, {}, F) = F
        BY DEF ApplyLimits
      <4> QED
        BY <3>4, <4>1, <4>2 DEF F
    <3>6. \A r \in R : holds[m][r] <=> Test(index, r, id)
      BY <2>2, <3>1 DEF HoldsStepByStep
    <3>7. ASSUME NEW c \in G, NEW x \in Asked, id \in x
          PROVE  id \in f[m][c][x] <=> holds[m][c]
      <4>1. c \in GroupsTo(m) /\ ~ has[m][c]
        <5> HIDE DEF C, G, R
        <5> QED
          BY <3>1, <3>2, <3>7
      <4> QED
        BY <2>3, <3>7, <4>1
    <3>8. CASE g.op = "and"
      <4> DEFINE P == Passing(index, g, from)
      <4>1. holds[n][g] <=> \A x \in C : holds[m][x]
        BY <2>2, <3>8 DEF HoldsStepByStep
      <4>2. P \in Asked /\ (id \in P <=> \A r \in R : Test(index, r, id))
        BY <2>4, <3>4 DEF Passing
      <4>3. Found(index, g, from, f[m]) = {i \in P : \A c \in G : i \in f[m][c][P]}
        BY <3>8 DEF Found
      <4> HIDE DEF P, C, G, R
      <4>4. id \in Found(index, g, from, f[m]) <=> id \in P /\ \A c \in G : id \in f[m][c][P]
        BY <4>3
      <4>5. (\A x \in C : holds[m][x]) <=> (\A r \in R : holds[m][r]) /\ \A c \in G : holds[m][c]
        BY <3>1
      <4>6. id \in P => ((\A c \in G : id \in f[m][c][P]) <=> \A c \in G : holds[m][c])
        BY <3>7, <4>2
      <4> QED
        BY <3>5, <3>6, <4>1, <4>2, <4>4, <4>5, <4>6
    <3>9. CASE g.op = "or"
      <4>1. holds[n][g] <=> \E x \in C : holds[m][x]
        BY <2>2, <3>9 DEF HoldsStepByStep
      <4>2. Found(index, g, from, f[m]) =
              {i \in from : (\E r \in R : Test(index, r, i)) \/ \E c \in G : i \in f[m][c][from]}
        BY <3>1, <3>4, <3>9 DEF Found
      <4> HIDE DEF C, G, R
      <4>3. id \in Found(index, g, from, f[m]) <=>
              (\E r \in R : Test(index, r, id)) \/ \E c \in G : id \in f[m][c][from]
        BY <2>4, <4>2
      <4>4. (\E x \in C : holds[m][x]) <=> (\E r \in R : holds[m][r]) \/ \E c \in G : holds[m][c]
        BY <3>1
      <4>5. (\E c \in G : id \in f[m][c][from]) <=> \E c \in G : holds[m][c]
        BY <2>4, <3>7
      <4>6. (\E r \in R : Test(index, r, id)) <=> \E r \in R : holds[m][r]
        BY <3>6
      <4> QED
        BY <3>5, <4>1, <4>3, <4>4, <4>5, <4>6
    <3> QED
      BY <3>1, <3>8, <3>9
  <2>5. Same(n)
    BY <2>4
  <2> QED
    BY <2>5 DEF n
<1> HIDE DEF S
<1>3. Nat \subseteq S
  BY <1>1, <1>2, NatsBySteps
<1>4. \A n \in 0 .. Depth : Same(n)
  BY <1>3, SearchAssumption DEF S
<1> QED
  BY <1>4

\* A tree without limits finds the entries that make it true as a formula.
LEMMA FormulaTrees ==
  ASSUME NEW index, NEW group \in GroupsTo(Depth), ~ HasLimits(group),
         NEW id \in EntryIds(index)
  PROVE  id \in EvalGroup(index, group, EntryIds(index)) <=> Satisfies(index, group, id)
<1> DEFINE all == EntryIds(index)
<1>1. PICK f : EvalStepByStep(f, index)
  BY EvalLevels
<1>2. PICK holds : HoldsStepByStep(holds, index, id)
  BY HoldsLevels
<1>3. PICK has : HasStepByStep(has)
  BY HasLevels
<1>4. Depth \in 0 .. Depth /\ all \in SUBSET all
  BY SearchAssumption
<1>5. ~ has[Depth][group]
  BY <1>3 DEF HasStepByStep
<1>6. id \in f[Depth][group][all] <=> holds[Depth][group]
  BY <1>1, <1>2, <1>3, <1>4, <1>5, FormulaLevels
<1>7. EvalGroup(index, group, all) = f[Depth][group][all]
  BY <1>1, <1>4 DEF EvalStepByStep
<1>8. Satisfies(index, group, id) <=> holds[Depth][group]
  BY <1>2 DEF HoldsStepByStep
<1> QED
  BY <1>6, <1>7, <1>8

-----------------------------------------------------------------------------
(* Alphabetical order                                                      *)

\* Words differ at a first tile, or one of them is the beginning of the other.
LEMMA FirstDifference ==
  ASSUME NEW a \in Seq(Nat), NEW b \in Seq(Nat), a # b
  PROVE  \E i \in Nat \ {0} : /\ i <= Len(a) + 1 /\ i <= Len(b) + 1
                              /\ \A j \in 1 .. i - 1 : a[j] = b[j]
                              /\ ~ (i = Len(a) + 1 /\ i = Len(b) + 1)
                              /\ i <= Len(a) /\ i <= Len(b) => a[i] # b[i]
<1> DEFINE Agree(k) == k <= Len(a) /\ k <= Len(b) /\ \A j \in 1 .. k : a[j] = b[j]
           S == {k \in Nat : Agree(k)}
<1>1. Len(a) \in Nat /\ Len(b) \in Nat /\ a \in [1 .. Len(a) -> Nat] /\ b \in [1 .. Len(b) -> Nat]
  OBVIOUS
<1>2. 0 \in S
  BY <1>1
<1>3. ~ (Nat \subseteq S)
  <2>1. Len(a) + 1 \in Nat /\ Len(a) + 1 \notin S
    BY <1>1
  <2> QED
    BY <2>1
<1> HIDE DEF S
<1>4. PICK k \in Nat : k \in S /\ k + 1 \notin S
  BY <1>2, <1>3, NatsBySteps
<1> DEFINE i == k + 1
<1>5. k <= Len(a) /\ k <= Len(b) /\ (\A j \in 1 .. k : a[j] = b[j]) /\ ~ Agree(k + 1)
  BY <1>4 DEF S
<1>6. i \in Nat \ {0} /\ i <= Len(a) + 1 /\ i <= Len(b) + 1 /\ 1 .. i - 1 = 1 .. k
  BY <1>1, <1>5
<1>7. i <= Len(a) /\ i <= Len(b) => a[i] # b[i]
  <2>1. ASSUME i <= Len(a), i <= Len(b), a[i] = b[i] PROVE FALSE
    <3>1. \A j \in 1 .. k + 1 : a[j] = b[j]
      <4>1. \A j \in 1 .. k + 1 : j = k + 1 \/ j \in 1 .. k
        OBVIOUS
      <4> QED
        BY <1>5, <2>1, <4>1
    <3> QED
      BY <1>5, <2>1, <3>1
  <2> QED
    BY <2>1
<1>8. ~ (i = Len(a) + 1 /\ i = Len(b) + 1)
  <2>1. ASSUME i = Len(a) + 1, i = Len(b) + 1 PROVE FALSE
    <3> DEFINE m == Len(a)
               n == Len(b)
    <3>3. m \in Nat /\ n \in Nat /\ k + 1 = m + 1 /\ k + 1 = n + 1
      BY <1>1, <2>1
    <3> HIDE DEF m, n
    <3>4. m = k /\ n = k
      BY <3>3
    <3>1. Len(a) = k /\ Len(b) = k
      BY <3>4 DEF m, n
    <3>2. a = b
      BY <1>1, <1>5, <3>1
    <3> QED
      BY <3>2
  <2> QED
    BY <2>1
<1> QED
  BY <1>5, <1>6, <1>7, <1>8

\* Alphabetical order is a strict total order of the words.
LEMMA BeforeOrders ==
  /\ \A a \in Seq(Nat) : ~ Before(a, a)
  /\ \A a, b, c \in Seq(Nat) : Before(a, b) /\ Before(b, c) => Before(a, c)
  /\ \A a, b \in Seq(Nat) : a # b => Before(a, b) \/ Before(b, a)
<1>1. ASSUME NEW a \in Seq(Nat), Before(a, a) PROVE FALSE
  <2>1. PICK i \in 1 .. Len(a) : i <= Len(a) => a[i] < a[i]
    BY <1>1 DEF Before
  <2>2. a[i] \in Nat
    OBVIOUS
  <2> QED
    BY <2>1, <2>2
<1>2. ASSUME NEW a \in Seq(Nat), NEW b \in Seq(Nat), NEW c \in Seq(Nat), Before(a, b), Before(b, c)
      PROVE  Before(a, c)
  <2>1. PICK i \in 1 .. Len(b) : /\ i <= Len(a) + 1
                                 /\ \A j \in 1 .. i - 1 : a[j] = b[j]
                                 /\ i <= Len(a) => a[i] < b[i]
    BY <1>2 DEF Before
  <2>2. PICK k \in 1 .. Len(c) : /\ k <= Len(b) + 1
                                 /\ \A j \in 1 .. k - 1 : b[j] = c[j]
                                 /\ k <= Len(b) => b[k] < c[k]
    BY <1>2 DEF Before
  <2>3. Len(a) \in Nat /\ Len(b) \in Nat /\ Len(c) \in Nat
    OBVIOUS
  <2>4. CASE i < k
    <3>1. i \in 1 .. Len(c) /\ b[i] = c[i] /\ \A j \in 1 .. i - 1 : a[j] = c[j]
      BY <2>1, <2>2, <2>3, <2>4
    <3> QED
      BY <2>1, <3>1 DEF Before
  <2>5. CASE k < i
    <3>4. k <= Len(b) /\ k <= Len(a) /\ k \in 1 .. i - 1
      BY <2>1, <2>2, <2>3, <2>5
    <3>5. \A j \in 1 .. k - 1 : j \in 1 .. i - 1
      BY <2>5
    <3>1. k <= Len(b) /\ k <= Len(a) /\ a[k] = b[k] /\ \A j \in 1 .. k - 1 : a[j] = c[j]
      BY <2>1, <2>2, <3>4, <3>5
    <3>2. a[k] < c[k]
      BY <2>2, <3>1
    <3>3. k \in 1 .. Len(c) /\ k <= Len(a) + 1
      BY <2>3, <3>1
    <3> QED
      BY <3>1, <3>2, <3>3 DEF Before
  <2>6. CASE i = k
    <3>1. \A j \in 1 .. i - 1 : a[j] = c[j]
      BY <2>1, <2>2, <2>6
    <3>2. i <= Len(a) => a[i] < c[i]
      <4>1. SUFFICES ASSUME i <= Len(a) PROVE a[i] < c[i]
        OBVIOUS
      <4>2. a[i] < b[i] /\ b[i] < c[i]
        BY <2>1, <2>2, <2>6, <4>1
      <4>4. i \in 1 .. Len(a) /\ i \in 1 .. Len(b) /\ i \in 1 .. Len(c)
        BY <2>1, <2>2, <2>3, <2>6, <4>1
      <4>3. a[i] \in Nat /\ b[i] \in Nat /\ c[i] \in Nat
        BY <4>4
      <4> QED
        BY <4>2, <4>3
    <3> QED
      BY <2>1, <2>2, <2>6, <3>1, <3>2 DEF Before
  <2> QED
    BY <2>1, <2>2, <2>4, <2>5, <2>6
<1>3. ASSUME NEW a \in Seq(Nat), NEW b \in Seq(Nat), a # b
      PROVE  Before(a, b) \/ Before(b, a)
  <2>1. PICK i \in Nat \ {0} : /\ i <= Len(a) + 1 /\ i <= Len(b) + 1
                               /\ \A j \in 1 .. i - 1 : a[j] = b[j]
                               /\ ~ (i = Len(a) + 1 /\ i = Len(b) + 1)
                               /\ i <= Len(a) /\ i <= Len(b) => a[i] # b[i]
    BY <1>3, FirstDifference
  <2>2. Len(a) \in Nat /\ Len(b) \in Nat
    OBVIOUS
  <2>3. CASE i = Len(a) + 1
    <3>1. i \in 1 .. Len(b) /\ ~ (i <= Len(a))
      BY <2>1, <2>2, <2>3
    <3> QED
      BY <2>1, <3>1 DEF Before
  <2>4. CASE i = Len(b) + 1
    <3>1. i \in 1 .. Len(a) /\ ~ (i <= Len(b))
      BY <2>1, <2>2, <2>4
    <3> QED
      BY <2>1, <3>1 DEF Before
  <2>5. CASE i <= Len(a) /\ i <= Len(b)
    <3>1. i \in 1 .. Len(a) /\ i \in 1 .. Len(b) /\ (a[i] < b[i] \/ b[i] < a[i])
      <4>1. a[i] \in Nat /\ b[i] \in Nat
        BY <2>2, <2>5
      <4> QED
        BY <2>1, <2>5, <4>1
    <3> QED
      BY <2>1, <3>1 DEF Before
  <2> QED
    BY <2>1, <2>2, <2>3, <2>4, <2>5
<1> QED
  BY <1>1, <1>2, <1>3

-----------------------------------------------------------------------------
(* Limits                                                                  *)

Final(S, R, x)  == x \in S /\ \A y \in S : <<x, y>> \notin R
Initial(S, R, x) == x \in S /\ \A y \in S : <<y, x>> \notin R

\* A finite set has a last and a first element in every total order.
LEMMA Ends ==
  ASSUME NEW S, IsFiniteSet(S), S # {}, NEW R, Orders(R, S)
  PROVE  (\E x : Final(S, R, x)) /\ \E x : Initial(S, R, x)
<1> DEFINE n == Cardinality(S)
           c == [x \in S |-> Cardinality(Under(R, S, x))]
<1>1. n \in Nat /\ n # 0
  BY FS_CardinalityType, FS_EmptySet
<1>2. /\ \A x \in S : c[x] \in 0 .. n - 1
      /\ \A x, y \in S : <<x, y>> \in R <=> c[x] < c[y]
      /\ \A i \in 1 .. n : \E x \in S : c[x] = i - 1
  BY Positions
<1> HIDE DEF n, c
<1>3. PICK x \in S : c[x] = n - 1
  <2>1. n \in 1 .. n
    BY <1>1
  <2> QED
    BY <1>2, <2>1
<1>4. PICK z \in S : c[z] = 0
  <2>1. 1 \in 1 .. n /\ 1 - 1 = 0
    BY <1>1
  <2> QED
    BY <1>2, <2>1
<1>5. Final(S, R, x)
  BY <1>1, <1>2, <1>3 DEF Final
<1>6. Initial(S, R, z)
  BY <1>1, <1>2, <1>4 DEF Initial
<1> QED
  BY <1>5, <1>6

\* A finite set of numbers that is not empty has a greatest.
LEMMA Greatest ==
  ASSUME NEW S, IsFiniteSet(S), S # {}, S \subseteq Int
  PROVE  Max(S) \in S /\ \A y \in S : y <= Max(S)
<1> DEFINE R == {p \in S \X S : p[1] < p[2]}
<1>1. Orders(R, S)
  BY DEF Orders
<1>2. \E x : Final(S, R, x)
  <2> HIDE DEF R
  <2> QED
    BY <1>1, Ends
<1>3. PICK x : Final(S, R, x)
  BY <1>2
<1>4. x \in S /\ \A y \in S : x >= y
  <2>1. x \in S /\ \A y \in S : <<x, y>> \notin R
    BY <1>3 DEF Final
  <2>2. ASSUME NEW y \in S, x < y PROVE <<x, y>> \in R
    BY <2>1, <2>2
  <2> HIDE DEF R
  <2>3. ASSUME NEW y \in S PROVE x >= y
    <3>1. x \in Int /\ y \in Int
      BY <2>1
    <3>2. ~ (x < y)
      BY <2>1, <2>2
    <3> QED
      BY <3>1, <3>2
  <2> QED
    BY <2>1, <2>3
<1> QED
  BY <1>4 DEF Max

\* It also has a least.
LEMMA Least ==
  ASSUME NEW S, IsFiniteSet(S), S # {}, S \subseteq Int
  PROVE  Min(S) \in S /\ \A y \in S : Min(S) <= y
<1> DEFINE R == {p \in S \X S : p[1] < p[2]}
<1>1. Orders(R, S)
  BY DEF Orders
<1>2. \E x : Initial(S, R, x)
  <2> HIDE DEF R
  <2> QED
    BY <1>1, Ends
<1>3. PICK x : Initial(S, R, x)
  BY <1>2
<1>4. x \in S /\ \A y \in S : x <= y
  <2>1. x \in S /\ \A y \in S : <<y, x>> \notin R
    BY <1>3 DEF Initial
  <2>2. ASSUME NEW y \in S, y < x PROVE <<y, x>> \in R
    BY <2>1, <2>2
  <2> HIDE DEF R
  <2>3. ASSUME NEW y \in S PROVE x <= y
    <3>1. x \in Int /\ y \in Int
      BY <2>1
    <3>2. ~ (y < x)
      BY <2>1, <2>2
    <3> QED
      BY <3>1, <3>2
  <2> QED
    BY <2>1, <2>3
<1> QED
  BY <1>4 DEF Min

\* An open bound is a number.
LEMMA Unbounded == INFINITY \in Nat /\ 1 <= INFINITY
BY SMT DEF INFINITY

RangesAreWhole(limits) == \A r \in limits : r.range.min \in Int /\ r.range.max \in Int

\* The reduced range holds the ranks that are inside every one.
LEMMA ReducedFacts ==
  ASSUME NEW limits, IsFiniteSet(limits), RangesAreWhole(limits)
  PROVE  /\ Reduced(limits).min \in Int /\ Reduced(limits).max \in Int
         /\ 1 <= Reduced(limits).min /\ Reduced(limits).max <= INFINITY
         /\ \A k \in 1 .. INFINITY :
              Reduced(limits).min <= k /\ k <= Reduced(limits).max <=> \A r \in limits : Inside(r.range, k)
<1> DEFINE f == [r \in limits |-> r.range.min]
           h == [r \in limits |-> r.range.max]
           A == {1} \cup {f[r] : r \in limits}
           B == {INFINITY} \cup {h[r] : r \in limits}
<1>1. Reduced(limits).min = Max(A) /\ Reduced(limits).max = Min(B)
  <2>1. {f[r] : r \in limits} = {r.range.min : r \in limits} /\ {h[r] : r \in limits} = {r.range.max : r \in limits}
    OBVIOUS
  <2> QED
    BY <2>1 DEF Reduced
<1>2. IsFiniteSet(A) /\ A # {} /\ A \subseteq Int /\ IsFiniteSet(B) /\ B # {} /\ B \subseteq Int
  <2>1. A \subseteq Int /\ B \subseteq Int /\ A # {} /\ B # {}
    BY Unbounded DEF RangesAreWhole
  <2>2. IsFiniteSet({f[r] : r \in limits}) /\ IsFiniteSet({h[r] : r \in limits})
    <3> HIDE DEF f, h
    <3> QED
      BY ImageFinite
  <2> DEFINE F == {f[r] : r \in limits}
             H == {h[r] : r \in limits}
             one == {1}
             inf == {INFINITY}
  <2>3. IsFiniteSet(one) /\ IsFiniteSet(inf) /\ IsFiniteSet(F) /\ IsFiniteSet(H)
    BY <2>2, FS_Singleton
  <2> HIDE DEF F, H, one, inf
  <2>4. IsFiniteSet(one \cup F) /\ IsFiniteSet(inf \cup H)
    BY <2>3, FS_Union
  <2> QED
    BY <2>1, <2>4 DEF F, H, one, inf
<1> HIDE DEF A, B
<1>3. Max(A) \in A /\ (\A y \in A : y <= Max(A)) /\ Min(B) \in B /\ \A y \in B : Min(B) <= y
  BY <1>2, Greatest, Least
<1>4. 1 \in A /\ INFINITY \in B
  BY DEF A, B
<1>5. ASSUME NEW k \in 1 .. INFINITY
      PROVE  Max(A) <= k /\ k <= Min(B) <=> \A r \in limits : Inside(r.range, k)
  <2> DEFINE M == Max(A)
             N == Min(B)
  <2>1. k \in Int /\ M \in A /\ N \in B /\ A \subseteq Int /\ B \subseteq Int
        /\ (\A y \in A : y <= M) /\ \A y \in B : N <= y
    BY <1>2, <1>3, Unbounded
  <2>2. 1 <= k /\ k <= INFINITY
    BY Unbounded
  <2> HIDE DEF M, N
  <2>3. M <= k <=> \A y \in A : y <= k
    <3>1. ASSUME M <= k, NEW y \in A PROVE y <= k
      <4>1. y \in Int /\ M \in Int /\ y <= M
        BY <2>1
      <4> QED
        BY <2>1, <3>1, <4>1
    <3> QED
      BY <2>1, <3>1
  <2>4. k <= N <=> \A y \in B : k <= y
    <3>1. ASSUME k <= N, NEW y \in B PROVE k <= y
      <4>1. y \in Int /\ N \in Int /\ N <= y
        BY <2>1
      <4> QED
        BY <2>1, <3>1, <4>1
    <3> QED
      BY <2>1, <3>1
  <2>5. (\A y \in A : y <= k) <=> \A r \in limits : r.range.min <= k
    BY <2>2 DEF A
  <2>6. (\A y \in B : k <= y) <=> \A r \in limits : k <= r.range.max
    BY <2>2 DEF B
  <2> QED
    BY <2>3, <2>4, <2>5, <2>6 DEF Inside, M, N
<1> QED
  BY <1>1, <1>2, <1>3, <1>4, <1>5

\* The entries have the attributes that limits rank them by, and tiles of their
\* own.
Rankable(index) ==
  /\ IsFiniteSet(EntryIds(index)) /\ Cardinality(EntryIds(index)) <= INFINITY
  /\ \A id \in EntryIds(index) : /\ TilesOf(index, id) \in Seq(Nat)
                                 /\ index.entries[id].combinations \in Int
  /\ \A a, b \in EntryIds(index) : TilesOf(index, a) = TilesOf(index, b) => a = b
  /\ index.kind = "words" =>
       \A id \in EntryIds(index) : /\ index.entries[id].playability \in Int
                                   /\ index.entries[id].alphagram \in Int

Ahead(index, kind, a, b) ==
  \/ ValueOf(index, kind)[a] > ValueOf(index, kind)[b]
  \/ ValueOf(index, kind)[a] = ValueOf(index, kind)[b] /\ TieOf(index, a, b)

AheadIn(index, kind, result) == {p \in result \X result : Ahead(index, kind, p[1], p[2])}

\* Entries tie in a strict total order.
LEMMA TieOrders ==
  ASSUME NEW index, Rankable(index)
  PROVE  /\ \A a \in EntryIds(index) : ~ TieOf(index, a, a)
         /\ \A a, b, c \in EntryIds(index) : TieOf(index, a, b) /\ TieOf(index, b, c) => TieOf(index, a, c)
         /\ \A a, b \in EntryIds(index) : a # b => TieOf(index, a, b) \/ TieOf(index, b, a)
<1> DEFINE Asked == EntryIds(index)
           T == [a \in Asked |-> TilesOf(index, a)]
           B(a, b) == Before(TilesOf(index, a), TilesOf(index, b))
           A == [a \in Asked |-> index.entries[a].alphagram]
<1>1. /\ \A a \in Asked : ~ B(a, a)
      /\ \A a, b, c \in Asked : B(a, b) /\ B(b, c) => B(a, c)
      /\ \A a, b \in Asked : a # b => B(a, b) \/ B(b, a)
  BY BeforeOrders DEF Rankable
<1> HIDE DEF B
<1>2. CASE index.kind = "words"
  <2>1. \A a \in Asked : A[a] \in Int
    BY <1>2 DEF Rankable
  <2>2. ASSUME NEW a \in Asked, NEW b \in Asked
        PROVE  TieOf(index, a, b) <=> A[a] < A[b] \/ (A[a] = A[b] /\ B(a, b))
    <3>1. A[a] = index.entries[a].alphagram /\ A[b] = index.entries[b].alphagram
      OBVIOUS
    <3>2. TieOf(index, a, b) <=>
            \/ index.entries[a].alphagram < index.entries[b].alphagram
            \/ index.entries[a].alphagram = index.entries[b].alphagram /\ B(a, b)
      BY <1>2, Zenon DEF TieOf, B
    <3> HIDE DEF A
    <3> QED
      BY <3>1, <3>2
  <2> HIDE DEF A
  <2>3. ASSUME NEW a \in Asked, NEW b \in Asked, NEW c \in Asked, TieOf(index, a, b), TieOf(index, b, c)
        PROVE  TieOf(index, a, c)
    <3>1. A[a] \in Int /\ A[b] \in Int /\ A[c] \in Int
      BY <2>1
    <3>2. (A[a] < A[b] \/ (A[a] = A[b] /\ B(a, b))) /\ (A[b] < A[c] \/ (A[b] = A[c] /\ B(b, c)))
      BY <2>2, <2>3
    <3>3. A[a] < A[c] \/ (A[a] = A[c] /\ B(a, c))
      BY <1>1, <3>1, <3>2
    <3> QED
      BY <2>2, <3>3
  <2>4. ASSUME NEW a \in Asked, NEW b \in Asked, a # b
        PROVE  TieOf(index, a, b) \/ TieOf(index, b, a)
    <3>1. A[a] \in Int /\ A[b] \in Int
      BY <2>1
    <3>2. A[a] < A[b] \/ A[b] < A[a] \/ A[a] = A[b]
      BY <3>1
    <3>3. B(a, b) \/ B(b, a)
      BY <1>1, <2>4
    <3>4. /\ TieOf(index, a, b) <=> A[a] < A[b] \/ (A[a] = A[b] /\ B(a, b))
          /\ TieOf(index, b, a) <=> A[b] < A[a] \/ (A[b] = A[a] /\ B(b, a))
      BY <2>2
    <3> QED
      BY <3>2, <3>3, <3>4
  <2>5. ASSUME NEW a \in Asked PROVE ~ TieOf(index, a, a)
    <3>1. A[a] \in Int
      BY <2>1
    <3> QED
      BY <1>1, <2>2, <3>1
  <2> QED
    BY <2>3, <2>4, <2>5
<1>3. CASE index.kind # "words"
  <2>1. \A a, b \in Asked : TieOf(index, a, b) <=> B(a, b)
    BY <1>3 DEF TieOf, B
  <2> QED
    BY <1>1, <2>1
<1> QED
  BY <1>2, <1>3

\* What a limit ranks by is a number.
LEMMA ValueFacts ==
  ASSUME NEW index, Rankable(index), NEW kind, NEW id \in EntryIds(index)
  PROVE  ValueOf(index, kind)[id] \in Int
BY DEF ValueOf, Rankable

\* Being ranked ahead orders the entries of a result.
LEMMA AheadOrders ==
  ASSUME NEW index, Rankable(index), NEW kind, NEW result \in SUBSET EntryIds(index)
  PROVE  Orders(AheadIn(index, kind, result), result)
<1> DEFINE v == ValueOf(index, kind)
           R == AheadIn(index, kind, result)
<1>1. ASSUME NEW a \in result, NEW b \in result
      PROVE  <<a, b>> \in R <=> v[a] > v[b] \/ (v[a] = v[b] /\ TieOf(index, a, b))
  <2>1. <<a, b>> \in R <=> Ahead(index, kind, a, b)
    BY DEF AheadIn
  <2> HIDE DEF R
  <2> QED
    BY <2>1, Zenon DEF Ahead
<1>2. \A a \in result : a \in EntryIds(index) /\ v[a] \in Int
  BY ValueFacts
<1> HIDE DEF v, R
<1>3. ASSUME NEW a \in result, NEW b \in result, NEW c \in result, <<a, b>> \in R, <<b, c>> \in R
      PROVE  <<a, c>> \in R
  <2>1. v[a] \in Int /\ v[b] \in Int /\ v[c] \in Int
    BY <1>2
  <2>2. (v[a] > v[b] \/ (v[a] = v[b] /\ TieOf(index, a, b))) /\ (v[b] > v[c] \/ (v[b] = v[c] /\ TieOf(index, b, c)))
    BY <1>1, <1>3
  <2>3. TieOf(index, a, b) /\ TieOf(index, b, c) => TieOf(index, a, c)
    BY <1>2, TieOrders
  <2>4. v[a] > v[c] \/ (v[a] = v[c] /\ TieOf(index, a, c))
    BY <2>1, <2>2, <2>3
  <2> QED
    BY <1>1, <2>4
<1>4. ASSUME NEW a \in result, NEW b \in result, a # b
      PROVE  <<a, b>> \in R \/ <<b, a>> \in R
  <2>1. v[a] \in Int /\ v[b] \in Int
    BY <1>2
  <2>2. TieOf(index, a, b) \/ TieOf(index, b, a)
    BY <1>2, <1>4, TieOrders
  <2>3. v[a] > v[b] \/ v[b] > v[a] \/ (v[a] = v[b] /\ v[b] = v[a])
    BY <2>1
  <2>4. /\ <<a, b>> \in R <=> v[a] > v[b] \/ (v[a] = v[b] /\ TieOf(index, a, b))
        /\ <<b, a>> \in R <=> v[b] > v[a] \/ (v[b] = v[a] /\ TieOf(index, b, a))
    BY <1>1
  <2> QED
    BY <2>2, <2>3, <2>4
<1>5. ASSUME NEW a \in result PROVE <<a, a>> \notin R
  <2>1. v[a] \in Int /\ ~ TieOf(index, a, a)
    BY <1>2, TieOrders
  <2> QED
    BY <1>1, <2>1
<1>6. Orders(R, result)
  BY <1>3, <1>4, <1>5 DEF Orders
<1> QED
  BY <1>6 DEF R

\* The rank of an entry in a result.
RankIn(index, kind, result, id) ==
  1 + Cardinality({o \in result : Ahead(index, kind, o, id)})

RankedBy(index, kind, result) ==
  Ranked(result, ValueOf(index, kind), LAMBDA a, b : TieOf(index, a, b))

\* The sequence holds the result by rank.
HoldsByRank(ranked, index, kind, result) ==
  /\ Len(ranked) = Cardinality(result)
  /\ \A i \in 1 .. Cardinality(result) :
       ranked[i] \in result /\ RankIn(index, kind, result, ranked[i]) = i
  /\ \A x \in result : /\ RankIn(index, kind, result, x) \in 1 .. Cardinality(result)
                       /\ ranked[RankIn(index, kind, result, x)] = x
  /\ \A i, j \in 1 .. Cardinality(result) :
       i < j => ValueOf(index, kind)[ranked[i]] >= ValueOf(index, kind)[ranked[j]]

\* The ranked sequence holds each entry of a result once, higher values first.
LEMMA RankedHolds ==
  ASSUME NEW index, Rankable(index), NEW kind, NEW result \in SUBSET EntryIds(index)
  PROVE  HoldsByRank(RankedBy(index, kind, result), index, kind, result)
<1> DEFINE v == ValueOf(index, kind)
           R == AheadIn(index, kind, result)
           L(a, b) == v[a] > v[b] \/ (v[a] = v[b] /\ TieOf(index, a, b))
           n == Cardinality(result)
           ranked == RankedBy(index, kind, result)
<1>1. IsFiniteSet(result) /\ n \in Nat /\ Orders(R, result)
  BY AheadOrders, Part DEF Rankable
<1>2. ASSUME NEW x \in result
      PROVE  /\ {y \in result : L(y, x)} = Under(R, result, x)
             /\ RankIn(index, kind, result, x) = 1 + Cardinality(Under(R, result, x))
  <2>1. {y \in result : Ahead(index, kind, y, x)} = Under(R, result, x)
    BY DEF Under, AheadIn
  <2>3. \A y \in result : L(y, x) <=> Ahead(index, kind, y, x)
    BY Zenon DEF Ahead
  <2>2. {y \in result : L(y, x)} = {y \in result : Ahead(index, kind, y, x)}
    <3> HIDE DEF L
    <3> QED
      BY <2>3
  <2> QED
    BY <2>1, <2>2 DEF RankIn
<1>3. ranked = [i \in 1 .. n |-> CHOOSE x \in result : Cardinality({y \in result : L(y, x)}) = i - 1]
  BY Zenon DEF RankedBy, Ranked, InSequence
<1>4. \A i \in 1 .. n : \E x \in result : Cardinality(Under(R, result, x)) = i - 1
  <2> HIDE DEF R
  <2> QED
    BY <1>1, Positions
<1>5. \A i \in 1 .. n : \E x \in result : Cardinality({y \in result : L(y, x)}) = i - 1
  <2> HIDE DEF R, L
  <2> QED
    BY <1>2, <1>4
<1> HIDE DEF R, ranked
<1>6. ASSUME NEW i \in 1 .. n
      PROVE  ranked[i] \in result /\ Cardinality(Under(R, result, ranked[i])) = i - 1
  <2> HIDE DEF L
  <2>1. ranked[i] = CHOOSE x \in result : Cardinality({y \in result : L(y, x)}) = i - 1
    BY <1>3
  <2>2. ranked[i] \in result /\ Cardinality({y \in result : L(y, ranked[i])}) = i - 1
    BY <1>5, <2>1
  <2> QED
    BY <1>2, <2>2
<1>7. DOMAIN ranked = 1 .. n
  BY <1>3
<1>8. /\ \A i, j \in DOMAIN ranked : i < j <=> <<ranked[i], ranked[j]>> \in R
      /\ \A x \in result : /\ Cardinality(Under(R, result, x)) + 1 \in DOMAIN ranked
                           /\ ranked[Cardinality(Under(R, result, x)) + 1] = x
  BY <1>1, <1>6, <1>7, InOrderOnce
<1>9. Len(ranked) = n
  <2>1. ranked \in [1 .. n -> result]
    <3> DEFINE H(i) == CHOOSE x \in result : Cardinality({y \in result : L(y, x)}) = i - 1
    <3>1. ranked = [i \in 1 .. n |-> H(i)]
      BY <1>3
    <3> HIDE DEF H
    <3>2. ranked = [i \in 1 .. n |-> ranked[i]]
      BY <3>1
    <3> QED
      BY <1>6, <3>2
  <2> HIDE DEF n
  <2> QED
    BY <1>1, <2>1, LenOf
<1>10. ASSUME NEW i \in 1 .. n, NEW j \in 1 .. n, i < j PROVE v[ranked[i]] >= v[ranked[j]]
  <2>1. <<ranked[i], ranked[j]>> \in R
    BY <1>7, <1>8, <1>10
  <2>2. v[ranked[i]] > v[ranked[j]] \/ v[ranked[i]] = v[ranked[j]]
    BY <2>1 DEF R, AheadIn, Ahead
  <2>3. v[ranked[i]] \in Int /\ v[ranked[j]] \in Int
    BY <1>6, ValueFacts
  <2> HIDE DEF v
  <2> QED
    BY <2>2, <2>3
<1>11. ASSUME NEW i \in 1 .. n PROVE RankIn(index, kind, result, ranked[i]) = i
  BY <1>2, <1>6
<1>12. ASSUME NEW x \in result
       PROVE  /\ RankIn(index, kind, result, x) \in 1 .. n
              /\ ranked[RankIn(index, kind, result, x)] = x
  <2> DEFINE k == Cardinality(Under(R, result, x))
  <2>1. k \in Nat
    <3>1. Under(R, result, x) \subseteq result
      BY DEF Under
    <3> QED
      BY <1>1, <3>1, Part
  <2>2. RankIn(index, kind, result, x) = k + 1
    BY <1>2, <2>1
  <2> QED
    BY <1>7, <1>8, <2>2
<1>13. HoldsByRank(ranked, index, kind, result)
  BY <1>6, <1>9, <1>10, <1>11, <1>12 DEF HoldsByRank
<1> QED
  BY <1>13 DEF ranked

\* Values that never rise.
Falls(v, n) == /\ \A i \in 1 .. n : v[i] \in Int
               /\ \A i, j \in 1 .. n : i < j => v[i] >= v[j]

\* The positions widening may reach from s down and from e up.
Down(v, s, lo) == {i \in 1 .. s : \A j \in i .. s - 1 : j >= lo /\ v[j] = v[j + 1]}
Up(v, e, n, hi) == {i \in e .. n : \A j \in e .. i - 1 : j + 1 <= hi /\ v[j] = v[j + 1]}

\* Neighbours of equal values in a row have the value of the first.
LEMMA EqualRun ==
  ASSUME NEW v, NEW a \in Int, NEW b \in Int, \A j \in a .. b - 1 : v[j] = v[j + 1]
  PROVE  \A k \in a .. b : v[k] = v[a]
<1> DEFINE S == {x \in Nat : a + x <= b => v[a + x] = v[a]}
<1>1. 0 \in S
  BY DEF S
<1>2. ASSUME NEW x \in Nat, x \in S PROVE x + 1 \in S
  <2>1. a + (x + 1) <= b => v[a + (x + 1)] = v[a]
    <3>1. SUFFICES ASSUME a + (x + 1) <= b PROVE v[a + (x + 1)] = v[a]
      OBVIOUS
    <3>2. a + x \in a .. b - 1 /\ a + x <= b /\ (a + x) + 1 = a + (x + 1)
      BY <3>1
    <3>3. v[a + x] = v[a]
      BY <1>2, <3>2 DEF S
    <3>4. v[a + x] = v[(a + x) + 1]
      BY <3>2
    <3> QED
      BY <3>2, <3>3, <3>4
  <2> QED
    BY <2>1 DEF S
<1> HIDE DEF S
<1>3. Nat \subseteq S
  BY <1>1, <1>2, NatsBySteps
<1>4. ASSUME NEW k \in a .. b PROVE v[k] = v[a]
  <2> DEFINE x == k - a
  <2>1. x \in Nat /\ a + x = k /\ k <= b
    OBVIOUS
  <2>2. x \in S
    BY <1>3, <2>1
  <2> QED
    BY <2>1, <2>2 DEF S
<1> QED
  BY <1>4

\* Values that never rise are equal between two that are.
LEMMA EqualBetween ==
  ASSUME NEW n \in Nat, NEW v, Falls(v, n), NEW a \in 1 .. n, NEW b \in 1 .. n, v[a] = v[b]
  PROVE  \A j \in a .. b - 1 : v[j] = v[j + 1]
<1>1. ASSUME NEW j \in a .. b - 1 PROVE v[j] = v[j + 1]
  <2>1. j \in 1 .. n /\ j + 1 \in 1 .. n /\ a <= j /\ j < j + 1 /\ j + 1 <= b
    OBVIOUS
  <2>2. v[a] \in Int /\ v[b] \in Int /\ v[j] \in Int /\ v[j + 1] \in Int
    BY <2>1 DEF Falls
  <2>3. v[a] >= v[j]
    <3>1. a = j \/ a < j
      BY <2>1
    <3> QED
      BY <2>1, <2>2, <3>1 DEF Falls
  <2>4. v[j + 1] >= v[b]
    <3>1. j + 1 = b \/ j + 1 < b
      BY <2>1
    <3> QED
      BY <2>1, <2>2, <3>1 DEF Falls
  <2>5. v[j] >= v[j + 1]
    BY <2>1 DEF Falls
  <2> QED
    BY <2>2, <2>3, <2>4, <2>5
<1> QED
  BY <1>1

\* The lowest place reached from the start of a window through equal values.
LEMMA DownMeans ==
  ASSUME NEW n \in Nat, NEW v, Falls(v, n), NEW s \in 1 .. n, NEW lo \in Int
  PROVE  /\ Min(Down(v, s, lo)) \in 1 .. s
         /\ \A i \in 1 .. s : Min(Down(v, s, lo)) <= i <=> i = s \/ (lo <= i /\ v[i] = v[s])
<1> DEFINE S == Down(v, s, lo)
<1>1. s \in S /\ S \subseteq 1 .. s
  BY DEF Down
<1>2. IsFiniteSet(S) /\ S # {} /\ S \subseteq Int
  <2>1. IsFiniteSet(1 .. s)
    BY FS_Interval
  <2> HIDE DEF S
  <2>2. IsFiniteSet(S)
    BY <1>1, <2>1, FS_Subset
  <2>3. \A x \in 1 .. s : x \in Int
    OBVIOUS
  <2> QED
    BY <1>1, <2>2, <2>3
<1> DEFINE m == Min(S)
<1>3. m \in S /\ \A y \in S : m <= y
  <2> HIDE DEF S
  <2> QED
    BY <1>2, Least
<1>4. ASSUME NEW i \in 1 .. s PROVE i \in S <=> i = s \/ (lo <= i /\ v[i] = v[s])
  <2>1. i \in S <=> \A j \in i .. s - 1 : j >= lo /\ v[j] = v[j + 1]
    BY DEF Down
  <2> HIDE DEF S
  <2>2. CASE i = s
    BY <1>1, <2>2
  <2>3. CASE i < s
    <3>1. ASSUME i \in S PROVE lo <= i /\ v[i] = v[s]
      <4>1. i \in i .. s - 1 /\ s \in i .. s /\ i \in Int /\ s \in Int
        BY <2>3
      <4>2. \A j \in i .. s - 1 : v[j] = v[j + 1]
        BY <2>1, <3>1
      <4>3. v[s] = v[i]
        BY <4>1, <4>2, EqualRun
      <4>4. i >= lo
        BY <2>1, <3>1, <4>1
      <4> QED
        BY <4>1, <4>3, <4>4
    <3>2. ASSUME lo <= i, v[i] = v[s] PROVE i \in S
      <4>1. i \in 1 .. n
        OBVIOUS
      <4>2. \A j \in i .. s - 1 : v[j] = v[j + 1]
        BY <3>2, <4>1, EqualBetween
      <4>3. \A j \in i .. s - 1 : j >= lo
        BY <3>2
      <4> QED
        BY <2>1, <4>2, <4>3
    <3> QED
      BY <2>3, <3>1, <3>2
  <2> QED
    BY <2>2, <2>3
<1>5. ASSUME NEW i \in 1 .. s, m <= i PROVE i \in S
  <2>1. m \in 1 .. s /\ \A j \in m .. s - 1 : j >= lo /\ v[j] = v[j + 1]
    BY <1>3 DEF Down
  <2> HIDE DEF m, S
  <2>2. \A j \in i .. s - 1 : j \in m .. s - 1
    BY <1>5, <2>1
  <2> QED
    BY <2>1, <2>2 DEF S, Down
<1> HIDE DEF S
<1> QED
  BY <1>1, <1>3, <1>4, <1>5 DEF S

\* The highest place reached from the end of a window through equal values.
LEMMA UpMeans ==
  ASSUME NEW n \in Nat, NEW v, Falls(v, n), NEW e \in 1 .. n, NEW hi \in Int
  PROVE  /\ Max(Up(v, e, n, hi)) \in e .. n
         /\ \A i \in e .. n : i <= Max(Up(v, e, n, hi)) <=> i = e \/ (i <= hi /\ v[i] = v[e])
<1> DEFINE S == Up(v, e, n, hi)
<1>1. e \in S /\ S \subseteq e .. n
  BY DEF Up
<1>2. IsFiniteSet(S) /\ S # {} /\ S \subseteq Int
  <2>1. IsFiniteSet(e .. n)
    BY FS_Interval
  <2> HIDE DEF S
  <2>2. IsFiniteSet(S)
    BY <1>1, <2>1, FS_Subset
  <2>3. \A x \in e .. n : x \in Int
    OBVIOUS
  <2> QED
    BY <1>1, <2>2, <2>3
<1> DEFINE m == Max(S)
<1>3. m \in S /\ \A y \in S : y <= m
  <2> HIDE DEF S
  <2> QED
    BY <1>2, Greatest
<1>4. ASSUME NEW i \in e .. n PROVE i \in S <=> i = e \/ (i <= hi /\ v[i] = v[e])
  <2>1. i \in S <=> \A j \in e .. i - 1 : j + 1 <= hi /\ v[j] = v[j + 1]
    BY DEF Up
  <2> HIDE DEF S
  <2>2. CASE i = e
    BY <1>1, <2>2
  <2>3. CASE e < i
    <3>1. ASSUME i \in S PROVE i <= hi /\ v[i] = v[e]
      <4>1. i - 1 \in e .. i - 1 /\ i \in e .. i /\ i \in Int /\ e \in Int /\ (i - 1) + 1 = i
        BY <2>3
      <4>2. \A j \in e .. i - 1 : v[j] = v[j + 1]
        BY <2>1, <3>1
      <4>3. v[i] = v[e]
        BY <4>1, <4>2, EqualRun
      <4>4. (i - 1) + 1 <= hi
        BY <2>1, <3>1, <4>1
      <4> QED
        BY <4>1, <4>3, <4>4
    <3>2. ASSUME i <= hi, v[i] = v[e] PROVE i \in S
      <4>1. i \in 1 .. n /\ v[e] = v[i]
        BY <3>2
      <4>2. \A j \in e .. i - 1 : v[j] = v[j + 1]
        BY <4>1, EqualBetween
      <4>3. \A j \in e .. i - 1 : j + 1 <= hi
        BY <3>2
      <4> QED
        BY <2>1, <4>2, <4>3
    <3> QED
      BY <2>3, <3>1, <3>2
  <2> QED
    BY <2>2, <2>3
<1>5. ASSUME NEW i \in e .. n, i <= m PROVE i \in S
  <2>1. m \in e .. n /\ \A j \in e .. m - 1 : j + 1 <= hi /\ v[j] = v[j + 1]
    BY <1>3 DEF Up
  <2> HIDE DEF m, S
  <2>2. \A j \in e .. i - 1 : j \in e .. m - 1
    BY <1>5, <2>1
  <2> QED
    BY <2>1, <2>2 DEF S, Up
<1> HIDE DEF S
<1> QED
  BY <1>1, <1>3, <1>4, <1>5 DEF S

\* A rank that a limit of these bounds keeps: it is inside all of them, or
\* inside the strict ones and of equal value with one that is.
KeepsRank(v, n, lo, hi, start, end, i) ==
  \/ start <= i /\ i <= end
  \/ /\ lo <= i /\ i <= hi
     /\ \E o \in 1 .. n : start <= o /\ o <= end /\ v[o] = v[i]

\* Widening reaches exactly the ranks that tie.
LEMMA WindowMeans ==
  ASSUME NEW n \in Nat, NEW v, Falls(v, n), NEW lo \in Int, NEW hi \in Int,
         NEW start \in Int, NEW end \in Int, NEW e \in Int,
         lo <= start, 1 <= start, start <= n, start <= end, end <= hi,
         IF end <= n THEN e = end ELSE e = n
  PROVE  /\ Min(Down(v, start, lo)) \in 1 .. n /\ Max(Up(v, e, n, hi)) \in 1 .. n
         /\ \A i \in 1 .. n : Min(Down(v, start, lo)) <= i /\ i <= Max(Up(v, e, n, hi))
                                <=> KeepsRank(v, n, lo, hi, start, end, i)
<1> DEFINE a == Min(Down(v, start, lo))
           b == Max(Up(v, e, n, hi))
<1>1. start \in 1 .. n /\ e \in 1 .. n /\ start <= e /\ e <= end
  OBVIOUS
<1>2. a \in 1 .. start /\ \A i \in 1 .. start : a <= i <=> i = start \/ (lo <= i /\ v[i] = v[start])
  BY <1>1, DownMeans
<1>3. b \in e .. n /\ \A i \in e .. n : i <= b <=> i = e \/ (i <= hi /\ v[i] = v[e])
  <2>1. e \in 1 .. n
    BY <1>1
  <2> QED
    BY ONLY n \in Nat, Falls(v, n), hi \in Int, <2>1, UpMeans
<1> HIDE DEF a, b
<1>4. a \in 1 .. n /\ b \in 1 .. n /\ a <= start /\ e <= b
  BY <1>1, <1>2, <1>3
<1>5. ASSUME NEW i \in 1 .. n
      PROVE  a <= i /\ i <= b <=> KeepsRank(v, n, lo, hi, start, end, i)
  <2>1. v[i] \in Int /\ v[start] \in Int /\ v[e] \in Int
    BY <1>1 DEF Falls
  <2>2. CASE start <= i /\ i <= e
    <3>1. a <= i /\ i <= b
      BY <1>1, <1>4, <2>2
    <3>2. start <= i /\ i <= end
      BY <1>1, <2>2
    <3> QED
      BY <3>1, <3>2 DEF KeepsRank
  <2>3. CASE i < start
    <3>1. i \in 1 .. start /\ i # start /\ i <= b /\ i <= hi /\ ~ (start <= i)
      BY <1>1, <1>4, <2>3
    <3>2. a <= i <=> lo <= i /\ v[i] = v[start]
      BY <1>2, <3>1
    <3>3. ASSUME NEW o \in 1 .. n, start <= o, o <= end, v[o] = v[i] PROVE v[i] = v[start]
      <4>1. v[i] >= v[start]
        BY <1>1, <2>3 DEF Falls
      <4>2. v[start] >= v[o]
        <5>1. start = o \/ start < o
          BY <3>3
        <5> QED
          BY <1>1, <2>1, <3>3, <5>1 DEF Falls
      <4> QED
        BY <2>1, <3>3, <4>1, <4>2
    <3>4. start <= start /\ start <= end /\ start \in 1 .. n
      BY <1>1
    <3> QED
      BY <3>1, <3>2, <3>3, <3>4 DEF KeepsRank
  <2>4. CASE i > e
    <3>1. i \in e .. n /\ i # e /\ a <= i /\ lo <= i /\ e = end /\ ~ (i <= end)
      BY <1>1, <1>4, <2>4
    <3>2. i <= b <=> i <= hi /\ v[i] = v[e]
      BY <1>3, <3>1
    <3>3. ASSUME NEW o \in 1 .. n, start <= o, o <= end, v[o] = v[i] PROVE v[i] = v[e]
      <4>1. v[e] >= v[i]
        BY <1>1, <2>4 DEF Falls
      <4>2. v[o] >= v[e]
        <5>1. o = e \/ o < e
          BY <3>1, <3>3
        <5> QED
          BY <1>1, <2>1, <3>3, <5>1 DEF Falls
      <4> QED
        BY <2>1, <3>3, <4>1, <4>2
    <3>4. start <= e /\ e <= end /\ e \in 1 .. n
      BY <1>1
    <3> QED
      BY <3>1, <3>2, <3>3, <3>4 DEF KeepsRank
  <2> QED
    BY <1>1, <2>2, <2>3, <2>4
<1> QED
  BY <1>4, <1>5 DEF a, b

\* The greater and the lesser of two numbers.
LEMMA MaxOfTwo ==
  ASSUME NEW a \in Int, NEW b \in Int
  PROVE  /\ Max({a, b}) = IF a <= b THEN b ELSE a
         /\ Min({a, b}) = IF a <= b THEN a ELSE b
<1> DEFINE S == {a, b}
<1>1. IsFiniteSet(S) /\ S # {} /\ S \subseteq Int
  <2> DEFINE A == {a}
             B == {b}
  <2>1. IsFiniteSet(A) /\ IsFiniteSet(B)
    BY FS_Singleton
  <2>2. S = A \cup B
    OBVIOUS
  <2> HIDE DEF A, B
  <2>3. IsFiniteSet(A \cup B)
    BY <2>1, FS_Union
  <2> QED
    BY <2>2, <2>3
<1>2. a \in S /\ b \in S
  OBVIOUS
<1> HIDE DEF S
<1>3. Max(S) \in S /\ (\A y \in S : y <= Max(S)) /\ Min(S) \in S /\ \A y \in S : Min(S) <= y
  BY <1>1, Greatest, Least
<1> DEFINE M == Max(S)
           N == Min(S)
<1>4. M \in {a, b} /\ N \in {a, b} /\ a <= M /\ b <= M /\ N <= a /\ N <= b
  BY <1>2, <1>3 DEF S
<1> HIDE DEF M, N
<1>5. M = (IF a <= b THEN b ELSE a) /\ N = IF a <= b THEN a ELSE b
  BY <1>4
<1> QED
  BY <1>5 DEF M, N, S

\* The entries inside the ranges of all limits of a kind, and those that limits
\* keep (Kept).
Core(index, kind, result, limits) ==
  {id \in result : \A r \in limits : Inside(r.range, RankIn(index, kind, result, id))}
Keeps(index, kind, result, limits, id) ==
  \/ id \in Core(index, kind, result, limits)
  \/ /\ \E r \in limits : r.lax
     /\ \A r \in limits : ~ r.lax => Inside(r.range, RankIn(index, kind, result, id))
     /\ \E o \in Core(index, kind, result, limits) : ValueOf(index, kind)[o] = ValueOf(index, kind)[id]

\* A slice of a ranked result holds what the limits of its kind keep.
LEMMA SliceKeeps ==
  ASSUME NEW index, Rankable(index), NEW kind, NEW result \in SUBSET EntryIds(index),
         NEW limits, IsFiniteSet(limits), RangesAreWhole(limits), NEW id \in result
  PROVE  id \in Slice(index, result, kind, limits) <=> Keeps(index, kind, result, limits, id)
<1> DEFINE v == ValueOf(index, kind)
           n == Cardinality(result)
           ranked == RankedBy(index, kind, result)
           laxly == {r \in limits : r.lax}
           strict == Reduced(limits \ laxly)
           lax == Reduced(laxly)
           start == Max({strict.min, lax.min})
           end == Min({strict.max, lax.max})
           e == Min({end, n})
           w == IF laxly = {} THEN [s |-> start, e |-> e]
                ELSE Widened(ranked, v, strict, start, e)
           vv == [i \in 1 .. n |-> v[ranked[i]]]
           lo == strict.min
           hi == strict.max
           k == RankIn(index, kind, result, id)
<1>1. HoldsByRank(ranked, index, kind, result)
  BY RankedHolds
<1>2. Slice(index, result, kind, limits) =
        IF start <= end /\ start <= Len(ranked) /\ start >= 1
        THEN {ranked[i] : i \in (IF laxly = {} THEN [s |-> start, e |-> Min({end, Len(ranked)})]
                                 ELSE Widened(ranked, v, strict, start, Min({end, Len(ranked)}))).s
                                .. (IF laxly = {} THEN [s |-> start, e |-> Min({end, Len(ranked)})]
                                 ELSE Widened(ranked, v, strict, start, Min({end, Len(ranked)}))).e}
        ELSE {}
  BY Zenon DEF Slice, RankedBy
<1> HIDE DEF ranked
<1>3. /\ n \in Nat /\ n <= INFINITY
      /\ Len(ranked) = n
      /\ \A i \in 1 .. n : ranked[i] \in result /\ RankIn(index, kind, result, ranked[i]) = i
      /\ \A x \in result : RankIn(index, kind, result, x) \in 1 .. n
                           /\ ranked[RankIn(index, kind, result, x)] = x
      /\ \A i, j \in 1 .. n : i < j => v[ranked[i]] >= v[ranked[j]]
  <2>1. IsFiniteSet(EntryIds(index)) /\ Cardinality(EntryIds(index)) <= INFINITY
    BY DEF Rankable
  <2>2. n \in Nat /\ n <= Cardinality(EntryIds(index)) /\ Cardinality(EntryIds(index)) \in Nat
    BY <2>1, Part, FS_CardinalityType
  <2>3. n <= INFINITY
    <3> DEFINE c == Cardinality(EntryIds(index))
    <3>1. n \in Nat /\ c \in Nat /\ n <= c /\ c <= INFINITY
      BY <2>1, <2>2
    <3> HIDE DEF n, c
    <3> QED
      BY <3>1, Unbounded
  <2>4. /\ Len(ranked) = n
        /\ \A i \in 1 .. n : ranked[i] \in result /\ RankIn(index, kind, result, ranked[i]) = i
        /\ \A x \in result : RankIn(index, kind, result, x) \in 1 .. n
                             /\ ranked[RankIn(index, kind, result, x)] = x
        /\ \A i, j \in 1 .. n : i < j => v[ranked[i]] >= v[ranked[j]]
    BY <1>1 DEF HoldsByRank
  <2> QED
    BY <2>2, <2>3, <2>4
<1>4. Slice(index, result, kind, limits) =
        IF start <= end /\ start <= n /\ start >= 1 THEN {ranked[i] : i \in w.s .. w.e} ELSE {}
  BY <1>2, <1>3, Zenon
<1>5. \A x \in result : v[x] \in Int
  BY ValueFacts
<1>6. Falls(vv, n)
  <2> HIDE DEF v, n
  <2>1. \A i \in 1 .. n : vv[i] = v[ranked[i]]
    OBVIOUS
  <2> HIDE DEF vv
  <2> QED
    BY <1>3, <1>5, <2>1 DEF Falls
<1>7. /\ k \in 1 .. n /\ ranked[k] = id
      /\ \A x \in result : vv[RankIn(index, kind, result, x)] = v[x]
      /\ \A i \in 1 .. n : vv[i] = v[ranked[i]]
  BY <1>3
<1> HIDE DEF k, v, n, vv
<1>8. IsFiniteSet(laxly) /\ IsFiniteSet(limits \ laxly)
      /\ RangesAreWhole(laxly) /\ RangesAreWhole(limits \ laxly)
  <2>1. laxly \subseteq limits /\ limits \ laxly \subseteq limits
    OBVIOUS
  <2>2. IsFiniteSet(laxly) /\ IsFiniteSet(limits \ laxly)
    BY <2>1, FS_Subset
  <2> QED
    BY <2>1, <2>2 DEF RangesAreWhole
<1> DEFINE A == laxly
           B == limits \ laxly
<1>9. A \cup B = limits /\ B = {r \in limits : ~ r.lax} /\ (A # {} <=> \E r \in limits : r.lax)
  OBVIOUS
<1> HIDE DEF A, B
<1>10. /\ Reduced(A).min \in Int /\ Reduced(A).max \in Int /\ 1 <= Reduced(A).min
       /\ Reduced(B).min \in Int /\ Reduced(B).max \in Int /\ 1 <= Reduced(B).min
       /\ \A i \in 1 .. INFINITY :
            Reduced(A).min <= i /\ i <= Reduced(A).max <=> \A r \in A : Inside(r.range, i)
       /\ \A i \in 1 .. INFINITY :
            Reduced(B).min <= i /\ i <= Reduced(B).max <=> \A r \in B : Inside(r.range, i)
  <2>1. IsFiniteSet(A) /\ RangesAreWhole(A) /\ IsFiniteSet(B) /\ RangesAreWhole(B)
    BY <1>8 DEF A, B
  <2> QED
    BY <2>1, ReducedFacts
<1>11. /\ lo \in Int /\ hi \in Int /\ lax.min \in Int /\ lax.max \in Int /\ 1 <= lo /\ 1 <= lax.min
       /\ \A i \in 1 .. INFINITY : lo <= i /\ i <= hi <=> \A r \in B : Inside(r.range, i)
       /\ \A i \in 1 .. INFINITY : lax.min <= i /\ i <= lax.max <=> \A r \in A : Inside(r.range, i)
  BY <1>10 DEF A, B
<1> HIDE DEF strict, lax
<1>12. /\ start = (IF lo <= lax.min THEN lax.min ELSE lo)
       /\ end = (IF hi <= lax.max THEN hi ELSE lax.max)
  BY <1>11, MaxOfTwo
<1> HIDE DEF start, end
<1>13. start \in Int /\ end \in Int /\ 1 <= start /\ lo <= start /\ end <= hi
       /\ \A i \in Int : start <= i /\ i <= end <=>
                           (lo <= i /\ i <= hi) /\ (lax.min <= i /\ i <= lax.max)
  BY <1>11, <1>12
<1> HIDE DEF lo, hi
<1>14. ASSUME NEW i \in 1 .. n
       PROVE  /\ lo <= i /\ i <= hi <=> \A r \in B : Inside(r.range, i)
              /\ start <= i /\ i <= end <=> \A r \in limits : Inside(r.range, i)
  <2>1. i \in 1 .. INFINITY /\ i \in Int
    BY <1>3, Unbounded
  <2>2. /\ lo <= i /\ i <= hi <=> \A r \in B : Inside(r.range, i)
        /\ lax.min <= i /\ i <= lax.max <=> \A r \in A : Inside(r.range, i)
    BY <1>11, <2>1
  <2>3. (\A r \in limits : Inside(r.range, i)) <=>
          (\A r \in A : Inside(r.range, i)) /\ (\A r \in B : Inside(r.range, i))
    BY <1>9
  <2> QED
    BY <1>13, <2>1, <2>2, <2>3
<1>15. ASSUME NEW x \in result
       PROVE  x \in Core(index, kind, result, limits) <=>
                start <= RankIn(index, kind, result, x) /\ RankIn(index, kind, result, x) <= end
  <2>1. RankIn(index, kind, result, x) \in 1 .. n
    BY <1>3
  <2>2. x \in Core(index, kind, result, limits) <=>
          \A r \in limits : Inside(r.range, RankIn(index, kind, result, x))
    BY DEF Core
  <2> QED
    BY <1>14, <2>1, <2>2
<1>16. (\E o \in Core(index, kind, result, limits) : ValueOf(index, kind)[o] = ValueOf(index, kind)[id])
         <=> \E o \in 1 .. n : start <= o /\ o <= end /\ vv[o] = vv[k]
  <2>1. vv[k] = ValueOf(index, kind)[id]
    BY <1>7 DEF k, v
  <2>2. ASSUME NEW o \in Core(index, kind, result, limits),
               ValueOf(index, kind)[o] = ValueOf(index, kind)[id]
        PROVE  \E i \in 1 .. n : start <= i /\ i <= end /\ vv[i] = vv[k]
    <3>1. o \in result
      BY DEF Core
    <3>2. vv[RankIn(index, kind, result, o)] = vv[k]
      BY <1>7, <2>1, <2>2, <3>1 DEF v
    <3> QED
      BY <1>3, <1>15, <2>2, <3>1, <3>2
  <2>3. ASSUME NEW i \in 1 .. n, start <= i, i <= end, vv[i] = vv[k]
        PROVE  \E o \in Core(index, kind, result, limits) : ValueOf(index, kind)[o] = ValueOf(index, kind)[id]
    <3>1. ranked[i] \in result /\ RankIn(index, kind, result, ranked[i]) = i
      BY <1>3
    <3>2. ranked[i] \in Core(index, kind, result, limits)
      BY <1>15, <2>3, <3>1
    <3>3. ValueOf(index, kind)[ranked[i]] = ValueOf(index, kind)[id]
      BY <1>7, <2>1, <2>3 DEF v
    <3> QED
      BY <3>2, <3>3
  <2> QED
    BY <2>2, <2>3
<1>17. Keeps(index, kind, result, limits, id) <=>
         \/ start <= k /\ k <= end
         \/ /\ A # {} /\ lo <= k /\ k <= hi
            /\ \E o \in 1 .. n : start <= o /\ o <= end /\ vv[o] = vv[k]
  <2>1. id \in Core(index, kind, result, limits) <=> start <= k /\ k <= end
    BY <1>15 DEF k
  <2>2. (\A r \in limits : ~ r.lax => Inside(r.range, RankIn(index, kind, result, id)))
          <=> lo <= k /\ k <= hi
    <3>1. (\A r \in B : Inside(r.range, k)) <=> lo <= k /\ k <= hi
      BY <1>7, <1>14
    <3> QED
      BY <1>9, <3>1 DEF k
  <2> QED
    BY <1>9, <1>16, <2>1, <2>2 DEF Keeps
<1>18. e = IF end <= n THEN end ELSE n
  <2>1. n \in Int
    BY <1>3
  <2> QED
    BY <1>13, <2>1, MaxOfTwo
<1> HIDE DEF e
<1>19. ASSUME NEW a \in 1 .. n, NEW b \in 1 .. n
       PROVE  id \in {ranked[i] : i \in a .. b} <=> a <= k /\ k <= b
  <2>1. ASSUME NEW i \in a .. b, id = ranked[i] PROVE i = k
    <3>1. i \in 1 .. n
      BY <1>3
    <3>2. RankIn(index, kind, result, ranked[i]) = i
      BY <1>3, <3>1
    <3> QED
      BY <2>1, <3>2 DEF k
  <2>2. a <= k /\ k <= b => k \in a .. b
    BY <1>3, <1>7
  <2>3. \A i \in a .. b : a <= i /\ i <= b
    BY <1>3
  <2> QED
    BY <1>7, <2>1, <2>2, <2>3
<1>20. CASE start <= end /\ start <= n
  <2>1. Slice(index, result, kind, limits) = {ranked[i] : i \in w.s .. w.e}
    BY <1>4, <1>13, <1>20, Zenon
  <2>2. start \in 1 .. n /\ e \in 1 .. n /\ n \in Nat /\ k \in 1 .. n /\ e \in Int
    BY <1>3, <1>7, <1>13, <1>18, <1>20
  <2>3. CASE A = {}
    <3>1. w.s = start /\ w.e = e
      BY <2>3 DEF A
    <3>2. id \in Slice(index, result, kind, limits) <=> start <= k /\ k <= e
      BY <1>19, <2>1, <2>2, <3>1
    <3>3. start <= k /\ k <= e <=> start <= k /\ k <= end
      BY <1>13, <1>18, <1>20, <2>2
    <3> QED
      BY <1>17, <2>3, <3>2, <3>3
  <2>4. CASE A # {}
    <3>1. w = Widened(ranked, v, strict, start, e)
      BY <2>4 DEF A
    <3>2. ASSUME NEW j \in 1 .. n, j + 1 \in 1 .. n
          PROVE  (v[ranked[j]] = v[ranked[j + 1]]) <=> vv[j] = vv[j + 1]
      BY <1>7, <3>2
    <3>3. Min({i \in 1 .. start : \A j \in i .. start - 1 : j >= strict.min /\ v[ranked[j]] = v[ranked[j + 1]]})
            = Min(Down(vv, start, lo))
      <4>1. ASSUME NEW i \in 1 .. start, NEW j \in i .. start - 1
            PROVE  j \in 1 .. n /\ j + 1 \in 1 .. n
        BY <2>2
      <4>2. {i \in 1 .. start : \A j \in i .. start - 1 : j >= strict.min /\ v[ranked[j]] = v[ranked[j + 1]]}
              = {i \in 1 .. start : \A j \in i .. start - 1 : j >= lo /\ vv[j] = vv[j + 1]}
        BY <3>2, <4>1 DEF lo
      <4> QED
        BY <4>2 DEF Down
    <3>4. Max({i \in e .. n : \A j \in e .. i - 1 : j + 1 <= strict.max /\ v[ranked[j]] = v[ranked[j + 1]]})
            = Max(Up(vv, e, n, hi))
      <4>1. ASSUME NEW i \in e .. n, NEW j \in e .. i - 1
            PROVE  j \in 1 .. n /\ j + 1 \in 1 .. n
        BY <2>2
      <4>2. {i \in e .. n : \A j \in e .. i - 1 : j + 1 <= strict.max /\ v[ranked[j]] = v[ranked[j + 1]]}
              = {i \in e .. n : \A j \in e .. i - 1 : j + 1 <= hi /\ vv[j] = vv[j + 1]}
        BY <3>2, <4>1 DEF hi
      <4> QED
        BY <4>2 DEF Up
    <3>5. w.s = Min(Down(vv, start, lo)) /\ w.e = Max(Up(vv, e, n, hi))
      <4>1. /\ w.s = Min({i \in 1 .. start : \A j \in i .. start - 1 :
                            j >= strict.min /\ v[ranked[j]] = v[ranked[j + 1]]})
            /\ w.e = Max({i \in e .. Len(ranked) : \A j \in e .. i - 1 :
                            j + 1 <= strict.max /\ v[ranked[j]] = v[ranked[j + 1]]})
        BY <3>1 DEF Widened
      <4> QED
        BY <1>3, <3>3, <3>4, <4>1
    <3>6. /\ Min(Down(vv, start, lo)) \in 1 .. n /\ Max(Up(vv, e, n, hi)) \in 1 .. n
          /\ Min(Down(vv, start, lo)) <= k /\ k <= Max(Up(vv, e, n, hi))
               <=> KeepsRank(vv, n, lo, hi, start, end, k)
      BY <1>6, <1>11, <1>13, <1>18, <1>20, <2>2, WindowMeans
    <3>7. id \in Slice(index, result, kind, limits) <=> KeepsRank(vv, n, lo, hi, start, end, k)
      <4> DEFINE a == Min(Down(vv, start, lo))
                 b == Max(Up(vv, e, n, hi))
      <4>1. a \in 1 .. n /\ b \in 1 .. n /\ w.s = a /\ w.e = b
            /\ (a <= k /\ k <= b <=> KeepsRank(vv, n, lo, hi, start, end, k))
        BY <3>5, <3>6
      <4> HIDE DEF a, b, w
      <4>2. id \in {ranked[i] : i \in a .. b} <=> a <= k /\ k <= b
        BY <1>19, <4>1
      <4>3. Slice(index, result, kind, limits) = {ranked[i] : i \in a .. b}
        BY <2>1, <4>1
      <4> QED
        BY <4>1, <4>2, <4>3
    <3> QED
      BY <1>17, <2>4, <3>7 DEF KeepsRank
  <2> QED
    BY <2>3, <2>4
<1>21. CASE ~ (start <= end /\ start <= n)
  <2>1. Slice(index, result, kind, limits) = {}
    BY <1>4, <1>21, Zenon
  <2>2. \A o \in 1 .. n : ~ (start <= o /\ o <= end)
    BY <1>3, <1>13, <1>21
  <2> QED
    BY <1>7, <1>17, <2>1, <2>2
<1> QED
  BY <1>20, <1>21

\* The ranges of the limits there are, are whole numbers.
LimitsAreWhole ==
  \A r \in Conditions : r.kind \in Limits => r.range.min \in Int /\ r.range.max \in Int

\* The limits of both kinds keep what they mean.
LEMMA LimitsKeep ==
  ASSUME NEW index, Rankable(index), NEW limits, IsFiniteSet(limits), RangesAreWhole(limits),
         NEW result \in SUBSET EntryIds(index)
  PROVE  ApplyLimits(index, limits, result) = Kept(index, result, limits)
<1> DEFINE kinds == {r.kind : r \in limits}
           of(kind) == {r \in limits : r.kind = kind}
<1>1. ASSUME NEW id \in result, NEW kind
      PROVE  id \in Slice(index, result, kind, of(kind)) <=> Keeps(index, kind, result, of(kind), id)
  <2> DEFINE R == of(kind)
  <2>1. R \subseteq limits
    OBVIOUS
  <2> HIDE DEF R
  <2>2. IsFiniteSet(R) /\ RangesAreWhole(R)
    BY <2>1, FS_Subset DEF RangesAreWhole
  <2>3. id \in Slice(index, result, kind, R) <=> Keeps(index, kind, result, R, id)
    BY <2>2, SliceKeeps
  <2> QED
    BY <2>3 DEF R
<1>2. ApplyLimits(index, limits, result) =
        {id \in result : \A kind \in kinds : id \in Slice(index, result, kind, of(kind))}
  BY Zenon DEF ApplyLimits
<1>3. Kept(index, result, limits) =
        {id \in result : \A kind \in kinds : Keeps(index, kind, result, of(kind), id)}
  BY Zenon DEF Kept, Keeps, Core, RankIn, Ahead
<1> HIDE DEF kinds, of
<1> QED
  BY <1>1, <1>2, <1>3

\* The limits of a group of the engine keep what limits keep.
LEMMA LimitsHold ==
  ASSUME NEW index, Rankable(index), LimitsAreWhole
  PROVE  LimitsAgree(index)
<1>1. ASSUME NEW limits \in SUBSET {r \in Conditions : r.kind \in Limits},
             NEW result \in SUBSET EntryIds(index), IsFiniteSet(limits)
      PROVE  ApplyLimits(index, limits, result) = Kept(index, result, limits)
  <2>1. RangesAreWhole(limits)
    BY DEF LimitsAreWhole, RangesAreWhole
  <2> QED
    BY <1>1, <2>1, LimitsKeep
<1> QED
  BY <1>1 DEF LimitsAgree

-----------------------------------------------------------------------------
(* Tile order                                                              *)

\* One sequence is the other with its places exchanged.
Rearranges(f, n, a, b) ==
  /\ f \in [1 .. n -> 1 .. n]
  /\ \A i, j \in 1 .. n : f[i] = f[j] => i = j
  /\ \A i \in 1 .. n : \E j \in 1 .. n : f[j] = i
  /\ \A i \in 1 .. n : a[i] = b[f[i]]

\* A rearrangement can be undone.
LEMMA RearrangedBack ==
  ASSUME NEW n, NEW a, NEW b, NEW f, Rearranges(f, n, a, b)
  PROVE  \E g : Rearranges(g, n, b, a)
<1> DEFINE I == 1 .. n
           g == [i \in I |-> CHOOSE j \in I : f[j] = i]
<1>1. /\ f \in [I -> I]
      /\ \A i, j \in I : f[i] = f[j] => i = j
      /\ \A i \in I : \E j \in I : f[j] = i
      /\ \A i \in I : a[i] = b[f[i]]
  BY DEF Rearranges
<1> HIDE DEF I
<1>2. ASSUME NEW i \in I PROVE g[i] \in I /\ f[g[i]] = i
  <2>1. g[i] = CHOOSE j \in I : f[j] = i
    OBVIOUS
  <2> HIDE DEF g
  <2> QED
    BY <1>1, <2>1
<1>3. g \in [I -> I]
  <2>1. \A i \in I : g[i] \in I
    BY <1>2
  <2> QED
    BY <2>1
<1> HIDE DEF g
<1>4. \A i, j \in I : g[i] = g[j] => i = j
  BY <1>2
<1>5. \A i \in I : \E j \in I : g[j] = i
  <2>1. ASSUME NEW i \in I PROVE f[i] \in I /\ g[f[i]] = i
    <3>1. f[i] \in I
      BY <1>1
    <3>2. g[f[i]] \in I /\ f[g[f[i]]] = f[i]
      BY <1>2, <3>1
    <3> QED
      BY <1>1, <3>1, <3>2
  <2> QED
    BY <2>1
<1>6. \A i \in I : b[i] = a[g[i]]
  BY <1>1, <1>2
<1>7. Rearranges(g, n, b, a)
  BY <1>3, <1>4, <1>5, <1>6 DEF Rearranges, I
<1> QED
  BY <1>7

\* A rearrangement of a rearrangement is one.
LEMMA RearrangedTwice ==
  ASSUME NEW n, NEW a, NEW b, NEW c, NEW f, Rearranges(f, n, a, b), NEW g, Rearranges(g, n, b, c)
  PROVE  \E h : Rearranges(h, n, a, c)
<1> DEFINE I == 1 .. n
           h == [i \in I |-> g[f[i]]]
<1>1. /\ f \in [I -> I] /\ g \in [I -> I]
      /\ \A i, j \in I : f[i] = f[j] => i = j
      /\ \A i, j \in I : g[i] = g[j] => i = j
      /\ \A i \in I : \E j \in I : f[j] = i
      /\ \A i \in I : \E j \in I : g[j] = i
      /\ \A i \in I : a[i] = b[f[i]]
      /\ \A i \in I : b[i] = c[g[i]]
  BY DEF Rearranges
<1> HIDE DEF I
<1>2. h \in [I -> I] /\ \A i \in I : h[i] = g[f[i]] /\ f[i] \in I
  BY <1>1
<1> HIDE DEF h
<1>3. \A i, j \in I : h[i] = h[j] => i = j
  BY <1>1, <1>2
<1>4. \A i \in I : \E j \in I : h[j] = i
  BY <1>1, <1>2
<1>5. ASSUME NEW i \in I PROVE a[i] = c[h[i]]
  <2>1. f[i] \in I /\ h[i] = g[f[i]] /\ a[i] = b[f[i]]
    BY <1>1, <1>2
  <2>2. b[f[i]] = c[g[f[i]]]
    BY <1>1, <2>1
  <2> QED
    BY <2>1, <2>2
<1>6. Rearranges(h, n, a, c)
  BY <1>2, <1>3, <1>4, <1>5 DEF Rearranges, I
<1> QED
  BY <1>6

Rises(c, n) == /\ \A i \in 1 .. n : c[i] \in Nat
               /\ \A i, j \in 1 .. n : i < j => c[i] <= c[j]

\* Of two rising rearrangements neither is below the other anywhere.
LEMMA RisingAbove ==
  ASSUME NEW n \in Nat, NEW a, NEW b, Rises(a, n), Rises(b, n), NEW f, Rearranges(f, n, a, b),
         NEW k \in 1 .. n
  PROVE  b[k] <= a[k]
<1>1. SUFFICES ASSUME ~ (b[k] <= a[k]) PROVE FALSE
  OBVIOUS
<1>2. a[k] \in Nat /\ b[k] \in Nat /\ a[k] < b[k]
  BY <1>1 DEF Rises
<1>3. ASSUME NEW i \in 1 .. k PROVE f[i] \in 1 .. k - 1
  <2>1. i \in 1 .. n /\ a[i] \in Nat /\ f[i] \in 1 .. n /\ a[i] = b[f[i]]
    BY DEF Rises, Rearranges
  <2>2. a[i] <= a[k]
    <3>1. i = k \/ i < k
      OBVIOUS
    <3> QED
      BY <1>2, <2>1, <3>1 DEF Rises
  <2>3. ~ (k <= f[i])
    <3>1. ASSUME k <= f[i] PROVE FALSE
      <4>1. b[k] <= b[f[i]]
        <5>1. k = f[i] \/ k < f[i]
          BY <2>1, <3>1
        <5> QED
          BY <1>2, <2>1, <5>1 DEF Rises
      <4> QED
        BY <1>2, <2>1, <2>2, <4>1
    <3> QED
      BY <3>1
  <2> QED
    BY <2>1, <2>3
<1> DEFINE A == 1 .. k
           B == 1 .. k - 1
           g == [i \in A |-> f[i]]
<1>4. g \in [A -> B]
  BY <1>3
<1>5. \A x, y \in A : g[x] = g[y] => x = y
  <2>1. \A i, j \in 1 .. n : f[i] = f[j] => i = j
    BY DEF Rearranges
  <2>2. \A i \in A : i \in 1 .. n /\ g[i] = f[i]
    OBVIOUS
  <2> HIDE DEF A, g
  <2> QED
    BY <2>1, <2>2
<1>6. k \in Nat /\ k - 1 \in Nat
  OBVIOUS
<1>7. IsFiniteSet(A) /\ Cardinality(A) = k
  <2> HIDE DEF B, g
  <2> QED
    BY <1>6, FS_Interval
<1>8. IsFiniteSet(B) /\ Cardinality(B) = k - 1
  <2> DEFINE m == k - 1
  <2>1. m \in Nat
    BY <1>6
  <2> HIDE DEF m
  <2>2. IsFiniteSet(1 .. m) /\ Cardinality(1 .. m) = m
    BY <2>1, FS_Interval
  <2> QED
    BY <2>2 DEF m
<1> HIDE DEF A, B, g
<1>9. Cardinality(A) <= Cardinality(B)
  BY <1>4, <1>5, <1>8, NoMore
<1> QED
  BY <1>6, <1>7, <1>8, <1>9

\* Two rising sequences of the same elements are the same.
LEMMA RisingSame ==
  ASSUME NEW n \in Nat, NEW a, NEW b, Rises(a, n), Rises(b, n), NEW f, Rearranges(f, n, a, b)
  PROVE  \A k \in 1 .. n : a[k] = b[k]
<1>1. PICK g : Rearranges(g, n, b, a)
  BY RearrangedBack
<1>2. ASSUME NEW k \in 1 .. n PROVE a[k] = b[k]
  <2>1. b[k] <= a[k]
    BY RisingAbove
  <2>2. a[k] <= b[k]
    BY <1>1, RisingAbove
  <2>3. a[k] \in Nat /\ b[k] \in Nat
    BY DEF Rises
  <2> QED
    BY <2>1, <2>2, <2>3
<1> QED
  BY <1>2

\* Tile order is a rising rearrangement.
TileOrder(c, tiles) ==
  /\ c \in [1 .. Len(tiles) -> Nat] /\ Len(c) = Len(tiles) /\ c \in Seq(Nat)
  /\ Rises(c, Len(tiles))
  /\ \E g : Rearranges(g, Len(tiles), c, tiles)

\* Canonical puts the tiles of a sequence in tile order (tiles.rs canonical_leave).
LEMMA CanonicalFacts ==
  ASSUME NEW tiles \in Seq(Nat)
  PROVE  TileOrder(Canonical(tiles), tiles)
<1> DEFINE W == DOMAIN tiles
           n == Cardinality(W)
           L(i, j) == \/ tiles[i] < tiles[j]
                      \/ tiles[i] = tiles[j] /\ i < j
           R == {p \in W \X W : L(p[1], p[2])}
           order == InSequence(W, L)
           c == Canonical(tiles)
<1>1. W = 1 .. Len(tiles) /\ Len(tiles) \in Nat /\ \A i \in W : tiles[i] \in Nat
  OBVIOUS
<1>2. IsFiniteSet(W) /\ n = Len(tiles) /\ n \in Nat
  <2> DEFINE m == Len(tiles)
  <2>1. m \in Nat /\ W = 1 .. m
    BY <1>1
  <2> HIDE DEF m, W
  <2>2. IsFiniteSet(1 .. m) /\ Cardinality(1 .. m) = m
    BY <2>1, FS_Interval
  <2> QED
    BY <2>1, <2>2 DEF m
<1>3. Orders(R, W)
  <2>1. ASSUME NEW i \in W, NEW j \in W PROVE <<i, j>> \in R <=> L(i, j)
    OBVIOUS
  <2>2. \A i \in W : tiles[i] \in Nat /\ i \in Nat
    BY <1>1
  <2> HIDE DEF R, W
  <2>3. \A x \in W : ~ L(x, x)
    BY <2>2
  <2>4. \A x, y, z \in W : L(x, y) /\ L(y, z) => L(x, z)
    BY <2>2
  <2>5. \A x, y \in W : x # y => L(x, y) \/ L(y, x)
    BY <2>2
  <2> HIDE DEF L
  <2> QED
    BY <2>1, <2>3, <2>4, <2>5 DEF Orders
<1>4. ASSUME NEW x \in W PROVE {y \in W : L(y, x)} = Under(R, W, x)
  BY DEF Under
<1>5. \A i \in 1 .. n : \E x \in W : Cardinality(Under(R, W, x)) = i - 1
  <2> HIDE DEF R, W
  <2> QED
    BY <1>2, <1>3, Positions
<1>6. \A i \in 1 .. n : \E x \in W : Cardinality({y \in W : L(y, x)}) = i - 1
  <2> HIDE DEF R, L
  <2> QED
    BY <1>4, <1>5
<1>7. order = [i \in 1 .. n |-> CHOOSE x \in W : Cardinality({y \in W : L(y, x)}) = i - 1]
  <2> HIDE DEF W
  <2> QED
    BY DEF InSequence
<1>8. ASSUME NEW i \in 1 .. n
      PROVE  order[i] \in W /\ Cardinality(Under(R, W, order[i])) = i - 1
  <2> HIDE DEF R, L, W, order
  <2>1. order[i] = CHOOSE x \in W : Cardinality({y \in W : L(y, x)}) = i - 1
    BY <1>7
  <2>2. order[i] \in W /\ Cardinality({y \in W : L(y, order[i])}) = i - 1
    BY <1>6, <2>1
  <2> QED
    BY <1>4, <2>2
<1>9. DOMAIN order = 1 .. n /\ order = [i \in 1 .. n |-> order[i]]
  <2> HIDE DEF L, W
  <2> QED
    BY <1>7
<1>10. c = [k \in DOMAIN order |-> tiles[order[k]]]
  BY Zenon DEF Canonical
<1> HIDE DEF order, c
<1>11. /\ Enumerates(order, W)
       /\ \A i, j \in DOMAIN order : i < j <=> <<order[i], order[j]>> \in R
  <2> HIDE DEF R, W
  <2> QED
    BY <1>2, <1>3, <1>8, <1>9, Enumerated, InOrderOnce
<1>12. c = [k \in 1 .. n |-> tiles[order[k]]] /\ \A k \in 1 .. n : order[k] \in W
  BY <1>8, <1>9, <1>10
<1>13. c \in [1 .. n -> Nat]
  BY <1>1, <1>12
<1>14. Rises(c, n)
  <2>1. ASSUME NEW i \in 1 .. n, NEW j \in 1 .. n, i < j PROVE c[i] <= c[j]
    <3>1. <<order[i], order[j]>> \in R
      BY <1>9, <1>11, <2>1
    <3>2. L(order[i], order[j])
      BY <3>1
    <3>3. c[i] = tiles[order[i]] /\ c[j] = tiles[order[j]] /\ c[i] \in Nat /\ c[j] \in Nat
      BY <1>12, <1>13
    <3> QED
      BY <3>2, <3>3
  <2> QED
    BY <1>13, <2>1 DEF Rises
<1>15. Rearranges(order, n, c, tiles)
  <2>1. W = 1 .. n
    BY <1>1, <1>2
  <2>2. order \in [1 .. n -> 1 .. n] /\ (\A i, j \in 1 .. n : order[i] = order[j] => i = j)
        /\ \A x \in 1 .. n : \E i \in 1 .. n : order[i] = x
    BY <1>11, <2>1 DEF Enumerates
  <2> QED
    BY <1>12, <2>2 DEF Rearranges
<1>16. Len(c) = n /\ c \in Seq(Nat)
  <2> HIDE DEF n
  <2> QED
    BY <1>2, <1>13, LenOf
<1> HIDE DEF n
<1> QED
  BY <1>2, <1>13, <1>14, <1>15, <1>16 DEF c, TileOrder

\* Words of the same tiles have one alphagram.
LEMMA SameLetters ==
  ASSUME NEW a \in Seq(Nat), NEW b \in Seq(Nat), Len(a) = Len(b),
         NEW f, Rearranges(f, Len(a), a, b)
  PROVE  Canonical(a) = Canonical(b)
<1> DEFINE n == Len(a)
           x == Canonical(a)
           y == Canonical(b)
<1>1. n \in Nat /\ n = Len(b)
  OBVIOUS
<1>2. TileOrder(x, a) /\ TileOrder(y, b)
  BY CanonicalFacts
<1> HIDE DEF n, x, y
<1>3. x \in [1 .. n -> Nat] /\ y \in [1 .. n -> Nat] /\ Rises(x, n) /\ Rises(y, n)
  BY <1>1, <1>2 DEF TileOrder, n
<1>4. PICK g : Rearranges(g, n, x, a)
  BY <1>2 DEF TileOrder, n
<1>5. PICK h : Rearranges(h, n, y, b)
  BY <1>1, <1>2 DEF TileOrder, n
<1>6. PICK k : Rearranges(k, n, b, y)
  BY <1>5, RearrangedBack
<1>7. Rearranges(f, n, a, b)
  BY DEF n
<1>8. PICK p : Rearranges(p, n, x, b)
  BY <1>4, <1>7, RearrangedTwice
<1>9. PICK q : Rearranges(q, n, x, y)
  BY <1>6, <1>8, RearrangedTwice
<1>10. \A i \in 1 .. n : x[i] = y[i]
  BY <1>1, <1>3, <1>9, RisingSame
<1>11. x = y
  <2> DEFINE I == 1 .. n
  <2>1. x \in [I -> Nat] /\ y \in [I -> Nat] /\ \A i \in I : x[i] = y[i]
    BY <1>3, <1>10
  <2> HIDE DEF I
  <2> QED
    BY <2>1
<1> QED
  BY <1>11 DEF x, y

\* An alphagram is its own.
LEMMA CanonicalTwice ==
  ASSUME NEW tiles \in Seq(Nat)
  PROVE  Canonical(Canonical(tiles)) = Canonical(tiles)
<1> DEFINE c == Canonical(tiles)
<1>1. TileOrder(c, tiles)
  BY CanonicalFacts
<1> HIDE DEF c
<1>2. c \in Seq(Nat) /\ Len(c) = Len(tiles)
  BY <1>1 DEF TileOrder
<1>3. PICK g : Rearranges(g, Len(c), c, tiles)
  BY <1>1, <1>2 DEF TileOrder
<1>4. Canonical(c) = Canonical(tiles)
  BY <1>2, <1>3, SameLetters
<1> QED
  BY <1>4 DEF c

-----------------------------------------------------------------------------
(* What evaluation starts from                                             *)

\* An entry is looked up by the tiles it has, in tile order.
KeyOf(index, id) ==
  IF index.kind = "words" THEN index.alphagrams[index.entries[id].alphagram]
  ELSE TilesOf(index, id)
IsKeyed(index) == \A id \in EntryIds(index) : KeyOf(index, id) = Canonical(TilesOf(index, id))

\* A one-to-one map of an interval into itself reaches all of it.
LEMMA Onto ==
  ASSUME NEW n \in Nat, NEW f \in Injection(1 .. n, 1 .. n)
  PROVE  /\ f \in [1 .. n -> 1 .. n]
         /\ \A i, j \in 1 .. n : f[i] = f[j] => i = j
         /\ \A i \in 1 .. n : \E j \in 1 .. n : f[j] = i
<1> DEFINE I == 1 .. n
<1>1. IsFiniteSet(I)
  BY FS_Interval
<1> HIDE DEF I
<1>2. f \in Injection(I, I)
  BY DEF I
<1>3. f \in Surjection(I, I)
  BY <1>1, <1>2, FS_Injection
<1>4. f \in [I -> I] /\ \A i, j \in I : f[i] = f[j] => i = j
  BY <1>2, InjectionMeans
<1> QED
  BY <1>3, <1>4 DEF I, Surjection

\* A literal anagram takes only the words with its alphagram.
LEMMA LiteralKeys ==
  ASSUME NEW index, WellMade(index), NEW id \in EntryIds(index),
         NEW row, row.kind = "anagram_match", IsPattern(row, index.distribution),
         \A i \in DOMAIN row.pattern : row.pattern[i].tok = "tile",
         Hit(index, row, id)
  PROVE  Canonical(TilesOf(index, id)) =
           Canonical([i \in DOMAIN row.pattern |-> row.pattern[i].tile])
<1> DEFINE d == index.distribution
           p == row.pattern
           lit == [i \in DOMAIN p |-> p[i].tile]
           n == Len(p)
           tiles == TilesOf(index, id)
<1>1. tiles \in Seq(DOMAIN d) /\ IsDistribution(d)
  <2>1. PICK t \in Seq(DOMAIN d) : index.entries[id].own = OwnAttributes(d, t)
    BY DEF WellMade, Describes
  <2>2. tiles = t
    BY <2>1 DEF OwnAttributes, TilesOf
  <2>3. IsDistribution(d)
    BY DEF WellMade
  <2> QED
    BY <2>2, <2>3
<1>2. LaysAgainst(d, row, tiles)
  BY PatternsAreTried DEF PatternsTryEveryWay
<1>3. p \in Seq(Tokens(DOMAIN d)) /\ DOMAIN p = 1 .. n /\ n \in Nat
  BY DEF IsPattern
<1>4. At(p, {"tile", "set", "any"}) = 1 .. n /\ At(p, {"star"}) = {}
  BY <1>3 DEF At
<1> HIDE DEF tiles, d
<1>5. /\ At(p, {"star"}) # {} \/ Cardinality(At(p, {"tile", "set", "any"})) = Len(tiles)
      /\ \E f \in Injection(At(p, {"tile", "set", "any"}), DOMAIN tiles) :
           \A i \in At(p, {"tile", "set", "any"}) : Takes(d, p[i], tiles[f[i]])
  BY <1>2 DEF LaysAgainst
<1>6. \A i \in 1 .. n : /\ p[i].tok = "tile" /\ p[i].tile \in DOMAIN d
                        /\ \A t : Takes(d, p[i], t) => p[i].tile = t
  <2>1. \A i \in 1 .. n : p[i].tok = "tile" /\ p[i] \in Tokens(DOMAIN d)
    BY <1>3
  <2> HIDE DEF p, n
  <2> QED
    BY <2>1 DEF Tokens, Takes
<1> HIDE DEF p, n
<1>7. Cardinality(1 .. n) = n
  BY <1>3, FS_Interval
<1>8. Len(tiles) = n
  BY <1>4, <1>5, <1>7
<1>9. DOMAIN tiles = 1 .. n
  BY <1>1, <1>8
<1>10. PICK f \in Injection(1 .. n, 1 .. n) : \A i \in 1 .. n : Takes(d, p[i], tiles[f[i]])
  BY <1>4, <1>5, <1>9
<1>11. /\ f \in [1 .. n -> 1 .. n]
       /\ \A i, j \in 1 .. n : f[i] = f[j] => i = j
       /\ \A i \in 1 .. n : \E j \in 1 .. n : f[j] = i
  BY <1>3, Onto
<1>13. lit \in [1 .. n -> DOMAIN d] /\ \A i \in 1 .. n : lit[i] = p[i].tile
  BY <1>3, <1>6
<1> HIDE DEF lit
<1>14. Rearranges(f, n, lit, tiles)
  BY <1>6, <1>10, <1>11, <1>13 DEF Rearranges
<1>15. lit \in Seq(Nat) /\ Len(lit) = n /\ tiles \in Seq(Nat)
  <2>1. DOMAIN d \subseteq Nat
    BY <1>1 DEF IsDistribution
  <2>2. lit \in [1 .. n -> Nat]
    BY <1>13, <2>1
  <2>3. Len(lit) = n /\ lit \in Seq(Nat)
    BY <1>3, <2>2, LenOf
  <2>4. tiles \in Seq(Nat)
    BY <1>1, <2>1
  <2> QED
    BY <2>3, <2>4
<1>16. Canonical(lit) = Canonical(tiles)
  BY <1>8, <1>14, <1>15, SameLetters
<1> QED
  BY <1>16 DEF lit, tiles, p

\* Evaluation that starts from the shortcut misses nothing that the rows of the
\* top group accept.
LEMMA ShortcutPasses ==
  ASSUME NEW index, WellMade(index), IsKeyed(index), RowsAreMade(index.distribution),
         NEW root \in GroupsTo(Depth)
  PROVE  /\ Shortcut(index, root) \in SUBSET EntryIds(index)
         /\ root.op # "and" => Shortcut(index, root) = EntryIds(index)
         /\ root.op = "and" => Passing(index, root, Shortcut(index, root)) =
                                 Passing(index, root, EntryIds(index))
<1> DEFINE ids == EntryIds(index)
           lengths == {r \in Predicates(root) : r.kind = "length" /\ ~ r.negated}
           inLength(id) == \A r \in lengths : Inside(r.range, index.entries[id].own.length)
<1>1. Shortcut(index, root) =
        IF root.op # "and" THEN ids
        ELSE {id \in ids : /\ inLength(id)
                           /\ Literals(root) # {} => KeyOf(index, id) = LastLiteral(root)}
  BY Zenon DEF Shortcut, KeyOf
<1>2. Predicates(root) \subseteq Conditions /\ root.children \in Seq(Conditions \cup GroupsTo(Depth - 1))
  BY SearchAssumption, GroupFacts
<1>3. ASSUME NEW r \in Predicates(root)
      PROVE  r.negated \in BOOLEAN /\ (r.kind \in PatternKinds => IsPattern(r, index.distribution))
  <2>1. r \in Conditions /\ r.kind \notin Limits
    BY <1>2 DEF Predicates, LimitsIn
  <2> QED
    BY <2>1 DEF RowsAreMade
<1>4. ASSUME NEW id \in ids, \A r \in Predicates(root) : Test(index, r, id) PROVE inLength(id)
  <2>1. ASSUME NEW r \in lengths PROVE Inside(r.range, index.entries[id].own.length)
    <3>1. r \in Predicates(root) /\ r.kind = "length" /\ ~ r.negated
      OBVIOUS
    <3>2. Hit(index, r, id) <=> TRUE
      <4>1. Test(index, r, id) /\ r.negated \in BOOLEAN
        BY <1>3, <1>4, <3>1
      <4>2. Hit(index, r, id) # FALSE
        BY <3>1, <4>1 DEF Test
      <4>3. Hit(index, r, id) = Inside(r.range, index.entries[id].own["length"])
        BY <3>1 DEF Hit
      <4> QED
        BY <4>2, <4>3 DEF Inside
    <3>3. Hit(index, r, id) <=> Inside(r.range, index.entries[id].own.length)
      BY <3>1 DEF Hit
    <3> QED
      BY <3>2, <3>3
  <2> QED
    BY <2>1
<1>5. ASSUME NEW id \in ids, \A r \in Predicates(root) : Test(index, r, id), Literals(root) # {}
      PROVE  KeyOf(index, id) = LastLiteral(root)
  <2> DEFINE kids == root.children
             at == {i \in DOMAIN kids : kids[i] \in Literals(root)}
  <2>1. Len(kids) \in Nat /\ DOMAIN kids = 1 .. Len(kids)
    BY <1>2
  <2>2. at # {}
    <3>1. PICK r \in Literals(root) : TRUE
      BY <1>5
    <3>2. r \in ToSet(kids)
      BY <3>1 DEF Literals, Predicates, RowsIn
    <3>3. \E i \in DOMAIN kids : kids[i] = r
      BY <3>2 DEF ToSet
    <3> QED
      BY <3>1, <3>3
  <2>3. at \subseteq 1 .. Len(kids)
    BY <2>1
  <2> HIDE DEF at
  <2>4. IsFiniteSet(at) /\ at \subseteq Int
    <3>1. IsFiniteSet(at)
      BY <2>1, <2>3, PartOfInterval
    <3>2. \A i \in 1 .. Len(kids) : i \in Int
      BY <2>1
    <3> QED
      BY <2>3, <3>1, <3>2
  <2>5. Max(at) \in at
    BY <2>2, <2>4, Greatest
  <2> DEFINE row == kids[Max(at)]
  <2>6. row \in Literals(root)
    BY <2>5 DEF at
  <2>7. LastLiteral(root) = Canonical([i \in DOMAIN row.pattern |-> row.pattern[i].tile])
    BY Zenon DEF LastLiteral, at
  <2> HIDE DEF row
  <2>8. /\ row \in Predicates(root) /\ row.kind = "anagram_match" /\ ~ row.negated
        /\ \A i \in DOMAIN row.pattern : row.pattern[i].tok = "tile"
    BY <2>6 DEF Literals
  <2>9. IsPattern(row, index.distribution) /\ row.negated \in BOOLEAN
    BY <1>3, <2>8 DEF PatternKinds
  <2>10. Hit(index, row, id)
    <3>1. Hit(index, row, id) # FALSE
      BY <1>5, <2>8, <2>9 DEF Test
    <3>2. Hit(index, row, id) = Anagram(PatternBag(index.distribution, row.pattern),
                                        index.entries[id].own.counts, index.entries[id].own.length)
      BY <2>8 DEF Hit
    <3> QED
      BY <3>1, <3>2 DEF Anagram
  <2>11. Canonical(TilesOf(index, id)) = Canonical([i \in DOMAIN row.pattern |-> row.pattern[i].tile])
    BY <2>8, <2>9, <2>10, LiteralKeys
  <2>12. KeyOf(index, id) = Canonical(TilesOf(index, id))
    BY DEF IsKeyed
  <2> QED
    BY <2>7, <2>11, <2>12
<1> DEFINE start == Shortcut(index, root)
<1>6. ASSUME root.op = "and", NEW id \in Passing(index, root, ids) PROVE id \in start
  <2>1. id \in ids /\ \A r \in Predicates(root) : Test(index, r, id)
    BY DEF Passing
  <2>2. inLength(id) /\ (Literals(root) # {} => KeyOf(index, id) = LastLiteral(root))
    BY <1>4, <1>5, <2>1
  <2> HIDE DEF inLength, start
  <2> QED
    BY <1>1, <1>6, <2>1, <2>2 DEF start
<1>7. start \in SUBSET ids /\ (root.op # "and" => start = ids)
  <2> HIDE DEF inLength
  <2> QED
    BY <1>1
<1> HIDE DEF start, ids
<1>8. root.op = "and" => Passing(index, root, start) = Passing(index, root, ids)
  BY <1>6, <1>7 DEF Passing
<1> QED
  BY <1>7, <1>8 DEF start, ids

\* A search finds what its tree means, whatever it starts from, and without
\* limits what satisfies it.
LEMMA IdsAreMeant ==
  ASSUME NEW index, WellMade(index), IsKeyed(index), Rankable(index), RowsAreMade(index.distribution),
         NEW root \in GroupsTo(Depth)
  PROVE  /\ RunIds(index, root) = Means(index, root)
         /\ ~ HasLimits(root) =>
              RunIds(index, root) = {id \in EntryIds(index) : Satisfies(index, root, id)}
<1> DEFINE start == Shortcut(index, root)
           ids == EntryIds(index)
<1>1. LimitsAgree(index)
  BY LimitsHold DEF RowsAreMade, LimitsAreWhole
<1>2. start \in SUBSET ids /\ (root.op # "and" => start = ids)
      /\ (root.op = "and" => Passing(index, root, start) = Passing(index, root, ids))
  BY ShortcutPasses
<1> HIDE DEF start
<1>3. EvalGroup(index, root, start) = Means(index, root)
  BY <1>1, <1>2, EvalIsMeaning
<1>4. EvalGroup(index, root, ids) = Means(index, root)
  <2>1. ids \in SUBSET EntryIds(index) /\ ids = EntryIds(index)
    OBVIOUS
  <2> HIDE DEF ids
  <2> QED
    BY <1>1, <2>1, EvalIsMeaning
<1>5. RunIds(index, root) = Means(index, root)
  BY <1>3 DEF RunIds, start
<1>6. Means(index, root) \subseteq ids
  <2>1. PICK f : EvalStepByStep(f, index)
    BY EvalLevels
  <2>2. EvalGroup(index, root, ids) = f[Depth][root][ids]
    BY <2>1 DEF EvalStepByStep
  <2>3. f[Depth] \in Results(index, Depth)
    BY <2>1, SearchAssumption DEF EvalStepByStep
  <2>4. f[Depth][root][ids] \in SUBSET ids
    BY <2>3 DEF Results
  <2> QED
    BY <1>4, <2>2, <2>4
<1>7. ASSUME ~ HasLimits(root)
      PROVE  RunIds(index, root) = {id \in ids : Satisfies(index, root, id)}
  <2>1. \A id \in ids : id \in EvalGroup(index, root, ids) <=> Satisfies(index, root, id)
    BY <1>7, FormulaTrees
  <2> QED
    BY <1>4, <1>5, <1>6, <2>1
<1> QED
  BY <1>5, <1>7

-----------------------------------------------------------------------------
(* Alphabetical and ascending sequences                                    *)

ByTiles(raw) == InSequence(raw, LAMBDA a, b : Before(a.tiles, b.tiles))
Alphabetical(S) == InSequence(S, Before)
Ascending(S) == InSequence(S, <)

\* Entries by their tiles.
LEMMA ByTilesFacts ==
  ASSUME NEW raw, IsFiniteSet(raw), \A x \in raw : x.tiles \in Seq(Nat),
         \A x, y \in raw : x.tiles = y.tiles => x = y
  PROVE  /\ Enumerates(ByTiles(raw), raw)
         /\ DOMAIN ByTiles(raw) = 1 .. Cardinality(raw)
         /\ \A i, j \in 1 .. Cardinality(raw) : i < j <=> Before(ByTiles(raw)[i].tiles, ByTiles(raw)[j].tiles)
<1> DEFINE n == Cardinality(raw)
           L(x, y) == Before(x.tiles, y.tiles)
           R == {p \in raw \X raw : L(p[1], p[2])}
           order == ByTiles(raw)
<1>1. n \in Nat
  BY FS_CardinalityType
<1>2. Orders(R, raw)
  <2>1. \A x, y \in raw : <<x, y>> \in R <=> L(x, y)
    OBVIOUS
  <2>2. \A x \in raw : ~ L(x, x)
    BY BeforeOrders
  <2>3. \A x, y, z \in raw : L(x, y) /\ L(y, z) => L(x, z)
    BY BeforeOrders
  <2>4. \A x, y \in raw : x # y => L(x, y) \/ L(y, x)
    BY BeforeOrders
  <2> HIDE DEF L, R
  <2> QED
    BY <2>1, <2>2, <2>3, <2>4 DEF Orders
<1>3. ASSUME NEW x \in raw PROVE {y \in raw : L(y, x)} = Under(R, raw, x)
  <2>1. \A y \in raw : <<y, x>> \in R <=> L(y, x)
    OBVIOUS
  <2> HIDE DEF L, R
  <2> QED
    BY <2>1 DEF Under
<1>4. \A i \in 1 .. n : \E x \in raw : Cardinality(Under(R, raw, x)) = i - 1
  <2> HIDE DEF R
  <2> QED
    BY <1>2, Positions
<1>5. \A i \in 1 .. n : \E x \in raw : Cardinality({y \in raw : L(y, x)}) = i - 1
  <2> HIDE DEF R, L
  <2> QED
    BY <1>3, <1>4
<1>6. order = [i \in 1 .. n |-> CHOOSE x \in raw : Cardinality({y \in raw : L(y, x)}) = i - 1]
  BY Zenon DEF ByTiles, InSequence
<1>7. ASSUME NEW i \in 1 .. n
      PROVE  order[i] \in raw /\ Cardinality(Under(R, raw, order[i])) = i - 1
  <2> HIDE DEF R, L, order
  <2>1. order[i] = CHOOSE x \in raw : Cardinality({y \in raw : L(y, x)}) = i - 1
    BY <1>6
  <2>2. order[i] \in raw /\ Cardinality({y \in raw : L(y, order[i])}) = i - 1
    BY <1>5, <2>1
  <2> QED
    BY <1>3, <2>2
<1>8. DOMAIN order = 1 .. n /\ order = [i \in 1 .. n |-> order[i]]
  <2> DEFINE H(i) == CHOOSE x \in raw : Cardinality({y \in raw : L(y, x)}) = i - 1
  <2>1. order = [i \in 1 .. n |-> H(i)]
    BY <1>6
  <2> HIDE DEF H, order
  <2> QED
    BY <2>1
<1> HIDE DEF order, R
<1>9. /\ Enumerates(order, raw)
      /\ \A i, j \in DOMAIN order : i < j <=> <<order[i], order[j]>> \in R
  <2>1. \A i \in 1 .. n : order[i] \in raw /\ Cardinality(Under(R, raw, order[i])) = i - 1
    BY <1>7
  <2>2. Enumerates(order, raw)
    BY <1>2, <1>8, <2>1, Enumerated
  <2>3. \A i, j \in DOMAIN order : i < j <=> <<order[i], order[j]>> \in R
    BY <1>2, <1>8, <2>1, InOrderOnce
  <2> QED
    BY <2>2, <2>3
<1>10. ASSUME NEW i \in 1 .. n, NEW j \in 1 .. n
       PROVE  <<order[i], order[j]>> \in R <=> L(order[i], order[j])
  <2>1. order[i] \in raw /\ order[j] \in raw
    BY <1>7
  <2> QED
    BY <2>1 DEF R
<1> HIDE DEF n, L
<1>11. ASSUME NEW i \in 1 .. n, NEW j \in 1 .. n PROVE i < j <=> L(order[i], order[j])
  <2>1. i < j <=> <<order[i], order[j]>> \in R
    BY <1>8, <1>9
  <2> QED
    BY <1>10, <2>1
<1> QED
  BY <1>8, <1>9, <1>11 DEF order, n, L

\* Words in alphabetical order.
LEMMA AlphabeticalFacts ==
  ASSUME NEW S, IsFiniteSet(S), \A x \in S : x \in Seq(Nat)
  PROVE  /\ Enumerates(Alphabetical(S), S)
         /\ DOMAIN Alphabetical(S) = 1 .. Cardinality(S)
         /\ \A i, j \in 1 .. Cardinality(S) : i < j <=> Before(Alphabetical(S)[i], Alphabetical(S)[j])
<1> DEFINE n == Cardinality(S)
           L(x, y) == Before(x, y)
           R == {p \in S \X S : L(p[1], p[2])}
           order == Alphabetical(S)
<1>1. n \in Nat
  BY FS_CardinalityType
<1>2. Orders(R, S)
  <2>1. \A x, y \in S : <<x, y>> \in R <=> L(x, y)
    OBVIOUS
  <2>2. \A x \in S : ~ L(x, x)
    BY BeforeOrders
  <2>3. \A x, y, z \in S : L(x, y) /\ L(y, z) => L(x, z)
    BY BeforeOrders
  <2>4. \A x, y \in S : x # y => L(x, y) \/ L(y, x)
    BY BeforeOrders
  <2> HIDE DEF L, R
  <2> QED
    BY <2>1, <2>2, <2>3, <2>4 DEF Orders
<1>3. ASSUME NEW x \in S PROVE {y \in S : L(y, x)} = Under(R, S, x)
  <2>1. \A y \in S : <<y, x>> \in R <=> L(y, x)
    OBVIOUS
  <2> HIDE DEF L, R
  <2> QED
    BY <2>1 DEF Under
<1>4. \A i \in 1 .. n : \E x \in S : Cardinality(Under(R, S, x)) = i - 1
  <2> HIDE DEF R
  <2> QED
    BY <1>2, Positions
<1>5. \A i \in 1 .. n : \E x \in S : Cardinality({y \in S : L(y, x)}) = i - 1
  <2> HIDE DEF R, L
  <2> QED
    BY <1>3, <1>4
<1>6. order = [i \in 1 .. n |-> CHOOSE x \in S : Cardinality({y \in S : L(y, x)}) = i - 1]
  BY Zenon DEF Alphabetical, InSequence
<1>7. ASSUME NEW i \in 1 .. n
      PROVE  order[i] \in S /\ Cardinality(Under(R, S, order[i])) = i - 1
  <2> HIDE DEF R, L, order
  <2>1. order[i] = CHOOSE x \in S : Cardinality({y \in S : L(y, x)}) = i - 1
    BY <1>6
  <2>2. order[i] \in S /\ Cardinality({y \in S : L(y, order[i])}) = i - 1
    BY <1>5, <2>1
  <2> QED
    BY <1>3, <2>2
<1>8. DOMAIN order = 1 .. n /\ order = [i \in 1 .. n |-> order[i]]
  <2> DEFINE H(i) == CHOOSE x \in S : Cardinality({y \in S : L(y, x)}) = i - 1
  <2>1. order = [i \in 1 .. n |-> H(i)]
    BY <1>6
  <2> HIDE DEF H, order
  <2> QED
    BY <2>1
<1> HIDE DEF order, R
<1>9. /\ Enumerates(order, S)
      /\ \A i, j \in DOMAIN order : i < j <=> <<order[i], order[j]>> \in R
  <2>1. \A i \in 1 .. n : order[i] \in S /\ Cardinality(Under(R, S, order[i])) = i - 1
    BY <1>7
  <2>2. Enumerates(order, S)
    BY <1>2, <1>8, <2>1, Enumerated
  <2>3. \A i, j \in DOMAIN order : i < j <=> <<order[i], order[j]>> \in R
    BY <1>2, <1>8, <2>1, InOrderOnce
  <2> QED
    BY <2>2, <2>3
<1>10. ASSUME NEW i \in 1 .. n, NEW j \in 1 .. n
       PROVE  <<order[i], order[j]>> \in R <=> L(order[i], order[j])
  <2>1. order[i] \in S /\ order[j] \in S
    BY <1>7
  <2> QED
    BY <2>1 DEF R
<1> HIDE DEF n, L
<1>11. ASSUME NEW i \in 1 .. n, NEW j \in 1 .. n PROVE i < j <=> L(order[i], order[j])
  <2>1. i < j <=> <<order[i], order[j]>> \in R
    BY <1>8, <1>9
  <2> QED
    BY <1>10, <2>1
<1> QED
  BY <1>8, <1>9, <1>11 DEF order, n, L

\* Numbers in ascending order.
LEMMA AscendingFacts ==
  ASSUME NEW S, IsFiniteSet(S), \A x \in S : x \in Int
  PROVE  /\ Enumerates(Ascending(S), S)
         /\ DOMAIN Ascending(S) = 1 .. Cardinality(S)
         /\ \A i, j \in 1 .. Cardinality(S) : i < j <=> Ascending(S)[i] < Ascending(S)[j]
<1> DEFINE n == Cardinality(S)
           L(x, y) == x < y
           R == {p \in S \X S : L(p[1], p[2])}
           order == Ascending(S)
<1>1. n \in Nat
  BY FS_CardinalityType
<1>2. Orders(R, S)
  <2>1. \A x, y \in S : <<x, y>> \in R <=> L(x, y)
    OBVIOUS
  <2>2. \A x \in S : ~ L(x, x)
    OBVIOUS
  <2>3. \A x, y, z \in S : L(x, y) /\ L(y, z) => L(x, z)
    OBVIOUS
  <2>4. \A x, y \in S : x # y => L(x, y) \/ L(y, x)
    OBVIOUS
  <2> HIDE DEF L, R
  <2> QED
    BY <2>1, <2>2, <2>3, <2>4 DEF Orders
<1>3. ASSUME NEW x \in S PROVE {y \in S : L(y, x)} = Under(R, S, x)
  <2>1. \A y \in S : <<y, x>> \in R <=> L(y, x)
    OBVIOUS
  <2> HIDE DEF L, R
  <2> QED
    BY <2>1 DEF Under
<1>4. \A i \in 1 .. n : \E x \in S : Cardinality(Under(R, S, x)) = i - 1
  <2> HIDE DEF R
  <2> QED
    BY <1>2, Positions
<1>5. \A i \in 1 .. n : \E x \in S : Cardinality({y \in S : L(y, x)}) = i - 1
  <2> HIDE DEF R, L
  <2> QED
    BY <1>3, <1>4
<1>6. order = [i \in 1 .. n |-> CHOOSE x \in S : Cardinality({y \in S : L(y, x)}) = i - 1]
  BY Zenon DEF Ascending, InSequence
<1>7. ASSUME NEW i \in 1 .. n
      PROVE  order[i] \in S /\ Cardinality(Under(R, S, order[i])) = i - 1
  <2> HIDE DEF R, L, order
  <2>1. order[i] = CHOOSE x \in S : Cardinality({y \in S : L(y, x)}) = i - 1
    BY <1>6
  <2>2. order[i] \in S /\ Cardinality({y \in S : L(y, order[i])}) = i - 1
    BY <1>5, <2>1
  <2> QED
    BY <1>3, <2>2
<1>8. DOMAIN order = 1 .. n /\ order = [i \in 1 .. n |-> order[i]]
  <2> DEFINE H(i) == CHOOSE x \in S : Cardinality({y \in S : L(y, x)}) = i - 1
  <2>1. order = [i \in 1 .. n |-> H(i)]
    BY <1>6
  <2> HIDE DEF H, order
  <2> QED
    BY <2>1
<1> HIDE DEF order, R
<1>9. /\ Enumerates(order, S)
      /\ \A i, j \in DOMAIN order : i < j <=> <<order[i], order[j]>> \in R
  <2>1. \A i \in 1 .. n : order[i] \in S /\ Cardinality(Under(R, S, order[i])) = i - 1
    BY <1>7
  <2>2. Enumerates(order, S)
    BY <1>2, <1>8, <2>1, Enumerated
  <2>3. \A i, j \in DOMAIN order : i < j <=> <<order[i], order[j]>> \in R
    BY <1>2, <1>8, <2>1, InOrderOnce
  <2> QED
    BY <2>2, <2>3
<1>10. ASSUME NEW i \in 1 .. n, NEW j \in 1 .. n
       PROVE  <<order[i], order[j]>> \in R <=> L(order[i], order[j])
  <2>1. order[i] \in S /\ order[j] \in S
    BY <1>7
  <2> QED
    BY <2>1 DEF R
<1> HIDE DEF n, L
<1>11. ASSUME NEW i \in 1 .. n, NEW j \in 1 .. n PROVE i < j <=> L(order[i], order[j])
  <2>1. i < j <=> <<order[i], order[j]>> \in R
    BY <1>8, <1>9
  <2> QED
    BY <1>10, <2>1
<1> QED
  BY <1>8, <1>9, <1>11 DEF order, n, L

-----------------------------------------------------------------------------
(* Questions                                                               *)

\* Entries, and the alphagrams of words, are numbered in alphabetical order.
IsNumbered(index) ==
  /\ \A a, b \in EntryIds(index) :
       a \in Int /\ (a < b => Before(TilesOf(index, a), TilesOf(index, b)))
  /\ index.kind = "words" =>
       \A a, b \in EntryIds(index) :
         /\ index.entries[a].alphagram \in Int
         /\ index.entries[a].alphagram < index.entries[b].alphagram
              => Before(index.alphagrams[index.entries[a].alphagram],
                        index.alphagrams[index.entries[b].alphagram])

\* Questions come in alphabetical order, each once, and ask for every entry.
AskInOrder(index, keys, ids) ==
  /\ \A i, j \in DOMAIN keys : i < j => Before(keys[i], keys[j])
  /\ \A id \in ids : \E i \in DOMAIN keys :
       Canonical(keys[i]) = Canonical(TilesOf(index, id))

\* The questions of a quiz on alphagrams are asked in order, each once.
LEMMA AlphagramsAsk ==
  ASSUME NEW index, index.kind = "words", IsNumbered(index), IsKeyed(index),
         \A id \in EntryIds(index) : TilesOf(index, id) \in Seq(Nat),
         NEW ids \in SUBSET EntryIds(index), IsFiniteSet(ids)
  PROVE  AskInOrder(index, Questions(index, "anagram", ids), ids)
<1> DEFINE f == [id \in ids |-> index.entries[id].alphagram]
           A == {f[id] : id \in ids}
           found == Ascending(A)
           keys == Questions(index, "anagram", ids)
<1>1. \A id \in ids : f[id] = index.entries[id].alphagram /\ id \in EntryIds(index)
  OBVIOUS
<1>2. keys = [i \in DOMAIN found |-> index.alphagrams[found[i]]]
  <2>1. A = {index.entries[id].alphagram : id \in ids}
    OBVIOUS
  <2> HIDE DEF A
  <2>2. keys = LET g == InSequence({index.entries[id].alphagram : id \in ids}, <)
               IN  [i \in DOMAIN g |-> index.alphagrams[g[i]]]
    BY Zenon DEF Questions
  <2> QED
    BY <2>1, <2>2, Zenon DEF Ascending
<1> HIDE DEF f, keys, found
<1>3. IsFiniteSet(A)
  BY ImageFinite
<1>4. ASSUME NEW x \in A PROVE x \in Int /\ \E id \in ids : index.entries[id].alphagram = x
  <2>1. PICK id \in ids : f[id] = x
    OBVIOUS
  <2> HIDE DEF A
  <2> QED
    BY <1>1, <2>1 DEF IsNumbered
<1>5. \A id \in ids : index.entries[id].alphagram \in A
  BY <1>1
<1> DEFINE n == Cardinality(A)
<1> HIDE DEF A
<1>6. /\ Enumerates(found, A) /\ DOMAIN found = 1 .. n
      /\ \A i, j \in 1 .. n : i < j <=> found[i] < found[j]
  BY <1>3, <1>4, AscendingFacts DEF found
<1> HIDE DEF n
<1>7. /\ \A i \in 1 .. n : found[i] \in A
      /\ \A x \in A : \E i \in 1 .. n : found[i] = x
  BY <1>6 DEF Enumerates, n
<1>8. DOMAIN keys = 1 .. n /\ \A i \in 1 .. n : keys[i] = index.alphagrams[found[i]]
  BY <1>2, <1>6
<1>9. ASSUME NEW i \in 1 .. n, NEW j \in 1 .. n, i < j PROVE Before(keys[i], keys[j])
  <2>1. found[i] < found[j] /\ found[i] \in A /\ found[j] \in A
    BY <1>6, <1>7, <1>9
  <2>2. PICK a \in ids : index.entries[a].alphagram = found[i]
    BY <1>4, <2>1
  <2>3. PICK b \in ids : index.entries[b].alphagram = found[j]
    BY <1>4, <2>1
  <2>4. a \in EntryIds(index) /\ b \in EntryIds(index)
    BY <1>1
  <2> QED
    BY <1>8, <2>1, <2>2, <2>3, <2>4 DEF IsNumbered
<1>10. ASSUME NEW id \in ids
       PROVE  \E i \in 1 .. n : Canonical(keys[i]) = Canonical(TilesOf(index, id))
  <2>1. PICK i \in 1 .. n : found[i] = index.entries[id].alphagram
    BY <1>5, <1>7
  <2>2. keys[i] = KeyOf(index, id)
    BY <1>8, <2>1 DEF KeyOf
  <2>3. id \in EntryIds(index)
    BY <1>1
  <2>4. keys[i] = Canonical(TilesOf(index, id)) /\ TilesOf(index, id) \in Seq(Nat)
    BY <2>2, <2>3 DEF IsKeyed
  <2>5. Canonical(keys[i]) = Canonical(TilesOf(index, id))
    BY <2>4, CanonicalTwice
  <2> QED
    BY <2>5
<1>11. AskInOrder(index, keys, ids)
  BY <1>8, <1>9, <1>10 DEF AskInOrder
<1> QED
  BY <1>11 DEF keys

\* The questions of a quiz on entries are asked in order, each once.
LEMMA EntriesAsk ==
  ASSUME NEW index, IsNumbered(index), NEW type, type # "anagram",
         NEW ids \in SUBSET EntryIds(index), IsFiniteSet(ids)
  PROVE  AskInOrder(index, Questions(index, type, ids), ids)
<1> DEFINE n == Cardinality(ids)
           found == Ascending(ids)
           keys == Questions(index, type, ids)
<1>1. keys = [i \in DOMAIN found |-> TilesOf(index, found[i])]
  BY Zenon DEF Questions, Ascending
<1>2. \A x \in ids : x \in Int
  BY DEF IsNumbered
<1> HIDE DEF keys
<1>3. /\ Enumerates(found, ids) /\ DOMAIN found = 1 .. n
      /\ \A i, j \in 1 .. n : i < j <=> found[i] < found[j]
  BY <1>2, AscendingFacts
<1> HIDE DEF n, found
<1>4. /\ \A i \in 1 .. n : found[i] \in ids
      /\ \A x \in ids : \E i \in 1 .. n : found[i] = x
  BY <1>3 DEF Enumerates, n
<1>5. DOMAIN keys = 1 .. n /\ \A i \in 1 .. n : keys[i] = TilesOf(index, found[i])
  BY <1>1, <1>3
<1>6. ASSUME NEW i \in 1 .. n, NEW j \in 1 .. n, i < j PROVE Before(keys[i], keys[j])
  <2>1. found[i] < found[j] /\ found[i] \in EntryIds(index) /\ found[j] \in EntryIds(index)
    BY <1>3, <1>4, <1>6
  <2> QED
    BY <1>5, <2>1 DEF IsNumbered
<1>7. \A id \in ids : \E i \in 1 .. n : keys[i] = TilesOf(index, id)
  BY <1>4, <1>5
<1>8. AskInOrder(index, keys, ids)
  BY <1>5, <1>6, <1>7 DEF AskInOrder
<1> QED
  BY <1>8 DEF keys

\* What an index must be for searches on it to be exact.
IsIndex(index) ==
  /\ WellMade(index)
  /\ IsKeyed(index)
  /\ Rankable(index)
  /\ IsNumbered(index)

\* On an index as it is built every search finds its meaning.
LEMMA SearchOnIndex ==
  ASSUME NEW index, IsIndex(index), RowsAreMade(index.distribution),
         NEW type, type = "anagram" => index.kind = "words",
         NEW root \in GroupsTo(Depth)
  PROVE  SearchFindsItsMeaning(index, type, root)
<1> DEFINE ids == RunIds(index, root)
           keys == Questions(index, type, ids)
<1>1. /\ ids = Means(index, root)
      /\ ~ HasLimits(root) => ids = {id \in EntryIds(index) : Satisfies(index, root, id)}
  BY IdsAreMeant DEF IsIndex
<1>2. ids \in SUBSET EntryIds(index)
  <2>1. PICK f : EvalStepByStep(f, index)
    BY EvalLevels
  <2>2. Shortcut(index, root) \in SUBSET EntryIds(index)
    BY ShortcutPasses DEF IsIndex
  <2>3. ids = f[Depth][root][Shortcut(index, root)]
    BY <2>1, <2>2 DEF EvalStepByStep, RunIds
  <2>4. f[Depth] \in Results(index, Depth)
    BY <2>1, SearchAssumption DEF EvalStepByStep
  <2> DEFINE start == Shortcut(index, root)
  <2> HIDE DEF ids, start
  <2>5. f[Depth][root][start] \in SUBSET EntryIds(index)
    BY <2>2, <2>4 DEF Results, start
  <2> QED
    BY <2>3, <2>5 DEF start
<1> HIDE DEF ids
<1>3. IsFiniteSet(ids) /\ \A id \in EntryIds(index) : TilesOf(index, id) \in Seq(Nat)
  <2>1. IsFiniteSet(EntryIds(index)) /\ \A id \in EntryIds(index) : TilesOf(index, id) \in Seq(Nat)
    BY DEF IsIndex, Rankable
  <2> QED
    BY <1>2, <2>1, FS_Subset
<1>4. AskInOrder(index, keys, ids)
  <2>1. CASE type = "anagram"
    <3>1. AskInOrder(index, Questions(index, "anagram", ids), ids)
      BY <1>2, <1>3, <2>1, AlphagramsAsk DEF IsIndex
    <3> QED
      BY <2>1, <3>1
  <2>2. CASE type # "anagram"
    BY <1>2, <1>3, <2>2, EntriesAsk DEF IsIndex
  <2> QED
    BY <2>1, <2>2
<1> QED
  BY <1>1, <1>4, Zenon DEF SearchFindsItsMeaning, AskInOrder, ids

-----------------------------------------------------------------------------
(* Sums and products over sets, and combinations                           *)

OneOf(s) == CHOOSE x \in s : TRUE

OneByOne(f, S, X, base, step) ==
  /\ f \in [SUBSET S -> X]
  /\ \A s \in SUBSET S :
       f[s] = IF s = {} THEN base ELSE step[OneOf(s)][f[s \ {OneOf(s)}]]

\* A fold takes the elements of a set one by one.
LEMMA FoldsStepByStep ==
  ASSUME NEW S, IsFiniteSet(S), NEW X, NEW base \in X, NEW step \in [S -> [X -> X]]
  PROVE  \E f : OneByOne(f, S, X, base, step)
<1> DEFINE Sub(n) == {s \in SUBSET S : Cardinality(s) <= n}
           Via(f, s) == IF s = {} THEN base ELSE step[OneOf(s)][f[s \ {OneOf(s)}]]
           N == {n \in Nat : \E f \in [Sub(n) -> X] : \A s \in Sub(n) : f[s] = Via(f, s)}
<1>1. \A s \in SUBSET S : IsFiniteSet(s) /\ Cardinality(s) \in Nat
  BY Part
<1>2. \A s \in SUBSET S : s # {} =>
        /\ OneOf(s) \in s /\ OneOf(s) \in S
        /\ s \ {OneOf(s)} \in SUBSET S
        /\ Cardinality(s \ {OneOf(s)}) = Cardinality(s) - 1
  <2>1. ASSUME NEW s \in SUBSET S, s # {} PROVE OneOf(s) \in s
    BY <2>1 DEF OneOf
  <2>2. ASSUME NEW s \in SUBSET S, s # {}
        PROVE  Cardinality(s \ {OneOf(s)}) = Cardinality(s) - 1
    BY <1>1, <2>1, <2>2, FS_RemoveElement
  <2> QED
    BY <2>1, <2>2
<1>3. 0 \in N
  <2>1. Sub(0) = {{}}
    <3>1. \A s \in SUBSET S : Cardinality(s) = 0 <=> s = {}
      BY <1>1, FS_EmptySet
    <3> QED
      BY <1>1, <3>1
  <2> DEFINE f == [s \in Sub(0) |-> base]
  <2>2. f \in [Sub(0) -> X] /\ \A s \in Sub(0) : f[s] = Via(f, s)
    BY <2>1
  <2> QED
    BY <2>2
<1>4. ASSUME NEW n \in Nat, n \in N PROVE n + 1 \in N
  <2>1. PICK f \in [Sub(n) -> X] : \A s \in Sub(n) : f[s] = Via(f, s)
    BY <1>4
  <2> DEFINE g == [s \in Sub(n + 1) |-> Via(f, s)]
  <2>2. \A s \in Sub(n + 1) : s # {} => s \ {OneOf(s)} \in Sub(n)
    BY <1>1, <1>2
  <2>3. ASSUME NEW s \in Sub(n + 1) PROVE Via(f, s) \in X
    BY <2>1, <2>2, <2>3, <1>2
  <2>4. \A s \in Sub(n) : s \in Sub(n + 1) /\ g[s] = f[s]
    <3>1. \A s \in Sub(n) : s \in Sub(n + 1)
      BY <1>1
    <3> HIDE DEF Sub, Via
    <3> QED
      BY <2>1, <3>1
  <2>5. g \in [Sub(n + 1) -> X]
    <3> HIDE DEF Sub, Via
    <3> QED
      BY <2>3
  <2>6. ASSUME NEW s \in Sub(n + 1) PROVE g[s] = Via(g, s)
    <3>1. g[s] = Via(f, s)
      BY <2>6
    <3> HIDE DEF g, Sub
    <3>2. Via(g, s) = Via(f, s)
      BY <2>2, <2>4, <2>6
    <3> QED
      BY <3>1, <3>2
  <2> HIDE DEF g, Via, Sub
  <2> QED
    BY <2>5, <2>6
<1>5. Cardinality(S) \in N
  <2> HIDE DEF N
  <2>1. Cardinality(S) \in Nat
    BY <1>1
  <2> QED
    BY <1>3, <1>4, <2>1, NatsBySteps
<1>6. Sub(Cardinality(S)) = SUBSET S
  BY Part
<1>7. PICK f \in [Sub(Cardinality(S)) -> X] :
        \A s \in Sub(Cardinality(S)) : f[s] = Via(f, s)
  BY <1>5
<1> HIDE DEF Sub
<1> QED
  BY <1>6, <1>7 DEF OneByOne

\* What the steps of a fold keep is true of its result.
LEMMA FoldsKeep ==
  ASSUME NEW S, IsFiniteSet(S), NEW X, NEW g, g[{}] \in X,
         \A s \in SUBSET S : s # {} /\ g[s \ {OneOf(s)}] \in X => g[s] \in X
  PROVE  g[S] \in X
<1> DEFINE N == {n \in Nat : \A s \in SUBSET S : Cardinality(s) = n => g[s] \in X}
<1>1. \A s \in SUBSET S : IsFiniteSet(s) /\ Cardinality(s) \in Nat
  BY Part
<1>2. 0 \in N
  <2>1. \A s \in SUBSET S : Cardinality(s) = 0 => s = {}
    BY <1>1, FS_EmptySet
  <2> QED
    BY <2>1
<1>3. ASSUME NEW n \in Nat, n \in N PROVE n + 1 \in N
  <2> SUFFICES ASSUME NEW s \in SUBSET S, Cardinality(s) = n + 1 PROVE g[s] \in X
    OBVIOUS
  <2>1. s # {}
    BY <1>1, FS_EmptySet
  <2>2. OneOf(s) \in s
    BY <2>1 DEF OneOf
  <2>3. s \ {OneOf(s)} \in SUBSET S /\ Cardinality(s \ {OneOf(s)}) = n
    <3>1. Cardinality(s \ {OneOf(s)}) = Cardinality(s) - 1
      BY <1>1, <2>2, FS_RemoveElement
    <3> QED
      BY <3>1
  <2> QED
    BY <1>3, <2>1, <2>3
<1>4. Cardinality(S) \in N
  <2> HIDE DEF N
  <2> QED
    BY <1>1, <1>2, <1>3, NatsBySteps
<1> QED
  BY <1>4

\* A fold of values by sums or by products, as it goes.
Sums(g, S, v) ==
  g = [s \in SUBSET S |-> IF s = {} THEN 0 ELSE v[OneOf(s)] + g[s \ {OneOf(s)}]]
Multiplies(g, S, v) ==
  g = [s \in SUBSET S |-> IF s = {} THEN 1 ELSE v[OneOf(s)] * g[s \ {OneOf(s)}]]

\* There is a sum as it goes.
LEMMA SumsExist ==
  ASSUME NEW S, IsFiniteSet(S), NEW v \in [S -> Int]
  PROVE  \E g : Sums(g, S, v)
<1> DEFINE step == [x \in S |-> [y \in Int |-> v[x] + y]]
           base == 0
<1>1. step \in [S -> [Int -> Int]] /\ base \in Int
  OBVIOUS
<1>2. \A x \in S : \A y \in Int : step[x][y] = v[x] + y
  OBVIOUS
<1> HIDE DEF step
<1> HIDE DEF base
<1>0. PICK f : OneByOne(f, S, Int, base, step)
  BY <1>1, FoldsStepByStep
<1>3. /\ f \in [SUBSET S -> Int]
      /\ \A s \in SUBSET S :
           f[s] = IF s = {} THEN base ELSE step[OneOf(s)][f[s \ {OneOf(s)}]]
  BY <1>0 DEF OneByOne
<1> USE DEF base
<1>4. ASSUME NEW s \in SUBSET S
      PROVE  f[s] = IF s = {} THEN 0 ELSE v[OneOf(s)] + f[s \ {OneOf(s)}]
  <2>1. CASE s = {}
    BY <1>3, <2>1
  <2>2. CASE s # {}
    <3>1. OneOf(s) \in S
      BY <2>2 DEF OneOf
    <3>2. f[s \ {OneOf(s)}] \in Int
      BY <1>3
    <3> QED
      BY <1>2, <1>3, <2>2, <3>1, <3>2
  <2> QED
    BY <2>1, <2>2
<1>5. Sums(f, S, v)
  BY <1>3, <1>4 DEF Sums
<1> QED
  BY <1>5

\* The sum of whole numbers is whole.
LEMMA SumsAreWhole ==
  ASSUME NEW S, IsFiniteSet(S), NEW v \in [S -> Int], NEW g, Sums(g, S, v)
  PROVE  g[S] \in Int
<1>1. g[{}] = 0
  BY DEF Sums
<1>2. ASSUME NEW s \in SUBSET S, s # {}, g[s \ {OneOf(s)}] \in Int PROVE g[s] \in Int
  <2>1. OneOf(s) \in S /\ v[OneOf(s)] \in Int
    BY <1>2 DEF OneOf
  <2>2. g[s] = v[OneOf(s)] + g[s \ {OneOf(s)}]
    BY <1>2 DEF Sums
  <2> QED
    BY <1>2, <2>1, <2>2
<1> QED
  BY <1>1, <1>2, FoldsKeep

\* There is a product as it goes.
LEMMA ProductsExist ==
  ASSUME NEW S, IsFiniteSet(S), NEW v \in [S -> Int]
  PROVE  \E g : Multiplies(g, S, v)
<1> DEFINE step == [x \in S |-> [y \in Int |-> v[x] * y]]
           base == 1
<1>1. step \in [S -> [Int -> Int]] /\ base \in Int
  OBVIOUS
<1>2. \A x \in S : \A y \in Int : step[x][y] = v[x] * y
  OBVIOUS
<1> HIDE DEF step
<1> HIDE DEF base
<1>0. PICK f : OneByOne(f, S, Int, base, step)
  BY <1>1, FoldsStepByStep
<1>3. /\ f \in [SUBSET S -> Int]
      /\ \A s \in SUBSET S :
           f[s] = IF s = {} THEN base ELSE step[OneOf(s)][f[s \ {OneOf(s)}]]
  BY <1>0 DEF OneByOne
<1> USE DEF base
<1>4. ASSUME NEW s \in SUBSET S
      PROVE  f[s] = IF s = {} THEN 1 ELSE v[OneOf(s)] * f[s \ {OneOf(s)}]
  <2>1. CASE s = {}
    BY <1>3, <2>1
  <2>2. CASE s # {}
    <3>1. OneOf(s) \in S
      BY <2>2 DEF OneOf
    <3>2. f[s \ {OneOf(s)}] \in Int
      BY <1>3
    <3> QED
      BY <1>2, <1>3, <2>2, <3>1, <3>2
  <2> QED
    BY <2>1, <2>2
<1>5. Multiplies(f, S, v)
  BY <1>3, <1>4 DEF Multiplies
<1> QED
  BY <1>5

\* The product of whole numbers is whole.
LEMMA ProductsAreWhole ==
  ASSUME NEW S, IsFiniteSet(S), NEW v \in [S -> Int], NEW g, Multiplies(g, S, v)
  PROVE  g[S] \in Int
<1>1. g[{}] = 1
  BY DEF Multiplies
<1>2. ASSUME NEW s \in SUBSET S, s # {}, g[s \ {OneOf(s)}] \in Int PROVE g[s] \in Int
  <2>1. OneOf(s) \in S /\ v[OneOf(s)] \in Int
    BY <1>2 DEF OneOf
  <2>2. g[s] = v[OneOf(s)] * g[s \ {OneOf(s)}]
    BY <1>2 DEF Multiplies
  <2> QED
    BY <1>2, <2>1, <2>2
<1> QED
  BY <1>1, <1>2, FoldsKeep

\* Each division leaves a whole number.
LEMMA BinomialsAreWhole ==
  ASSUME NEW n \in Nat, NEW k \in Nat
  PROVE  Binomial(n, k) \in Int
<1> DEFINE m == Min({k, n - k})
           Via(r, i) == IF i = 0 THEN 1 ELSE (r[i - 1] * (n - (i - 1))) \div i
           H(r) == r = [i \in 0 .. m |-> Via(r, i)]
<1>1. Binomial(n, k) = IF k > n THEN 0 ELSE (CHOOSE r : H(r))[m]
  BY Zenon DEF Binomial
<1> SUFFICES ASSUME k <= n PROVE (CHOOSE r : H(r))[m] \in Int
  BY <1>1
<1>2. m \in Nat
  <2> DEFINE l == n - k
  <2>1. k \in Int /\ l \in Int /\ l \in Nat
    OBVIOUS
  <2>2. m = Min({k, l})
    OBVIOUS
  <2> HIDE DEF l, m
  <2>3. m = IF k <= l THEN k ELSE l
    BY <2>1, <2>2, MaxOfTwo
  <2> QED
    BY <2>1, <2>3
<1> HIDE DEF m
<1>3. \E r : H(r)
  <2> DEFINE step == [i \in 1 .. m |-> [x \in Int |-> (x * (n - (i - 1))) \div i]]
             base == 1
  <2>1. step \in [1 .. m -> [Int -> Int]] /\ base \in Int
    <3>1. \A i \in 1 .. m : \A x \in Int : (x * (n - (i - 1))) \div i \in Int
      OBVIOUS
    <3> QED
      BY <3>1
  <2>2. \A i \in 1 .. m : \A x \in Int : step[i][x] = (x * (n - (i - 1))) \div i
    OBVIOUS
  <2> HIDE DEF step, base
  <2>3. PICK r : Walks(r, m, Int, base, step)
    BY <1>2, <2>1, StepByStep
  <2> USE DEF base
  <2>4. r \in [0 .. m -> Int] /\ r[0] = 1 /\ \A i \in 1 .. m : r[i] = step[i][r[i - 1]]
    BY <2>3 DEF Walks
  <2>5. ASSUME NEW i \in 0 .. m PROVE r[i] = Via(r, i)
    <3>1. CASE i = 0
      BY <2>4, <3>1
    <3>2. CASE i # 0
      <4>1. i \in 1 .. m /\ i - 1 \in 0 .. m
        BY <1>2, <3>2
      <4>2. r[i - 1] \in Int /\ r[i] = step[i][r[i - 1]]
        BY <2>4, <4>1
      <4> QED
        BY <2>2, <3>2, <4>1, <4>2
    <3> QED
      BY <3>1, <3>2
  <2> HIDE DEF Via
  <2>6. r = [i \in 0 .. m |-> Via(r, i)]
    BY <2>4, <2>5
  <2> QED
    BY <2>6
<1>4. ASSUME NEW r, H(r) PROVE r[m] \in Int
  <2> DEFINE N == {i \in Nat : i <= m => r[i] \in Int}
  <2>1. \A i \in 0 .. m : r[i] = Via(r, i)
    BY <1>4
  <2>2. 0 \in N
    BY <1>2, <2>1
  <2>3. ASSUME NEW i \in Nat, i \in N PROVE i + 1 \in N
    <3> SUFFICES ASSUME i + 1 <= m PROVE r[i + 1] \in Int
      OBVIOUS
    <3>1. r[i] \in Int /\ i + 1 \in 0 .. m
      BY <1>2, <2>3
    <3>2. r[i + 1] = (r[i] * (n - i)) \div (i + 1)
      BY <2>1, <3>1
    <3>3. r[i] * (n - i) \in Int
      BY <3>1
    <3> QED
      BY <3>2, <3>3
  <2>4. m \in N
    <3> HIDE DEF N
    <3> QED
      BY <1>2, <2>2, <2>3, NatsBySteps
  <2> QED
    BY <2>4
<1> HIDE DEF H
<1>5. H(CHOOSE r : H(r))
  BY <1>3
<1> QED
  BY <1>4, <1>5

\* What is counted of a tile may be drawn, also after some stand for blanks.
IsCounts(d, c) == DOMAIN c = DOMAIN d /\ \A t \in DOMAIN d : c[t] \in Nat

\* The product of the binomials is whole.
LEMMA ProductIsWhole ==
  ASSUME NEW d, HasTiles(d), NEW c, IsCounts(d, c)
  PROVE  Product(d, c) \in Int
<1> DEFINE v == [t \in DOMAIN d |-> Binomial(d[t].count, c[t])]
           S == DOMAIN v
           One(s) == CHOOSE x \in s : TRUE
           H(g) == g = [s \in SUBSET S |-> IF s = {} THEN 1 ELSE v[One(s)] * g[s \ {One(s)}]]
<1>1. Product(d, c) = (CHOOSE g : H(g))[S]
  BY Zenon DEF Product, FoldFunction, FoldFunctionOnSet, MapThenFoldSet
<1>2. v \in [DOMAIN d -> Int]
  BY BinomialsAreWhole DEF HasTiles, IsDistribution, IsCounts
<1>3. S = DOMAIN d /\ IsFiniteSet(S)
  BY DEF HasTiles, IsDistribution
<1> HIDE DEF v, S
<1>4. \A g : H(g) <=> Multiplies(g, S, v)
  BY DEF Multiplies, OneOf
<1> HIDE DEF H
<1>5. ASSUME NEW g, H(g) PROVE g[S] \in Int
  BY <1>2, <1>3, <1>4, <1>5, ProductsAreWhole
<1>6. H(CHOOSE g : H(g))
  <2>1. \E g : H(g)
    BY <1>2, <1>3, <1>4, ProductsExist
  <2> QED
    BY <2>1
<1> QED
  BY <1>1, <1>5, <1>6

\* Counts stay counts without tiles they hold.
LEMMA WithoutIsCounts ==
  ASSUME NEW d, NEW c, IsCounts(d, c), NEW t, NEW n \in Nat, t \in DOMAIN d => n <= c[t]
  PROVE  IsCounts(d, Without(c, t, n))
BY DEF IsCounts, Without

\* The counts of a word are counts.
LEMMA CountsAreCounts ==
  ASSUME NEW d, IsDistribution(d), NEW tiles \in Seq(DOMAIN d)
  PROVE  IsCounts(d, Counts(d, tiles))
<1>1. Counts(d, tiles) \in [DOMAIN d -> Nat]
  BY CountFacts DEF IsDistribution
<1> HIDE DEF Counts
<1> QED
  BY <1>1 DEF IsCounts

\* The draws of a word with no, one and two blanks are whole numbers.
LEMMA WordCombinationsAreWhole ==
  ASSUME NEW d, HasTiles(d), NEW c, IsCounts(d, c)
  PROVE  WordCombinations(d, c) \in Int
<1> DEFINE distinct == {t \in DOMAIN c : c[t] > 0}
           doubled == {t \in DOMAIN c : c[t] >= 2}
           twos == {p \in distinct \X distinct : p[1] < p[2]}
           One(s) == CHOOSE x \in s : TRUE
           First(t) == Product(d, Without(c, t, 1))
           Second(t) == Product(d, Without(c, t, 2))
           Both(p) == Product(d, Without(Without(c, p[1], 1), p[2], 1))
           F(g) == g = [s \in SUBSET distinct |->
                          IF s = {} THEN 0 ELSE First(One(s)) + g[s \ {One(s)}]]
           G(g) == g = [s \in SUBSET doubled |->
                          IF s = {} THEN 0 ELSE Second(One(s)) + g[s \ {One(s)}]]
           H(g) == g = [s \in SUBSET twos |->
                          IF s = {} THEN 0 ELSE Both(One(s)) + g[s \ {One(s)}]]
<1>1. WordCombinations(d, c) =
        Product(d, c) + Binomial(d[BLANK].count, 1) * (CHOOSE g : F(g))[distinct]
          + Binomial(d[BLANK].count, 2) * ((CHOOSE g : G(g))[doubled] + (CHOOSE g : H(g))[twos])
  BY Zenon DEF WordCombinations, MapThenSumSet, MapThenFoldSet, Doubled
<1>2. IsFiniteSet(distinct) /\ IsFiniteSet(doubled) /\ IsFiniteSet(twos)
  <2>1. distinct \subseteq DOMAIN d /\ doubled \subseteq DOMAIN d
    BY DEF IsCounts
  <2>2. IsFiniteSet(distinct) /\ IsFiniteSet(doubled)
    BY <2>1, FS_Subset DEF HasTiles, IsDistribution
  <2>3. IsFiniteSet(distinct \X distinct)
    BY <2>2, FS_Product
  <2>4. twos \subseteq distinct \X distinct
    OBVIOUS
  <2> HIDE DEF twos
  <2> QED
    BY <2>2, <2>3, <2>4, FS_Subset
<1>3. ASSUME NEW t \in distinct PROVE First(t) \in Int
  <2>1. t \in DOMAIN d /\ 1 <= c[t]
    BY DEF IsCounts
  <2> QED
    BY <2>1, WithoutIsCounts, ProductIsWhole
<1>4. ASSUME NEW t \in doubled PROVE Second(t) \in Int
  <2>1. t \in DOMAIN d /\ 2 <= c[t]
    BY DEF IsCounts
  <2> QED
    BY <2>1, WithoutIsCounts, ProductIsWhole
<1>5. ASSUME NEW p \in twos PROVE Both(p) \in Int
  <2> DEFINE less == Without(c, p[1], 1)
  <2>1. /\ p[1] \in DOMAIN d /\ p[2] \in DOMAIN d /\ p[1] # p[2]
        /\ c[p[1]] \in Nat /\ c[p[2]] \in Nat /\ 1 <= c[p[1]] /\ 1 <= c[p[2]]
    BY DEF IsCounts, HasTiles, IsDistribution
  <2>2. IsCounts(d, less)
    BY <2>1, WithoutIsCounts
  <2>3. 1 <= less[p[2]]
    BY <2>1 DEF Without, IsCounts
  <2> HIDE DEF less
  <2>4. IsCounts(d, Without(less, p[2], 1))
    BY <2>2, <2>3, WithoutIsCounts
  <2> QED
    BY <2>4, ProductIsWhole DEF less
<1>6. Product(d, c) \in Int /\ Binomial(d[BLANK].count, 1) \in Int /\ Binomial(d[BLANK].count, 2) \in Int
  <2>1. d[BLANK].count \in Nat
    BY DEF HasTiles, IsDistribution
  <2>2. 1 \in Nat /\ 2 \in Nat
    OBVIOUS
  <2>3. \A k \in Nat : Binomial(d[BLANK].count, k) \in Int
    BY <2>1, BinomialsAreWhole
  <2> QED
    BY <2>2, <2>3, ProductIsWhole
<1> HIDE DEF distinct, doubled, twos, First, Second, Both
<1>7. (CHOOSE g : F(g))[distinct] \in Int
  <2> DEFINE v == [t \in distinct |-> First(t)]
  <2>1. v \in [distinct -> Int]
    BY <1>3
  <2>2. \A s \in SUBSET distinct : s # {} => One(s) = OneOf(s) /\ v[OneOf(s)] = First(One(s))
    BY DEF OneOf
  <2> HIDE DEF v, One
  <2>3. \A g : F(g) <=> Sums(g, distinct, v)
    BY <2>2 DEF Sums
  <2> HIDE DEF F
  <2>4. F(CHOOSE g : F(g))
    BY <1>2, <2>1, <2>3, SumsExist
  <2> QED
    BY <1>2, <2>1, <2>3, <2>4, SumsAreWhole
<1>8. (CHOOSE g : G(g))[doubled] \in Int
  <2> DEFINE v == [t \in doubled |-> Second(t)]
  <2>1. v \in [doubled -> Int]
    BY <1>4
  <2>2. \A s \in SUBSET doubled : s # {} => One(s) = OneOf(s) /\ v[OneOf(s)] = Second(One(s))
    BY DEF OneOf
  <2> HIDE DEF v, One
  <2>3. \A g : G(g) <=> Sums(g, doubled, v)
    BY <2>2 DEF Sums
  <2> HIDE DEF G
  <2>4. G(CHOOSE g : G(g))
    BY <1>2, <2>1, <2>3, SumsExist
  <2> QED
    BY <1>2, <2>1, <2>3, <2>4, SumsAreWhole
<1>9. (CHOOSE g : H(g))[twos] \in Int
  <2> DEFINE v == [t \in twos |-> Both(t)]
  <2>1. v \in [twos -> Int]
    BY <1>5
  <2>2. \A s \in SUBSET twos : s # {} => One(s) = OneOf(s) /\ v[OneOf(s)] = Both(One(s))
    BY DEF OneOf
  <2> HIDE DEF v, One
  <2>3. \A g : H(g) <=> Sums(g, twos, v)
    BY <2>2 DEF Sums
  <2> HIDE DEF H
  <2>4. H(CHOOSE g : H(g))
    BY <1>2, <2>1, <2>3, SumsExist
  <2> QED
    BY <1>2, <2>1, <2>3, <2>4, SumsAreWhole
<1> HIDE DEF F, G, H
<1> QED
  BY <1>1, <1>6, <1>7, <1>8, <1>9

-----------------------------------------------------------------------------
(* The indexes that are built                                              *)

\* The words of a lexicon, by their tiles, and their alphagrams.
WordsOf(raw) == [i \in DOMAIN ByTiles(raw) |-> ByTiles(raw)[i].tiles]
AlphagramsOf(raw) == Alphabetical({Canonical(WordsOf(raw)[i]) : i \in DOMAIN WordsOf(raw)})

\* What the index of a lexicon says of each word on its own.
LEMMA LexiconFields ==
  ASSUME NEW d, NEW raw
  PROVE  /\ BuildLexicon(d, raw).kind = "words"
         /\ BuildLexicon(d, raw).distribution = d
         /\ BuildLexicon(d, raw).alphagrams = AlphagramsOf(raw)
         /\ EntryIds(BuildLexicon(d, raw)) = DOMAIN WordsOf(raw)
         /\ \A i \in DOMAIN WordsOf(raw) :
              /\ BuildLexicon(d, raw).entries[i].own = OwnAttributes(d, WordsOf(raw)[i])
              /\ BuildLexicon(d, raw).entries[i].alphagram =
                   IdOf(AlphagramsOf(raw), Canonical(WordsOf(raw)[i]))
              /\ BuildLexicon(d, raw).entries[i].combinations =
                   WordCombinations(d, Counts(d, WordsOf(raw)[i]))
              /\ BuildLexicon(d, raw).entries[i].playability = ByTiles(raw)[i].playability
<1> DEFINE sorted == ByTiles(raw)
           words == [i \in DOMAIN sorted |-> sorted[i].tiles]
           alphagrams == Alphabetical({Canonical(words[i]) : i \in DOMAIN words})
           alphagram == [i \in DOMAIN words |-> IdOf(alphagrams, Canonical(words[i]))]
           alphagram_words == [a \in DOMAIN alphagrams |-> {i \in DOMAIN words : alphagram[i] = a}]
           combinations == [i \in DOMAIN words |-> WordCombinations(d, Counts(d, words[i]))]
           playability == [i \in DOMAIN words |-> sorted[i].playability]
           Tie(a, b) == \/ alphagram[a] < alphagram[b]
                        \/ alphagram[a] = alphagram[b] /\ Before(words[a], words[b])
           prob == RanksByLength(words, combinations, Tie)
           play == RanksByLength(words, playability, Tie)
           front(i) == FrontHooks(words, words[i])
           back(i) == BackHooks(words, words[i])
           inFront(i) == HasFrontInnerHook(words, words[i])
           inBack(i) == HasBackInnerHook(words, words[i])
           pos(i) == PartsOfSpeech(sorted[i].definition)
           own(i) == OwnAttributes(d, words[i])
           built == BuildLexicon(d, raw)
<1>1. built =
        [kind |-> "words",
         distribution |-> d,
         alphagrams |-> alphagrams,
         alphagram_words |-> alphagram_words,
         entries |-> [i \in DOMAIN words |->
           [own |-> own(i),
            alphagram |-> alphagram[i],
            num_anagrams |-> Cardinality(alphagram_words[alphagram[i]]),
            front_hooks |-> front(i),
            back_hooks |-> back(i),
            has_front_inner_hook |-> inFront(i),
            has_back_inner_hook |-> inBack(i),
            combinations |-> combinations[i],
            playability |-> playability[i],
            probability_order |-> prob[i],
            playability_order |-> play[i],
            pos |-> pos(i),
            definition |-> sorted[i].definition]]]
  BY Zenon DEF BuildLexicon, ByTiles, Alphabetical
<1>2. words = WordsOf(raw) /\ alphagrams = AlphagramsOf(raw)
  BY Zenon DEF WordsOf, AlphagramsOf
<1>3. /\ \A i \in DOMAIN words : alphagram[i] = IdOf(alphagrams, Canonical(words[i]))
      /\ \A i \in DOMAIN words : combinations[i] = WordCombinations(d, Counts(d, words[i]))
      /\ \A i \in DOMAIN words : playability[i] = sorted[i].playability
      /\ \A i \in DOMAIN words : own(i) = OwnAttributes(d, words[i])
  <2> HIDE DEF words, alphagrams, sorted
  <2> QED
    BY Zenon
<1> HIDE DEF prob, play, front, back, inFront, inBack, pos, own, built, sorted, words, alphagrams,
             alphagram, alphagram_words, combinations, playability
<1>4. /\ built.kind = "words" /\ built.distribution = d /\ built.alphagrams = alphagrams
      /\ DOMAIN built.entries = DOMAIN words
  BY <1>1
<1>5. ASSUME NEW i \in DOMAIN words
      PROVE  /\ built.entries[i].own = own(i)
             /\ built.entries[i].alphagram = alphagram[i]
             /\ built.entries[i].combinations = combinations[i]
             /\ built.entries[i].playability = playability[i]
  BY <1>1
<1> QED
  BY <1>2, <1>3, <1>4, <1>5 DEF EntryIds, built, sorted

\* The words of an index are those of the upload, in alphabetical order.
Listed(w, s, n, raw, d) ==
  /\ n \in Nat /\ n <= INFINITY
  /\ DOMAIN w = 1 .. n /\ DOMAIN s = 1 .. n
  /\ \A i \in 1 .. n : s[i] \in raw /\ w[i] = s[i].tiles /\ w[i] \in Seq(DOMAIN d) /\ w[i] \in Seq(Nat)
  /\ \A i, j \in 1 .. n : i < j => Before(w[i], w[j])
  /\ \A i, j \in 1 .. n : w[i] = w[j] => i = j

\* The words are listed as Listed says.
LEMMA WordsListed ==
  ASSUME NEW d, IsDistribution(d), NEW raw, IsRaw(d, raw)
  PROVE  Listed(WordsOf(raw), ByTiles(raw), Cardinality(raw), raw, d)
<1> DEFINE s == ByTiles(raw)
           w == WordsOf(raw)
           n == Cardinality(raw)
<1>1. /\ IsFiniteSet(raw) /\ n <= INFINITY /\ n \in Nat
      /\ \A x \in raw : x.tiles \in Seq(DOMAIN d) /\ x.tiles \in Seq(Nat)
      /\ \A x, y \in raw : x.tiles = y.tiles => x = y
  <2>1. ASSUME NEW x \in raw PROVE x.tiles \in Seq(DOMAIN d) /\ x.tiles \in Seq(Nat)
    <3>1. x.tiles \in Seq(DOMAIN d) /\ DOMAIN d \subseteq Nat
      BY DEF IsRaw, IsDistribution
    <3> QED
      BY <3>1
  <2> QED
    BY <2>1, FS_CardinalityType DEF IsRaw
<1>2. /\ Enumerates(s, raw) /\ DOMAIN s = 1 .. n
      /\ \A i, j \in 1 .. n : i < j <=> Before(s[i].tiles, s[j].tiles)
  BY <1>1, ByTilesFacts
<1>3. w = [i \in DOMAIN s |-> s[i].tiles]
  BY DEF WordsOf
<1> HIDE DEF s, w, n
<1>4. (\A i \in 1 .. n : s[i] \in raw) /\ \A i, j \in 1 .. n : s[i] = s[j] => i = j
  BY <1>2 DEF Enumerates, n
<1>5. DOMAIN w = 1 .. n /\ \A i \in 1 .. n : w[i] = s[i].tiles
  BY <1>2, <1>3
<1>6. \A i, j \in 1 .. n : i < j => Before(w[i], w[j])
  BY <1>2, <1>5
<1>7. \A i, j \in 1 .. n : w[i] = w[j] => i = j
  BY <1>1, <1>4, <1>5
<1>8. \A i \in 1 .. n : s[i] \in raw /\ w[i] = s[i].tiles /\ w[i] \in Seq(DOMAIN d) /\ w[i] \in Seq(Nat)
  BY <1>1, <1>4, <1>5
<1>9. Listed(w, s, n, raw, d)
  BY <1>1, <1>2, <1>5, <1>6, <1>7, <1>8 DEF Listed
<1> QED
  BY <1>9 DEF s, w, n

\* The alphagrams of words, each once and in alphabetical order.
Keyed(al, w, n) ==
  /\ \A i \in 1 .. n : /\ IdOf(al, Canonical(w[i])) \in Int
                       /\ IdOf(al, Canonical(w[i])) \in DOMAIN al
                       /\ al[IdOf(al, Canonical(w[i]))] = Canonical(w[i])
  /\ \A i, j \in 1 .. n : IdOf(al, Canonical(w[i])) < IdOf(al, Canonical(w[j]))
                            => Before(Canonical(w[i]), Canonical(w[j]))

\* The alphagrams are keyed as Keyed says.
LEMMA AlphagramsKeyed ==
  ASSUME NEW raw, NEW n \in Nat, DOMAIN WordsOf(raw) = 1 .. n,
         \A i \in 1 .. n : WordsOf(raw)[i] \in Seq(Nat)
  PROVE  Keyed(AlphagramsOf(raw), WordsOf(raw), n)
<1> DEFINE w == WordsOf(raw)
           I == 1 .. n
           f == [i \in I |-> Canonical(w[i])]
           C == {f[i] : i \in I}
           al == AlphagramsOf(raw)
           m == Cardinality(C)
<1>1. al = Alphabetical(C)
  <2>1. C = {Canonical(w[i]) : i \in DOMAIN w}
    OBVIOUS
  <2> HIDE DEF C
  <2> QED
    BY <2>1, Zenon DEF AlphagramsOf
<1>2. \A i \in I : f[i] = Canonical(w[i]) /\ f[i] \in C
  OBVIOUS
<1>3. IsFiniteSet(C)
  <2>1. IsFiniteSet(I)
    BY FS_Interval
  <2> HIDE DEF I, f
  <2> QED
    BY <2>1, ImageFinite
<1>4. \A x \in C : x \in Seq(Nat)
  <2>1. ASSUME NEW i \in I PROVE Canonical(w[i]) \in Seq(Nat)
    <3> DEFINE t == w[i]
    <3>1. t \in Seq(Nat)
      OBVIOUS
    <3> HIDE DEF t
    <3>2. TileOrder(Canonical(t), t)
      BY <3>1, CanonicalFacts
    <3>3. Canonical(t) \in Seq(Nat)
      BY <3>2 DEF TileOrder
    <3> QED
      BY <3>3 DEF t
  <2> HIDE DEF I, w
  <2> QED
    BY <1>2, <2>1
<1> HIDE DEF C, al, f, w
<1>5. /\ Enumerates(al, C) /\ DOMAIN al = 1 .. m
      /\ \A i, j \in 1 .. m : i < j <=> Before(al[i], al[j])
  BY <1>1, <1>3, <1>4, AlphabeticalFacts
<1> HIDE DEF m, I
<1>6. \A x \in C : \E i \in 1 .. m : al[i] = x
  BY <1>5 DEF Enumerates, m
<1>7. ASSUME NEW x \in C PROVE IdOf(al, x) \in 1 .. m /\ al[IdOf(al, x)] = x
  <2>1. IdOf(al, x) = CHOOSE i \in DOMAIN al : al[i] = x
    BY DEF IdOf
  <2>2. \E i \in DOMAIN al : al[i] = x
    BY <1>5, <1>6
  <2> QED
    BY <1>5, <2>1, <2>2
<1>8. \A i \in I : Canonical(w[i]) \in C
  BY <1>2
<1>9. ASSUME NEW i \in I
      PROVE  /\ IdOf(al, Canonical(w[i])) \in Int
             /\ IdOf(al, Canonical(w[i])) \in DOMAIN al
             /\ al[IdOf(al, Canonical(w[i]))] = Canonical(w[i])
  <2> DEFINE k == IdOf(al, Canonical(w[i]))
  <2>1. k \in 1 .. m /\ al[k] = Canonical(w[i])
    BY <1>7, <1>8
  <2> HIDE DEF k
  <2>2. k \in Int /\ k \in DOMAIN al
    BY <1>5, <2>1
  <2> QED
    BY <2>1, <2>2 DEF k
<1>10. ASSUME NEW i \in I, NEW j \in I, IdOf(al, Canonical(w[i])) < IdOf(al, Canonical(w[j]))
       PROVE  Before(Canonical(w[i]), Canonical(w[j]))
  <2> DEFINE k == IdOf(al, Canonical(w[i]))
             l == IdOf(al, Canonical(w[j]))
  <2>1. k \in 1 .. m /\ al[k] = Canonical(w[i]) /\ l \in 1 .. m /\ al[l] = Canonical(w[j]) /\ k < l
    BY <1>7, <1>8, <1>10
  <2> HIDE DEF k, l
  <2>2. Before(al[k], al[l])
    BY <1>5, <2>1
  <2> QED
    BY <2>1, <2>2
<1>11. Keyed(al, w, n)
  BY <1>9, <1>10 DEF Keyed, I
<1> QED
  BY <1>11 DEF al, w

\* The index of a lexicon is one that searches can rely on.
LEMMA LexiconIsIndex ==
  ASSUME NEW d, HasTiles(d), NEW raw, IsWords(d, raw)
  PROVE  IsIndex(BuildLexicon(d, raw))
<1> DEFINE index == BuildLexicon(d, raw)
           w == WordsOf(raw)
           s == ByTiles(raw)
           al == AlphagramsOf(raw)
           n == Cardinality(raw)
<1>0. IsDistribution(d)
  BY DEF HasTiles
<1>1. Listed(w, s, n, raw, d)
  BY <1>0, WordsListed DEF IsWords
<1>2. /\ index.kind = "words" /\ index.distribution = d /\ index.alphagrams = al
      /\ EntryIds(index) = DOMAIN w
      /\ \A i \in DOMAIN w :
           /\ index.entries[i].own = OwnAttributes(d, w[i])
           /\ index.entries[i].alphagram = IdOf(al, Canonical(w[i]))
           /\ index.entries[i].combinations = WordCombinations(d, Counts(d, w[i]))
           /\ index.entries[i].playability = s[i].playability
  BY LexiconFields
<1> HIDE DEF index, s, n
<1>3. /\ n \in Nat /\ n <= INFINITY
      /\ DOMAIN w = 1 .. n
      /\ \A i \in 1 .. n : s[i] \in raw /\ w[i] = s[i].tiles /\ w[i] \in Seq(DOMAIN d) /\ w[i] \in Seq(Nat)
      /\ \A i, j \in 1 .. n : i < j => Before(w[i], w[j])
      /\ \A i, j \in 1 .. n : w[i] = w[j] => i = j
  BY <1>1 DEF Listed
<1>4. Keyed(al, w, n)
  BY <1>3, AlphagramsKeyed
<1> HIDE DEF w, al
<1> DEFINE I == 1 .. n
<1>5. IsFiniteSet(I) /\ Cardinality(I) = n /\ \A i \in I : i \in Int
  <2>1. IsFiniteSet(I) /\ Cardinality(I) = n
    BY <1>3, UpTo
  <2>2. \A i \in I : i \in Int
    BY <1>3
  <2> QED
    BY <2>1, <2>2
<1>6. EntryIds(index) = I
  BY <1>2, <1>3
<1> HIDE DEF I
<1>7. ASSUME NEW i \in I PROVE TilesOf(index, i) = w[i] /\ i \in DOMAIN w
  <2>1. i \in DOMAIN w
    BY <1>2, <1>6
  <2>2. index.entries[i].own = OwnAttributes(d, w[i])
    BY <1>2, <2>1
  <2> QED
    BY <2>1, <2>2 DEF TilesOf, OwnAttributes
<1>8. ASSUME NEW i \in I
      PROVE  /\ index.entries[i].alphagram \in Int
             /\ index.alphagrams[index.entries[i].alphagram] = Canonical(w[i])
  <2>1. index.entries[i].alphagram = IdOf(al, Canonical(w[i]))
    BY <1>2, <1>7
  <2>2. IdOf(al, Canonical(w[i])) \in Int /\ al[IdOf(al, Canonical(w[i]))] = Canonical(w[i])
    BY <1>4 DEF Keyed, I
  <2> QED
    BY <1>2, <2>1, <2>2
<1>9. WellMade(index)
  <2>1. ASSUME NEW i \in I PROVE Describes(d, index.entries[i].own)
    <3>1. w[i] \in Seq(DOMAIN d) /\ index.entries[i].own = OwnAttributes(d, w[i])
      BY <1>2, <1>3, <1>7 DEF I
    <3> QED
      BY <3>1 DEF Describes
  <2> QED
    BY <1>0, <1>2, <1>6, <2>1 DEF WellMade
<1>10. IsKeyed(index)
  BY <1>2, <1>6, <1>7, <1>8 DEF IsKeyed, KeyOf
<1>11. Rankable(index)
  <2>1. ASSUME NEW i \in I
        PROVE  /\ TilesOf(index, i) \in Seq(Nat) /\ index.entries[i].combinations \in Int
               /\ index.entries[i].playability \in Int /\ index.entries[i].alphagram \in Int
    <3>1. /\ w[i] \in Seq(DOMAIN d) /\ w[i] \in Seq(Nat)
          /\ s[i] \in raw /\ w[i] = s[i].tiles
      BY <1>3 DEF I
    <3>2. index.entries[i].combinations \in Int /\ index.entries[i].playability \in Int
      <4>1. WordCombinations(d, Counts(d, w[i])) \in Int
        BY <1>0, <3>1, CountsAreCounts, WordCombinationsAreWhole
      <4> QED
        BY <1>2, <1>7, <3>1, <4>1 DEF IsWords
    <3> QED
      BY <1>7, <1>8, <3>1, <3>2
  <2>2. \A a, b \in I : TilesOf(index, a) = TilesOf(index, b) => a = b
    BY <1>3, <1>7 DEF I
  <2> QED
    BY <1>3, <1>5, <1>6, <2>1, <2>2 DEF Rankable
<1>12. IsNumbered(index)
  <2>1. ASSUME NEW a \in I, NEW b \in I
        PROVE  a \in Int /\ (a < b => Before(TilesOf(index, a), TilesOf(index, b)))
    BY <1>3, <1>5, <1>7 DEF I
  <2>2. ASSUME NEW a \in I, NEW b \in I,
               index.entries[a].alphagram < index.entries[b].alphagram
        PROVE  Before(index.alphagrams[index.entries[a].alphagram],
                      index.alphagrams[index.entries[b].alphagram])
    <3>1. /\ index.entries[a].alphagram = IdOf(al, Canonical(w[a]))
          /\ index.entries[b].alphagram = IdOf(al, Canonical(w[b]))
      BY <1>2, <1>7
    <3>2. Before(Canonical(w[a]), Canonical(w[b]))
      BY <1>4, <2>2, <3>1 DEF Keyed, I
    <3> QED
      BY <1>8, <3>2
  <2> QED
    BY <1>6, <1>8, <2>1, <2>2 DEF IsNumbered
<1> QED
  BY <1>9, <1>10, <1>11, <1>12 DEF IsIndex, index

-----------------------------------------------------------------------------
\* Leaves are stored with their tiles in tile order.
Sorted(raw) == {[tiles |-> Canonical(l.tiles), value |-> l.value] : l \in raw}

\* What the index of leaves says of each leave on its own.
LEMMA LeavesFields ==
  ASSUME NEW lexicon, NEW raw
  PROVE  /\ BuildLeaves(lexicon, raw).kind = "leaves"
         /\ BuildLeaves(lexicon, raw).distribution = lexicon.distribution
         /\ EntryIds(BuildLeaves(lexicon, raw)) = DOMAIN WordsOf(Sorted(raw))
         /\ \A i \in DOMAIN WordsOf(Sorted(raw)) :
              /\ BuildLeaves(lexicon, raw).entries[i].own =
                   OwnAttributes(lexicon.distribution, WordsOf(Sorted(raw))[i])
              /\ BuildLeaves(lexicon, raw).entries[i].combinations =
                   LeaveCombinations(lexicon.distribution,
                                     Counts(lexicon.distribution, WordsOf(Sorted(raw))[i]))
<1> DEFINE d == lexicon.distribution
           sorted == ByTiles(Sorted(raw))
           leaves == [i \in DOMAIN sorted |-> sorted[i].tiles]
           combinations == [i \in DOMAIN leaves |-> LeaveCombinations(d, Counts(d, leaves[i]))]
           prob == RanksByLength(leaves, combinations, LAMBDA a, b : a < b)
           anagrams(l) ==
             IF BLANK \in ToSet(l) \/ ~ HasKey(lexicon.alphagrams, l) THEN 0
             ELSE Cardinality(lexicon.alphagram_words[IdOf(lexicon.alphagrams, l)])
           own(i) == OwnAttributes(d, leaves[i])
           built == BuildLeaves(lexicon, raw)
<1>1. built =
        [kind |-> "leaves",
         distribution |-> d,
         entries |-> [i \in DOMAIN leaves |->
           [own |-> own(i),
            num_anagrams |-> anagrams(leaves[i]),
            combinations |-> combinations[i],
            probability_order |-> prob[i],
            value |-> sorted[i].value]]]
  BY Zenon DEF BuildLeaves, ByTiles, Sorted
<1>2. leaves = WordsOf(Sorted(raw))
  BY Zenon DEF WordsOf
<1>3. /\ \A i \in DOMAIN leaves : combinations[i] = LeaveCombinations(d, Counts(d, leaves[i]))
      /\ \A i \in DOMAIN leaves : own(i) = OwnAttributes(d, leaves[i])
  <2> HIDE DEF leaves, sorted
  <2> QED
    BY Zenon
<1> HIDE DEF prob, anagrams, own, built, sorted, leaves, combinations, d
<1>4. built.kind = "leaves" /\ built.distribution = d /\ DOMAIN built.entries = DOMAIN leaves
  BY <1>1
<1>5. ASSUME NEW i \in DOMAIN leaves
      PROVE  built.entries[i].own = own(i) /\ built.entries[i].combinations = combinations[i]
  BY <1>1
<1> QED
  BY <1>2, <1>3, <1>4, <1>5 DEF EntryIds, built, d

\* Leaves as stored are distinct rows in tile order.
LEMMA StoredIsRaw ==
  ASSUME NEW d, IsDistribution(d), NEW raw, IsLeaves(d, raw)
  PROVE  /\ IsRaw(d, Sorted(raw))
         /\ \A x \in Sorted(raw) : Canonical(x.tiles) = x.tiles
<1> DEFINE f == [l \in raw |-> [tiles |-> Canonical(l.tiles), value |-> l.value]]
           S == Sorted(raw)
<1>1. ASSUME NEW l \in raw
      PROVE  /\ Canonical(l.tiles) \in Seq(DOMAIN d)
             /\ Canonical(Canonical(l.tiles)) = Canonical(l.tiles)
  <2> DEFINE t == l.tiles
             c == Canonical(t)
             n == Len(t)
  <2>1. t \in Seq(DOMAIN d) /\ DOMAIN d \subseteq Nat
    BY DEF IsLeaves, IsDistribution
  <2> HIDE DEF t
  <2>2. t \in Seq(Nat)
    BY <2>1
  <2>3. TileOrder(c, t) /\ Canonical(c) = c
    BY <2>2, CanonicalFacts, CanonicalTwice
  <2> HIDE DEF c
  <2>4. n \in Nat /\ c \in [1 .. n -> Nat] /\ \E g : Rearranges(g, n, c, t)
    BY <2>1, <2>3 DEF TileOrder
  <2>5. PICK g : Rearranges(g, n, c, t)
    BY <2>4
  <2>6. \A i \in 1 .. n : c[i] \in DOMAIN d
    <3>1. ASSUME NEW i \in 1 .. n PROVE c[i] \in DOMAIN d
      <4>1. g[i] \in 1 .. n /\ c[i] = t[g[i]]
        BY <2>5 DEF Rearranges
      <4> QED
        BY <2>1, <4>1
    <3> QED
      BY <3>1
  <2> HIDE DEF n
  <2>7. c \in [1 .. n -> DOMAIN d]
    BY <2>4, <2>6
  <2>8. c \in Seq(DOMAIN d)
    BY <2>4, <2>7, LenOf
  <2> QED
    BY <2>3, <2>8 DEF c, t
<1>2. \A l \in raw : f[l].tiles = Canonical(l.tiles)
  OBVIOUS
<1>3. S = {f[l] : l \in raw}
  BY DEF Sorted
<1>4. IsFiniteSet(raw) /\ Cardinality(raw) <= INFINITY /\ Cardinality(raw) \in Nat
  BY FS_CardinalityType DEF IsLeaves
<1> HIDE DEF S, f
<1>5. \A x \in S : \E l \in raw : f[l] = x
  BY <1>3
<1>6. ASSUME NEW x \in S, NEW y \in S, x.tiles = y.tiles PROVE x = y
  <2>1. PICK a \in raw : f[a] = x
    BY <1>5
  <2>2. PICK b \in raw : f[b] = y
    BY <1>5
  <2>3. Canonical(a.tiles) = Canonical(b.tiles)
    BY <1>2, <1>6, <2>1, <2>2
  <2>4. a = b
    BY <2>3 DEF IsLeaves
  <2> QED
    BY <2>1, <2>2, <2>4
<1>7. ASSUME NEW x \in S
      PROVE  x.tiles \in Seq(DOMAIN d) /\ Canonical(x.tiles) = x.tiles
  <2>1. PICK a \in raw : f[a] = x
    BY <1>5
  <2>2. x.tiles = Canonical(a.tiles)
    BY <1>2, <2>1
  <2> QED
    BY <1>1, <2>2 DEF IsLeaves
<1>8. IsFiniteSet(S) /\ Cardinality(S) <= INFINITY
  <2> DEFINE g == [l \in raw |-> f[l]]
  <2>1. g \in Surjection(raw, S)
    <3>1. g \in [raw -> S]
      BY <1>3
    <3> QED
      BY <1>5, <3>1 DEF Surjection
  <2> HIDE DEF g
  <2>2. IsFiniteSet(S) /\ Cardinality(S) <= Cardinality(raw)
    BY <1>4, <2>1, FS_Surjection
  <2> DEFINE m == Cardinality(S)
             n == Cardinality(raw)
  <2>3. m \in Nat /\ n \in Nat /\ m <= n /\ n <= INFINITY
    BY <1>4, <2>2, FS_CardinalityType
  <2> HIDE DEF m, n
  <2>4. m <= INFINITY
    BY <2>3, Unbounded
  <2> QED
    BY <2>2, <2>4 DEF m
<1>9. IsRaw(d, S)
  BY <1>6, <1>7, <1>8 DEF IsRaw
<1> QED
  BY <1>7, <1>9 DEF S

\* The index of leaves is one that searches can rely on.
LEMMA LeavesAreIndex ==
  ASSUME NEW lexicon, HasTiles(lexicon.distribution), NEW raw,
         IsLeaves(lexicon.distribution, raw)
  PROVE  IsIndex(BuildLeaves(lexicon, raw))
<1> DEFINE d == lexicon.distribution
           index == BuildLeaves(lexicon, raw)
           S == Sorted(raw)
           w == WordsOf(S)
           s == ByTiles(S)
           n == Cardinality(S)
<1>0. HasTiles(d) /\ IsDistribution(d)
  BY DEF HasTiles
<1>1. IsRaw(d, S) /\ \A x \in S : Canonical(x.tiles) = x.tiles
  BY <1>0, StoredIsRaw
<1>2. /\ index.kind = "leaves" /\ index.distribution = d
      /\ EntryIds(index) = DOMAIN w
      /\ \A i \in DOMAIN w :
           /\ index.entries[i].own = OwnAttributes(d, w[i])
           /\ index.entries[i].combinations = LeaveCombinations(d, Counts(d, w[i]))
  BY LeavesFields
<1>3. IsDistribution(d)
  BY <1>0
<1> HIDE DEF index, d, S
<1>4. Listed(w, s, n, S, d)
  BY <1>1, <1>3, WordsListed
<1> HIDE DEF s, n
<1>5. /\ n \in Nat /\ n <= INFINITY
      /\ DOMAIN w = 1 .. n
      /\ \A i \in 1 .. n : s[i] \in S /\ w[i] = s[i].tiles /\ w[i] \in Seq(DOMAIN d) /\ w[i] \in Seq(Nat)
      /\ \A i, j \in 1 .. n : i < j => Before(w[i], w[j])
      /\ \A i, j \in 1 .. n : w[i] = w[j] => i = j
  BY <1>4 DEF Listed
<1> HIDE DEF w
<1> DEFINE I == 1 .. n
<1>6. IsFiniteSet(I) /\ Cardinality(I) = n /\ \A i \in I : i \in Int
  <2>1. IsFiniteSet(I) /\ Cardinality(I) = n
    BY <1>5, UpTo
  <2>2. \A i \in I : i \in Int
    BY <1>5
  <2> QED
    BY <2>1, <2>2
<1>7. EntryIds(index) = I
  BY <1>2, <1>5
<1> HIDE DEF I
<1>8. ASSUME NEW i \in I
      PROVE  /\ TilesOf(index, i) = w[i] /\ i \in DOMAIN w
             /\ index.entries[i].own = OwnAttributes(d, w[i])
             /\ w[i] \in Seq(DOMAIN d) /\ w[i] \in Seq(Nat) /\ Canonical(w[i]) = w[i]
             /\ index.entries[i].combinations \in Int
  <2>1. i \in DOMAIN w
    BY <1>2, <1>7
  <2>2. /\ index.entries[i].own = OwnAttributes(d, w[i])
        /\ index.entries[i].combinations = LeaveCombinations(d, Counts(d, w[i]))
    BY <1>2, <2>1
  <2>3. TilesOf(index, i) = w[i]
    BY <2>2 DEF TilesOf, OwnAttributes
  <2>4. s[i] \in S /\ w[i] = s[i].tiles /\ w[i] \in Seq(DOMAIN d) /\ w[i] \in Seq(Nat)
    BY <1>5 DEF I
  <2>5. Canonical(w[i]) = w[i]
    BY <1>1, <2>4
  <2>6. LeaveCombinations(d, Counts(d, w[i])) \in Int
    BY <1>0, <2>4, CountsAreCounts, ProductIsWhole DEF LeaveCombinations
  <2> QED
    BY <2>1, <2>2, <2>3, <2>4, <2>5, <2>6
<1>9. WellMade(index)
  <2>1. \A i \in I : Describes(d, index.entries[i].own)
    BY <1>8 DEF Describes
  <2> QED
    BY <1>2, <1>3, <1>7, <2>1 DEF WellMade
<1>10. IsKeyed(index)
  <2>1. \A i \in I : KeyOf(index, i) = TilesOf(index, i)
    BY <1>2 DEF KeyOf
  <2> QED
    BY <1>7, <1>8, <2>1 DEF IsKeyed
<1>11. Rankable(index)
  <2>1. \A i \in I : TilesOf(index, i) \in Seq(Nat) /\ index.entries[i].combinations \in Int
    BY <1>8
  <2>2. \A a, b \in I : TilesOf(index, a) = TilesOf(index, b) => a = b
    BY <1>5, <1>8 DEF I
  <2>3. index.kind # "words"
    BY <1>2
  <2> QED
    BY <1>5, <1>6, <1>7, <2>1, <2>2, <2>3 DEF Rankable
<1>12. IsNumbered(index)
  <2>1. ASSUME NEW a \in I, NEW b \in I
        PROVE  a \in Int /\ (a < b => Before(TilesOf(index, a), TilesOf(index, b)))
    BY <1>5, <1>6, <1>8 DEF I
  <2>2. index.kind # "words"
    BY <1>2
  <2> QED
    BY <1>7, <2>1, <2>2 DEF IsNumbered
<1> QED
  BY <1>9, <1>10, <1>11, <1>12 DEF IsIndex, index

\* Whatever the lexicon, the filter tree and the quiz, a search finds exactly
\* what its tree means and asks for it in alphabetical order, each question once
\* (index.rs build, engine.rs run).
THEOREM LexiconSearchesAreExact ==
  ASSUME NEW d, HasTiles(d), NEW raw, IsWords(d, raw),
         RowsAreMade(d), NEW root \in GroupsTo(Depth), NEW type
  PROVE  SearchFindsItsMeaning(BuildLexicon(d, raw), type, root)
<1> DEFINE index == BuildLexicon(d, raw)
<1>1. IsIndex(index) /\ index.kind = "words" /\ index.distribution = d
  BY LexiconIsIndex, LexiconFields
<1> HIDE DEF index
<1>2. SearchFindsItsMeaning(index, type, root)
  BY <1>1, SearchOnIndex DEF index
<1> QED
  BY <1>2 DEF index

\* So does a search on leaves, which have no anagram quiz (index.rs
\* build_leaves, engine.rs run).
THEOREM LeaveSearchesAreExact ==
  ASSUME NEW lexicon, HasTiles(lexicon.distribution), NEW raw,
         IsLeaves(lexicon.distribution, raw), RowsAreMade(lexicon.distribution),
         NEW root \in GroupsTo(Depth), NEW type, type # "anagram"
  PROVE  SearchFindsItsMeaning(BuildLeaves(lexicon, raw), type, root)
<1> DEFINE index == BuildLeaves(lexicon, raw)
<1>1. IsIndex(index) /\ index.distribution = lexicon.distribution
  BY LeavesAreIndex, LeavesFields
<1> HIDE DEF index
<1>2. SearchFindsItsMeaning(index, type, root)
  BY <1>1, SearchOnIndex DEF index
<1> QED
  BY <1>2 DEF index

-----------------------------------------------------------------------------
(* Whatever is let through                                                 *)

\* The inputs a behaviour may have picked.
Picked ==
  \/ case = [on |-> "start"]
  \/ \E raw \in WordUploads : case = [on |-> "words", raw |-> raw]
  \/ \E raw \in LeaveUploads : case = [on |-> "leaves", raw |-> raw]
  \/ \E row \in PatternRows : \/ case = [on |-> "word_row", row |-> row]
                              \/ case = [on |-> "leave_row", row |-> row]
  \/ \E tree \in WordTrees, type \in {"anagram", "definition"} :
       case = [on |-> "word_tree", tree |-> tree, type |-> type]
  \/ \E tree \in LeaveTrees : case = [on |-> "leave_tree", tree |-> tree]

LEMMA AlwaysPicked == Picks => []Picked
<1>1. Unpicked => Picked
  BY DEF Unpicked, Picked
<1>2. Picked /\ [Pick]_case => Picked'
  <2> SUFFICES ASSUME Picked, [Pick]_case PROVE Picked'
    OBVIOUS
  <2>1. CASE UNCHANGED case
    BY <2>1 DEF Picked
  <2>2. CASE Pick
    BY <2>2 DEF Pick, IndexWords, IndexLeaves, MatchWords, MatchLeaves, SearchWords,
                SearchLeaves, Picked
  <2> QED
    BY <2>1, <2>2
<1> QED
  BY <1>1, <1>2, PTL DEF Picks

LEMMA SearchedAreIndexes ==
  /\ IsIndex(Lexicon) /\ Lexicon.distribution = Distribution
  /\ IsIndex(LeaveSet) /\ LeaveSet.distribution = Distribution
<1>1. /\ HasTiles(Distribution) /\ IsWords(Distribution, SearchedWords)
      /\ IsLeaves(Distribution, SearchedLeaves)
  BY AlgorithmsAssumption
<1>2. IsIndex(Lexicon) /\ Lexicon.distribution = Distribution
  BY <1>1, LexiconIsIndex, LexiconFields DEF Lexicon
<1>3. IsIndex(LeaveSet) /\ LeaveSet.distribution = Lexicon.distribution
  BY <1>1, <1>2, LeavesAreIndex, LeavesFields DEF LeaveSet
<1> QED
  BY <1>2, <1>3

\* Whatever is uploaded and whatever the pattern, the counts and the
\* backtracking take a word or a leave exactly if it can be laid out so
\* (pattern.rs anagram, subanagram, matches_in_order).
THEOREM PatternsMatchExactly == Picks => []PatternsAreExact
<1>1. Picked => PatternsAreExact
  <2> SUFFICES ASSUME Picked PROVE PatternsAreExact
    OBVIOUS
  <2>1. case.on \in {"word_row", "leave_row"} => case.row \in PatternRows
    BY DEF Picked
  <2>2. WellMade(Lexicon) /\ WellMade(LeaveSet)
    BY SearchedAreIndexes DEF IsIndex
  <2>3. \A row \in PatternRows : IsPattern(row, Distribution)
    BY AlgorithmsAssumption
  <2>4. ASSUME NEW row \in PatternRows
        PROVE  PatternsTryEveryWay(Lexicon, row) /\ PatternsTryEveryWay(LeaveSet, row)
    BY <2>2, <2>3, PatternsAreTried, SearchedAreIndexes
  <2> QED
    BY <2>1, <2>4 DEF PatternsAreExact
<1> QED
  BY <1>1, AlwaysPicked, PTL

\* Whatever is uploaded, every search of it finds what its tree means, from a
\* shortcut or not, with limits at any level, and asks each question once and in
\* alphabetical order (engine.rs run_ids, questions).
THEOREM SearchesFindTheirMeaning == Picks => []SearchesAreExact
<1>1. Picked => SearchesAreExact
  <2> SUFFICES ASSUME Picked PROVE SearchesAreExact
    OBVIOUS
  <2>1. /\ case.on = "word_tree" => case.tree \in WordTrees
        /\ case.on = "leave_tree" => case.tree \in LeaveTrees
    BY DEF Picked
  <2>2. /\ HasTiles(Distribution) /\ RowsAreMade(Distribution)
        /\ IsWords(Distribution, SearchedWords) /\ IsLeaves(Distribution, SearchedLeaves)
        /\ WordTrees \subseteq GroupsTo(Depth) /\ LeaveTrees \subseteq GroupsTo(Depth)
    BY AlgorithmsAssumption
  <2>3. ASSUME NEW tree \in WordTrees, NEW type
        PROVE  SearchFindsItsMeaning(Lexicon, type, tree)
    BY <2>2, LexiconSearchesAreExact DEF Lexicon
  <2>4. ASSUME NEW tree \in LeaveTrees
        PROVE  SearchFindsItsMeaning(LeaveSet, "leave_value", tree)
    BY <2>2, LeaveSearchesAreExact, SearchedAreIndexes DEF LeaveSet
  <2>5. case.on = "word_tree" => SearchFindsItsMeaning(Lexicon, case.type, case.tree)
    BY <2>1, <2>3
  <2>6. case.on = "leave_tree" => SearchFindsItsMeaning(LeaveSet, "leave_value", case.tree)
    BY <2>1, <2>4
  <2> QED
    BY <2>5, <2>6 DEF SearchesAreExact
<1> QED
  BY <1>1, AlwaysPicked, PTL
=============================================================================
