---------------------------- MODULE ConflictsProofs ----------------------------
(***************************************************************************)
(* Theorems of Conflicts: which change wins on the server, what a device   *)
(* shows while its changes are pending, and that a device with nothing     *)
(* pending shows what the server holds.  For every set of devices, every   *)
(* clock and every point at which a sync cycle may be interrupted.         *)
(***************************************************************************)
EXTENDS Conflicts, WellFoundedInduction, TLAPS

-----------------------------------------------------------------------------
(* The invariant                                                           *)

Stages == {"idle", "answered", "written", "acknowledged", "rebased"}

Made      == [device : Devices, unit : Units, at : Nat, seen : Nat, known : Nat]
Values    == [Units -> Nat]
Partial   == UNION {[D -> Nat] : D \in SUBSET Units}
Cycles    == [stage : Stages, batch : SUBSET Ops, seq : Nat, rows : SUBSET Rows,
              page : Partial, foreign : BOOLEAN]
Decisions == [verdict : {"none", "applied", "rejected"}, at : Nat, seq : Nat, met : Nat]
Servers   == [held : Values, stamp : [Rows -> Nat], options_seq : [OptionUnits -> Nat],
              decided : [Ops -> Decisions]]

\* The server's part of the state, as the requests fold over it.
Present == [held |-> held, stamp |-> stamp, options_seq |-> options_seq, decided |-> decided]

DeviceTypes ==
  /\ made \in Seq(Made) /\ Len(made) <= MaxOps
  /\ outbox \in [Devices -> SUBSET Ops]
  /\ base \in [Devices -> Values]
  /\ overlay \in [Devices -> Partial]
  /\ cursor \in [Devices -> Nat]
  /\ cycle \in [Devices -> Cycles]
  /\ torn \subseteq Devices

ServerTypes ==
  /\ held \in Values /\ stamp \in [Rows -> Nat]
  /\ options_seq \in [OptionUnits -> Nat] /\ decided \in [Ops -> Decisions]
  /\ sync_seq \in Nat /\ now \in Nat

\* The request that set a unit.
SeqOf(s, u) == IF s.held[u] = 0 THEN 0 ELSE s.decided[s.held[u]].seq

\* What the server s holds was applied, and the sequences compared with
\* seen_seq are those of what is held, or later for a row of several units.
HoldsApplied(s) ==
  \A u \in Units : s.held[u] # 0 =>
    /\ s.held[u] \in DOMAIN made
    /\ made[s.held[u]].unit = u
    /\ s.decided[s.held[u]].verdict = "applied"
    /\ SeqOf(s, u) <= CurrentSeq(s, u)
    /\ SeqOf(s, u) <= s.stamp[RowOf(u)]
    /\ u \in {"grade", "options", "defaults"} => SeqOf(s, u) = CurrentSeq(s, u)

\* The rows of what was applied are stamped.
StampsApplied(s) ==
  \A i \in DOMAIN made : s.decided[i].verdict = "applied" =>
    \A r \in Stamped(made[i].unit) : s.decided[i].seq <= s.stamp[r]

\* What was decided: what it met is decided too, and the two rules.
Judged(s, i) ==
  LET j == s.decided[i] IN
  /\ j.met = 0 => j.verdict = "applied"
  /\ j.met # 0 => /\ j.met \in DOMAIN made
                  /\ s.decided[j.met].verdict # "none"
                  /\ j.verdict = "applied" =>
                       \/ made[j.met].device = made[i].device
                       \/ j.met = made[i].known
                       \/ s.decided[j.met].at < j.at
                  /\ j.verdict = "rejected" /\ made[i].unit \in {"grade", "options", "defaults"} =>
                       made[i].seen < s.decided[j.met].seq
AllJudged(s) == \A i \in DOMAIN made : s.decided[i].verdict # "none" => Judged(s, i)

\* What is undecided was made over what the server holds, if that had been
\* pulled.
KnewHeld(s) ==
  \A i \in DOMAIN made :
    s.decided[i].verdict = "none" /\ SeqOf(s, made[i].unit) <= made[i].seen =>
      made[i].known = s.held[made[i].unit]

RequestsBy(s, q) ==
  /\ \A i \in Ops : s.decided[i].seq <= q
  /\ \A i \in Ops \ DOMAIN made : s.decided[i].verdict = "none"
  /\ \A r \in Rows : s.stamp[r] <= q
  /\ \A i \in DOMAIN made : made[i].seen <= q

ServerInv(s) == HoldsApplied(s) /\ StampsApplied(s) /\ AllJudged(s) /\ KnewHeld(s)

PresentInv == ServerTypes /\ ServerInv(Present) /\ RequestsBy(Present, sync_seq)

\* A request decides what is pending when it is sent, no more, before the
\* cursor passes it.
BatchInv(d) ==
  LET c == cycle[d] IN
  /\ c.stage = "idle" => c = Idle
  /\ outbox[d] \cup c.batch \subseteq DOMAIN made
  /\ \A o \in outbox[d] \cup c.batch : made[o].device = d
  /\ \A o \in outbox[d] \ c.batch, b \in c.batch : b < o
  /\ c.stage # "idle" =>
       /\ \A o \in outbox[d] \ c.batch : decided[o].verdict = "none"
       /\ \A b \in c.batch : decided[b].verdict # "none"
       /\ cursor[d] < c.seq /\ c.seq <= sync_seq
  /\ c.stage \in {"acknowledged", "rebased"} => outbox[d] \cap c.batch = {}
  /\ cursor[d] <= sync_seq
  /\ \A o \in outbox[d] \cup c.batch : decided[o].verdict # "none" => cursor[d] < decided[o].seq

\* The overlay has the latest pending change of everything a cascade has.
PendingInv(d) ==
  /\ DOMAIN overlay[d] \subseteq CascadeUnits
  /\ \A u \in CascadeUnits, o \in outbox[d] :
       (made[o].unit = u /\ \A p \in outbox[d] : made[p].unit = u => p <= o)
         => u \in DOMAIN overlay[d] /\ overlay[d][u] = o

\* The rows a cycle has written into the base.
Written(d) == CASE cycle[d].stage \in {"written", "acknowledged"} -> {"question"}
                [] cycle[d].stage = "rebased" -> CascadeRows
                [] OTHER -> {}

\* What the server set up to the cursor, and still holds, is in the base; what
\* it set up to the request is in the page, or was before.
BaseInv(d) ==
  LET c == cycle[d] IN
  /\ \A u \in Units : SeqOf(Present, u) <= cursor[d] => base[d][u] = held[u]
  /\ c.stage # "idle" =>
       /\ DOMAIN c.page = UnitsIn(c.rows)
       /\ \A u \in Units : SeqOf(Present, u) <= c.seq =>
            /\ RowOf(u) \in c.rows => c.page[u] = held[u]
            /\ RowOf(u) \notin c.rows => SeqOf(Present, u) <= cursor[d]
            /\ RowOf(u) \in Written(d) => base[d][u] = held[u]

\* With these rows changed, a rebase looks at row r: at the cascade's and the
\* quiz's whatever was changed, at the question's when it was.
Due(r, rows) == IF r = "question" THEN r \in rows ELSE rows \cap CascadeRows # {}

\* The rows the answer brings, and why the fast path may do with the rows the
\* request touched.
AnswerInv(d) ==
  LET c == cycle[d] IN
  c.stage # "idle" =>
    /\ \A r \in c.rows : cursor[d] < stamp[r]
    /\ ~c.foreign => \A r \in c.rows \cap CascadeRows :
                       \E o \in c.batch : made[o].unit \in CascadeUnits /\ r \in Stamped(made[o].unit)
    /\ \A o \in c.batch :
         decided[o].verdict = "applied" => Stamped(made[o].unit) \subseteq c.rows

\* A pending change of a unit keeps a row of the overlay.
Holds(u, r) ==
  /\ u \in CascadeUnits
  /\ \/ r = "cascade"
     \/ r = "quiz" /\ u \in {"grade", "cursor", "options"}
     \/ r = "question" /\ u = "grade"

\* The overlay's rows that nothing pending keeps.
Left(d) ==
  {r \in CascadeRows : /\ \E u \in DOMAIN overlay[d] : RowOf(u) = r
                       /\ \A o \in outbox[d] : ~Holds(made[o].unit, r)}

\* They will be looked at; unless an interruption lost a rejection.
OverlayInv(d) ==
  LET c == cycle[d] IN
  d \notin torn =>
    /\ c.stage = "idle" => \A r \in Left(d) : Due(r, {x \in Rows : cursor[d] < stamp[x]})
    /\ c.stage \in {"answered", "written"} => \A r \in Left(d) : Due(r, c.rows)
    /\ c.stage = "acknowledged" =>
         \/ \E o \in c.batch : made[o].unit \in CascadeUnits /\ decided[o].verdict = "rejected"
         \/ \A r \in Left(d) : Due(r, c.rows)
    /\ c.stage = "rebased" => Left(d) = {}

\* Every value is an operation that was made.
ValuesMade ==
  /\ \A u \in Units : held[u] <= Len(made)
  /\ \A d \in Devices : /\ \A u \in Units : base[d][u] <= Len(made)
                        /\ \A u \in DOMAIN cycle[d].page : cycle[d].page[u] <= Len(made)

DeviceInv(d) == BatchInv(d) /\ PendingInv(d) /\ BaseInv(d) /\ AnswerInv(d) /\ OverlayInv(d)

IInv ==
  /\ DeviceTypes /\ PresentInv /\ ValuesMade
  /\ \A d \in Devices : DeviceInv(d)

-----------------------------------------------------------------------------
(* The folds                                                               *)

\* Induction over the naturals for a set.
LEMMA SetInduction ==
  ASSUME NEW S, 0 \in S, \A n \in Nat : n \in S => n + 1 \in S
  PROVE  Nat \subseteq S
<1>1. SUFFICES ASSUME Nat \ S # {} PROVE FALSE
  OBVIOUS
<1>2. PICK x \in Nat \ S : \A y \in Nat \ S : <<y, x>> \notin OpToRel(<, Nat)
  BY <1>1, WFMin, NatLessThanWellFounded
<1>3. \A y \in Nat \ S : ~(y < x)
  BY <1>2 DEF OpToRel
<1>4. x # 0 /\ x - 1 \in Nat
  OBVIOUS
<1>5. x - 1 \in S
  BY <1>3, <1>4
<1> QED
  BY <1>4, <1>5

\* A request is a fold over its operations: there is a function with its
\* steps.
LEMMA ServedIsFold ==
  ASSUME NEW ops, NEW seq, NEW t
  PROVE  \E f : /\ f[0] = Present
                /\ \A n \in 1 .. MaxOps :
                     f[n] = IF n \in ops /\ decided[n].verdict = "none"
                            THEN Decide(f[n - 1], n, seq, t) ELSE f[n - 1]
                /\ Served(ops, seq, t) = f[MaxOps]
<1> DEFINE Is(f, m) ==
      f = [n \in 0 .. m |->
        IF n = 0 THEN [held |-> held, stamp |-> stamp, options_seq |-> options_seq, decided |-> decided]
        ELSE IF n \in ops /\ decided[n].verdict = "none" THEN Decide(f[n - 1], n, seq, t)
        ELSE f[n - 1]]
<1> DEFINE S == {m \in Nat : \E f : Is(f, m)}
<1>1. 0 \in S
  <2>1. Is([n \in 0 .. 0 |-> Present], 0)
    BY DEF Present
  <2> QED
    BY <2>1
<1>2. ASSUME NEW m \in Nat, m \in S PROVE m + 1 \in S
  <2>1. PICK f : Is(f, m)
    BY <1>2
  <2> DEFINE last == IF m + 1 \in ops /\ decided[m + 1].verdict = "none"
                     THEN Decide(f[m], m + 1, seq, t) ELSE f[m]
             g == [n \in 0 .. m + 1 |-> IF n = m + 1 THEN last ELSE f[n]]
  <2>2. \A n \in 0 .. m : g[n] = f[n]
    OBVIOUS
  <2>3. g[m + 1] = last
    BY <1>2
  <2>4. g = [n \in 0 .. m + 1 |-> g[n]]
    OBVIOUS
  <2> HIDE DEF last, g
  <2>5. \A n \in 0 .. m + 1 : g[n] =
        IF n = 0 THEN [held |-> held, stamp |-> stamp, options_seq |-> options_seq, decided |-> decided]
        ELSE IF n \in ops /\ decided[n].verdict = "none" THEN Decide(g[n - 1], n, seq, t)
        ELSE g[n - 1]
    <3> SUFFICES ASSUME NEW n \in 0 .. m + 1
        PROVE g[n] = 
        IF n = 0 THEN [held |-> held, stamp |-> stamp, options_seq |-> options_seq, decided |-> decided]
        ELSE IF n \in ops /\ decided[n].verdict = "none" THEN Decide(g[n - 1], n, seq, t)
        ELSE g[n - 1]
      OBVIOUS
    <3>1. CASE n = m + 1
      BY <3>1, <2>2, <2>3 DEF last
    <3>2. CASE n \in 0 .. m
      BY <3>2, <2>1, <2>2
    <3> QED
      BY <3>1, <3>2
  <2>6. Is(g, m + 1)
    BY <2>4, <2>5
  <2> QED
    BY <2>6
<1>3. MaxOps \in S
  <2> HIDE DEF S
  <2> QED
    BY <1>1, <1>2, SetInduction, ConflictsAssumption
<1>4. PICK f : Is(f, MaxOps) /\ Served(ops, seq, t) = f[MaxOps]
  BY <1>3 DEF Served
<1> QED
  BY <1>4, ConflictsAssumption DEF Present

\* So is a replay.
LEMMA ReplayIsFold ==
  ASSUME NEW ops, NEW bs
  PROVE  \E f : /\ f[0] = [u \in {} |-> 0]
                /\ \A n \in 1 .. MaxOps :
                     f[n] = IF n \in ops THEN applyOp(f[n - 1], bs, made[n].unit, n) ELSE f[n - 1]
                /\ Replay(ops, bs) = f[MaxOps]
<1> DEFINE Is(f, m) ==
      f = [n \in 0 .. m |->
        IF n = 0 THEN [u \in {} |-> 0]
        ELSE IF n \in ops THEN applyOp(f[n - 1], bs, made[n].unit, n)
        ELSE f[n - 1]]
<1> DEFINE S == {m \in Nat : \E f : Is(f, m)}
<1>1. 0 \in S
  <2>1. Is([n \in 0 .. 0 |-> [u \in {} |-> 0]], 0)
    OBVIOUS
  <2> QED
    BY <2>1
<1>2. ASSUME NEW m \in Nat, m \in S PROVE m + 1 \in S
  <2>1. PICK f : Is(f, m)
    BY <1>2
  <2> DEFINE last == IF m + 1 \in ops THEN applyOp(f[m], bs, made[m + 1].unit, m + 1) ELSE f[m]
             g == [n \in 0 .. m + 1 |-> IF n = m + 1 THEN last ELSE f[n]]
  <2>2. \A n \in 0 .. m : g[n] = f[n]
    OBVIOUS
  <2>3. g[m + 1] = last
    BY <1>2
  <2>4. g = [n \in 0 .. m + 1 |-> g[n]]
    OBVIOUS
  <2> HIDE DEF last, g
  <2>5. ASSUME NEW n \in 0 .. m + 1
        PROVE  g[n] = IF n = 0 THEN [u \in {} |-> 0]
                      ELSE IF n \in ops THEN applyOp(g[n - 1], bs, made[n].unit, n)
                      ELSE g[n - 1]
    <3>1. CASE n = m + 1
      BY <3>1, <2>2, <2>3 DEF last
    <3>2. CASE n \in 0 .. m
      BY <3>2, <2>1, <2>2
    <3> QED
      BY <3>1, <3>2
  <2>6. Is(g, m + 1)
    BY <2>4, <2>5
  <2> QED
    BY <2>6
<1>3. MaxOps \in S
  <2> HIDE DEF S
  <2> QED
    BY <1>1, <1>2, SetInduction, ConflictsAssumption
<1>4. PICK f : Is(f, MaxOps) /\ Replay(ops, bs) = f[MaxOps]
  BY <1>3 DEF Replay
<1> QED
  BY <1>4, ConflictsAssumption

-----------------------------------------------------------------------------
(* Units, and what applying an operation writes                            *)

\* Some operations that are not none have a latest one.
LEMMA HighestIsLast ==
  ASSUME NEW T \in SUBSET Ops, T # {}
  PROVE  Highest(T) \in T /\ \A m \in T : m <= Highest(T)
<1> DEFINE B == {k \in Nat : MaxOps - k \in T}
<1>1. PICK m : m \in T
  OBVIOUS
<1>2. MaxOps - m \in B
  BY <1>1, ConflictsAssumption DEF Ops
<1>3. PICK k \in B : \A y \in B : <<y, k>> \notin OpToRel(<, Nat)
  <2>1. B \subseteq Nat /\ B # {}
    BY <1>2
  <2> HIDE DEF B
  <2> QED
    BY <2>1, WFMin, NatLessThanWellFounded
<1>4. \A y \in B : ~(y < k)
  BY <1>3 DEF OpToRel
<1>5. ASSUME NEW n \in T PROVE n <= MaxOps - k
  <2>0. n \in Nat /\ n <= MaxOps /\ MaxOps \in Nat
    BY ConflictsAssumption DEF Ops
  <2>1. MaxOps - n \in B
    <3>1. MaxOps - n \in Nat /\ MaxOps - (MaxOps - n) = n
      BY <2>0
    <3> QED
      BY <3>1
  <2>2. k \in Nat /\ ~(MaxOps - n < k)
    BY <2>1, <1>4
  <2> QED
    BY <2>0, <2>2
<1>6. MaxOps - k \in T
  OBVIOUS
<1> QED
  BY <1>5, <1>6 DEF Highest

LEMMA HighestIsUnique ==
  ASSUME NEW T \in SUBSET Ops, NEW o \in T, \A m \in T : m <= o
  PROVE  Highest(T) = o
<1>1. Highest(T) \in T /\ \A m \in T : m <= Highest(T)
  BY HighestIsLast
<1>2. \A m \in T : m \in Nat
  BY ConflictsAssumption DEF Ops
<1>3. Highest(T) <= o /\ o <= Highest(T)
  BY <1>1
<1>4. Highest(T) \in Nat /\ o \in Nat
  BY <1>1, <1>2
<1> QED
  BY <1>3, <1>4

\* What a change of a unit of a cascade writes, it stamps.
LEMMA UnitFacts ==
  /\ \A u \in Units : u \in AllUnits /\ RowOf(u) \in Rows
  /\ CascadeUnits \subseteq Units
  /\ \A u \in Units : u \in CascadeUnits <=> RowOf(u) \in CascadeRows
  /\ \A u \in CascadeUnits : /\ u \in {"grade", "cursor", "options", "defaults"}
                             /\ Writes(u) = Stamped(u) /\ RowOf(u) \in Writes(u)
                             /\ Writes(u) \subseteq CascadeRows
  /\ \A u \in Units \ CascadeUnits : Writes(u) = {}
  /\ \A u \in Units : Stamped(u) \subseteq Rows /\ RowOf(u) \in Stamped(u)
  /\ \A u \in Units : u \notin CascadeUnits => Stamped(u) = {"preferences"}
  /\ \A u \in Units : "question" \in Stamped(u) => u = "grade"
  /\ \A u \in Units : RowOf(u) = "question" => u = "grade"
<1>1. ASSUME NEW u \in Units
      PROVE  u \in {"grade", "cursor", "options", "defaults", "preferences", "bindings"}
  BY ConflictsAssumption DEF AllUnits
<1>2. RowOf("grade") = "question" /\ RowOf("cursor") = "quiz" /\ RowOf("options") = "quiz"
      /\ RowOf("defaults") = "cascade" /\ RowOf("preferences") = "preferences"
      /\ RowOf("bindings") = "preferences"
  BY DEF RowOf
<1>3. Writes("grade") = CascadeRows /\ Writes("cursor") = {"quiz"} /\ Writes("options") = {"quiz"}
      /\ Writes("defaults") = {"cascade"} /\ Writes("preferences") = {} /\ Writes("bindings") = {}
  BY DEF Writes
<1>4. CascadeUnits = {u \in Units : RowOf(u) \in CascadeRows}
  BY DEF CascadeUnits, UnitsIn
<1>5. ASSUME NEW u \in Units
      PROVE  /\ u \in AllUnits /\ RowOf(u) \in Rows
             /\ u \in CascadeUnits <=> RowOf(u) \in CascadeRows
             /\ u \in CascadeUnits => /\ u \in {"grade", "cursor", "options", "defaults"}
                                      /\ Writes(u) = Stamped(u) /\ RowOf(u) \in Writes(u)
                                      /\ Writes(u) \subseteq CascadeRows
             /\ u \notin CascadeUnits => Writes(u) = {} /\ Stamped(u) = {"preferences"}
             /\ Stamped(u) \subseteq Rows /\ RowOf(u) \in Stamped(u)
             /\ "question" \in Stamped(u) => u = "grade"
             /\ RowOf(u) = "question" => u = "grade"
  BY <1>1, <1>2, <1>3, <1>4 DEF AllUnits, Rows, CascadeRows, Stamped
<1> QED
  BY <1>4, <1>5

LEMMA PartialFacts ==
  /\ \A ov \in Partial : /\ DOMAIN ov \subseteq Units
                         /\ ov = [u \in DOMAIN ov |-> ov[u]]
                         /\ \A u \in DOMAIN ov : ov[u] \in Nat
  /\ \A D \in SUBSET Units : [D -> Nat] \subseteq Partial
BY DEF Partial

\* Applying an operation to an overlay.
LEMMA ApplyFacts ==
  ASSUME NEW ov \in Partial, NEW bs \in Values, NEW u \in Units, NEW o \in Nat
  PROVE  LET new == applyOp(ov, bs, u, o) IN
         /\ new \in Partial
         /\ DOMAIN new = DOMAIN ov \cup UnitsIn(Writes(u))
         /\ u \in DOMAIN new => new[u] = o
         /\ \A v \in DOMAIN ov : v # u => new[v] = ov[v]
<1> DEFINE D == DOMAIN ov \cup UnitsIn(Writes(u))
           new == applyOp(ov, bs, u, o)
<1>1. D \subseteq Units /\ \A v \in DOMAIN ov : ov[v] \in Nat
  BY PartialFacts DEF UnitsIn
<1>2. new = [v \in D |-> IF v = u THEN o ELSE Shown(ov, bs, v)]
  BY DEF applyOp
<1>3. \A v \in D : Shown(ov, bs, v) \in Nat
  BY <1>1 DEF Shown, Values
<1>4. \A v \in DOMAIN ov : Shown(ov, bs, v) = ov[v]
  BY DEF Shown
<1> HIDE DEF D
<1>5. new \in [D -> Nat] /\ DOMAIN new = D
  BY <1>2, <1>3
<1>6. new \in Partial
  BY <1>1, <1>5, PartialFacts
<1>7. \A v \in DOMAIN ov : v \in D
  BY DEF D
<1> QED
  BY <1>2, <1>4, <1>5, <1>6, <1>7 DEF D

\* A replay has the rows its operations write, and in them the latest change
\* of each unit.
LEMMA ReplayFacts ==
  ASSUME NEW ops \in SUBSET Ops, NEW bs \in Values,
         \A o \in ops : made[o].unit \in Units
  PROVE  LET new == Replay(ops, bs) IN
         /\ new \in Partial
         /\ \A u \in DOMAIN new : \E o \in ops : u \in UnitsIn(Writes(made[o].unit))
         /\ \A u \in CascadeUnits : LET S == {o \in ops : made[o].unit = u} IN
              S # {} => u \in DOMAIN new /\ new[u] = Highest(S)
<1>1. PICK f : /\ f[0] = [u \in {} |-> 0]
               /\ \A n \in 1 .. MaxOps :
                    f[n] = IF n \in ops THEN applyOp(f[n - 1], bs, made[n].unit, n) ELSE f[n - 1]
               /\ Replay(ops, bs) = f[MaxOps]
  BY ReplayIsFold
<1> DEFINE Part(ov, n) ==
      /\ ov \in Partial
      /\ \A u \in DOMAIN ov : \E o \in ops : u \in UnitsIn(Writes(made[o].unit))
      /\ \A u \in CascadeUnits, o \in ops :
           (/\ o <= n /\ made[o].unit = u
            /\ \A p \in ops : p <= n /\ made[p].unit = u => p <= o)
             => u \in DOMAIN ov /\ ov[u] = o
<1> DEFINE S == {n \in Nat : n <= MaxOps => Part(f[n], n)}
<1>2. 0 \in S
  <2>1. [u \in {} |-> 0] \in [{} -> Nat] /\ DOMAIN [u \in {} |-> 0] = {}
    OBVIOUS
  <2>2. [u \in {} |-> 0] \in Partial
    BY <2>1, PartialFacts
  <2>3. \A o \in ops : ~(o <= 0)
    BY DEF Ops
  <2>4. Part(f[0], 0)
    BY <1>1, <2>1, <2>2, <2>3
  <2> QED
    BY <2>4
<1>3. ASSUME NEW n \in Nat, n \in S PROVE n + 1 \in S
  <2> SUFFICES ASSUME n + 1 <= MaxOps PROVE Part(f[n + 1], n + 1)
    OBVIOUS
  <2>0. n + 1 \in 1 .. MaxOps /\ n + 1 - 1 = n /\ n + 1 \in Nat
    BY ConflictsAssumption
  <2>1. Part(f[n], n)
    BY <1>3, <2>0, ConflictsAssumption
  <2>2. \A o \in ops : o \in Nat /\ (o <= n + 1 => o <= n \/ o = n + 1)
    BY DEF Ops
  <2> DEFINE old == f[n]
             new == f[n + 1]
  <2>3. CASE n + 1 \in ops
    <3> DEFINE w == made[n + 1].unit
    <3>1. new = applyOp(old, bs, w, n + 1) /\ w \in Units
      BY <1>1, <2>0, <2>3
    <3>2. old \in Partial
      BY <2>1
    <3> HIDE DEF w, old, new
    <3>3. /\ new \in Partial
          /\ DOMAIN new = DOMAIN old \cup UnitsIn(Writes(w))
          /\ w \in DOMAIN new => new[w] = n + 1
          /\ \A v \in DOMAIN old : v # w => new[v] = old[v]
      <4>1. LET next == applyOp(old, bs, w, n + 1) IN
            /\ next \in Partial
            /\ DOMAIN next = DOMAIN old \cup UnitsIn(Writes(w))
            /\ w \in DOMAIN next => next[w] = n + 1
            /\ \A v \in DOMAIN old : v # w => next[v] = old[v]
        <5>1. PICK k : k = n + 1 /\ k \in Nat
          BY <2>0
        <5>2. LET next == applyOp(old, bs, w, k) IN
              /\ next \in Partial
              /\ DOMAIN next = DOMAIN old \cup UnitsIn(Writes(w))
              /\ w \in DOMAIN next => next[w] = k
              /\ \A v \in DOMAIN old : v # w => next[v] = old[v]
          BY <5>1, <3>1, <3>2, ApplyFacts
        <5> QED
          BY <5>1, <5>2
      <4> QED
        BY <4>1, <3>1
    <3>4. \A u \in DOMAIN new : \E o \in ops : u \in UnitsIn(Writes(made[o].unit))
      BY <3>3, <2>1, <2>3 DEF w, old
    <3>5. ASSUME NEW u \in CascadeUnits, NEW o \in ops, o <= n + 1, made[o].unit = u,
                 \A p \in ops : p <= n + 1 /\ made[p].unit = u => p <= o
          PROVE  u \in DOMAIN new /\ new[u] = o
      <4>1. CASE u = w
        <5>1. n + 1 <= o
          BY <4>1, <3>5, <2>3 DEF w
        <5>2. o = n + 1
          BY <5>1, <3>5, <2>2
        <5>3. u \in UnitsIn(Writes(u))
          BY UnitFacts DEF UnitsIn
        <5> QED
          BY <5>2, <5>3, <4>1, <3>3
      <4>2. CASE u # w
        <5>1. o # n + 1
          BY <4>2, <3>5 DEF w
        <5>2. o <= n
          BY <5>1, <3>5, <2>2
        <5>3. \A p \in ops : p <= n /\ made[p].unit = u => p <= o
          BY <3>5, <2>2
        <5>4. u \in DOMAIN old /\ old[u] = o
          BY <5>2, <5>3, <3>5, <2>1 DEF old
        <5> QED
          BY <5>4, <4>2, <3>3
      <4> QED
        BY <4>1, <4>2
    <3>6. Part(new, n + 1)
      BY <3>3, <3>4, <3>5
    <3> QED
      BY <3>6 DEF new
  <2>4. CASE n + 1 \notin ops
    <3>1. new = old
      BY <1>1, <2>0, <2>4
    <3>2. \A o \in ops : o <= n + 1 <=> o <= n
      BY <2>2, <2>4
    <3> QED
      BY <3>1, <3>2, <2>1
  <2> QED
    BY <2>3, <2>4
<1>4. MaxOps \in S
  <2> HIDE DEF S
  <2> QED
    BY <1>2, <1>3, SetInduction, ConflictsAssumption
<1>5. Part(f[MaxOps], MaxOps)
  BY <1>4, ConflictsAssumption
<1>6. ASSUME NEW u \in CascadeUnits, {o \in ops : made[o].unit = u} # {}
      PROVE  LET T == {o \in ops : made[o].unit = u} IN
             u \in DOMAIN f[MaxOps] /\ f[MaxOps][u] = Highest(T)
  <2> DEFINE T == {o \in ops : made[o].unit = u}
  <2>1. T \in SUBSET Ops /\ T # {}
    BY <1>6
  <2>2. Highest(T) \in T /\ \A m \in T : m <= Highest(T)
    <3> HIDE DEF T
    <3> QED
      BY <2>1, HighestIsLast
  <2>3. PICK h : h = Highest(T)
    OBVIOUS
  <2>4. h \in ops /\ made[h].unit = u /\ \A p \in ops : made[p].unit = u => p <= h
    BY <2>2, <2>3
  <2>5. h <= MaxOps
    BY <2>4, ConflictsAssumption DEF Ops
  <2>6. u \in DOMAIN f[MaxOps] /\ f[MaxOps][u] = h
    BY <2>4, <2>5, <1>5
  <2> QED
    BY <2>3, <2>6
<1>7. Replay(ops, bs) = f[MaxOps]
  BY <1>1
<1>8. f[MaxOps] \in Partial /\ \A u \in DOMAIN f[MaxOps] : \E o \in ops : u \in UnitsIn(Writes(made[o].unit))
  BY <1>5
<1> QED
  BY <1>7, <1>8, <1>6

-----------------------------------------------------------------------------
(* A request                                                               *)

LEMMA ServerFields ==
  /\ \A s \in Servers :
       /\ \A u \in Units : s.held[u] \in Nat
       /\ \A r \in Rows : s.stamp[r] \in Nat
       /\ \A u \in OptionUnits : s.options_seq[u] \in Nat
       /\ \A i \in Ops : /\ s.decided[i].verdict \in {"none", "applied", "rejected"}
                         /\ s.decided[i].at \in Nat /\ s.decided[i].seq \in Nat
                         /\ s.decided[i].met \in Nat
  /\ OptionUnits \subseteq Units
BY DEF Servers, Values, Decisions, OptionUnits

LEMMA MadeFields ==
  ASSUME DeviceTypes
  PROVE  /\ DOMAIN made = 1 .. Len(made) /\ Len(made) \in Nat
         /\ \A i \in DOMAIN made :
              /\ i \in Ops /\ i \in Nat /\ i # 0
              /\ made[i] \in Made
              /\ made[i].device \in Devices /\ made[i].unit \in Units
              /\ made[i].at \in Nat /\ made[i].seen \in Nat /\ made[i].known \in Nat
<1>1. /\ DOMAIN made = 1 .. Len(made) /\ Len(made) \in Nat /\ Len(made) <= MaxOps
      /\ \A i \in 1 .. Len(made) : made[i] \in Made
  BY DEF DeviceTypes
<1>2. \A i \in 1 .. Len(made) : i \in Ops /\ i \in Nat /\ i # 0
  BY <1>1, ConflictsAssumption DEF Ops
<1> QED
  BY <1>1, <1>2 DEF Made

LEMMA ClampType ==
  ASSUME NEW at \in Nat, NEW t \in Nat
  PROVE  clamp(at, t) \in Nat
BY ConflictsAssumption DEF clamp

\* What deciding one operation changes.
LEMMA DecideFacts ==
  ASSUME NEW s \in Servers, NEW o \in Ops, NEW q \in Nat, NEW t \in Nat,
         made[o] \in Made
  PROVE  LET u == made[o].unit
             new == Decide(s, o, q, t)
         IN
         /\ new \in Servers
         /\ \A i \in Ops : i # o => new.decided[i] = s.decided[i]
         /\ new.decided[o].seq = q /\ new.decided[o].met = s.held[u]
         /\ new.decided[o].at = clamp(made[o].at, t)
         /\ Wins(s, o, t) =>
              /\ new.decided[o].verdict = "applied"
              /\ \A v \in Units : new.held[v] = IF v = u THEN o ELSE s.held[v]
              /\ \A r \in Rows : new.stamp[r] = IF r \in Stamped(u) THEN q ELSE s.stamp[r]
              /\ \A v \in OptionUnits :
                   new.options_seq[v] = IF v = u THEN q ELSE s.options_seq[v]
         /\ ~Wins(s, o, t) =>
              /\ new.decided[o].verdict = "rejected"
              /\ new.held = s.held /\ new.stamp = s.stamp /\ new.options_seq = s.options_seq
<1> DEFINE u == made[o].unit
           at == clamp(made[o].at, t)
           new == Decide(s, o, q, t)
           verdict(v) == [s.decided EXCEPT ![o] = [verdict |-> v, at |-> at, seq |-> q,
                                                   met |-> s.held[u]]]
<1>1. u \in Units /\ made[o].at \in Nat
  BY DEF Made
<1>2. at \in Nat
  BY <1>1, ClampType
<1>3. s.held[u] \in Nat
  BY <1>1, ServerFields
<1>4. /\ s.held \in Values /\ s.stamp \in [Rows -> Nat]
      /\ s.options_seq \in [OptionUnits -> Nat] /\ s.decided \in [Ops -> Decisions]
      /\ s = [held |-> s.held, stamp |-> s.stamp, options_seq |-> s.options_seq, decided |-> s.decided]
  BY DEF Servers
<1>w. o \in Nat
  BY ConflictsAssumption DEF Ops
<1>5. ASSUME NEW v \in {"applied", "rejected"}
      PROVE  /\ verdict(v) \in [Ops -> Decisions]
             /\ verdict(v)[o].verdict = v /\ verdict(v)[o].at = at
             /\ verdict(v)[o].seq = q /\ verdict(v)[o].met = s.held[u]
             /\ \A i \in Ops : i # o => verdict(v)[i] = s.decided[i]
  <2>1. [verdict |-> v, at |-> at, seq |-> q, met |-> s.held[u]] \in Decisions
    BY <1>2, <1>3 DEF Decisions
  <2> QED
    BY <2>1, <1>4
<1>6. CASE Wins(s, o, t)
  <2> DEFINE H == [s.held EXCEPT ![u] = o]
             T == [r \in Rows |-> IF r \in Stamped(u) THEN q ELSE s.stamp[r]]
             P == [v \in OptionUnits |-> IF v = u THEN q ELSE s.options_seq[v]]
             D == verdict("applied")
  <2>1. new = [held |-> H, stamp |-> T, options_seq |-> P, decided |-> D]
    BY <1>6 DEF Decide
  <2>2. H \in Values /\ \A v \in Units : H[v] = IF v = u THEN o ELSE s.held[v]
    BY <1>1, <1>4, <1>w DEF Values
  <2>3. T \in [Rows -> Nat] /\ P \in [OptionUnits -> Nat]
    BY <1>4
  <2>4. D \in [Ops -> Decisions]
    BY <1>5
  <2>5. /\ \A r \in Rows : T[r] = IF r \in Stamped(u) THEN q ELSE s.stamp[r]
        /\ \A v \in OptionUnits : P[v] = IF v = u THEN q ELSE s.options_seq[v]
    OBVIOUS
  <2>6. /\ D[o].verdict = "applied" /\ D[o].at = at /\ D[o].seq = q /\ D[o].met = s.held[u]
        /\ \A i \in Ops : i # o => D[i] = s.decided[i]
    BY <1>5
  <2> HIDE DEF H, T, P, D, new
  <2>7. new \in Servers
    BY <2>1, <2>2, <2>3, <2>4 DEF Servers
  <2>8. new.held = H /\ new.stamp = T /\ new.options_seq = P /\ new.decided = D
    BY <2>1
  <2> HIDE DEF verdict, u, at
  <2>9. /\ \A i \in Ops : i # o => new.decided[i] = s.decided[i]
        /\ new.decided[o].seq = q /\ new.decided[o].met = s.held[u]
        /\ new.decided[o].at = at
        /\ new.decided[o].verdict = "applied"
        /\ \A v \in Units : new.held[v] = IF v = u THEN o ELSE s.held[v]
        /\ \A r \in Rows : new.stamp[r] = IF r \in Stamped(u) THEN q ELSE s.stamp[r]
        /\ \A v \in OptionUnits : new.options_seq[v] = IF v = u THEN q ELSE s.options_seq[v]
    BY <2>2, <2>5, <2>6, <2>8
  <2> QED
    BY <2>7, <2>9, <1>6 DEF new, u, at
<1>7. CASE ~Wins(s, o, t)
  <2> DEFINE D == verdict("rejected")
  <2>1. new = [s EXCEPT !.decided = D]
    BY <1>7 DEF Decide
  <2>4. D \in [Ops -> Decisions]
    BY <1>5
  <2>6. /\ D[o].verdict = "rejected" /\ D[o].at = at /\ D[o].seq = q /\ D[o].met = s.held[u]
        /\ \A i \in Ops : i # o => D[i] = s.decided[i]
    BY <1>5
  <2> HIDE DEF D, new
  <2>7. new = [held |-> s.held, stamp |-> s.stamp, options_seq |-> s.options_seq, decided |-> D]
    BY <2>1, <1>4
  <2>8. new \in Servers
    BY <2>7, <1>4, <2>4 DEF Servers
  <2>9. new.held = s.held /\ new.stamp = s.stamp /\ new.options_seq = s.options_seq /\ new.decided = D
    BY <2>7
  <2> HIDE DEF verdict, u, at
  <2> QED
    BY <2>6, <2>8, <2>9, <1>7 DEF new, u, at
<1> QED
  BY <1>6, <1>7

\* Deciding one more operation keeps what is true of a server.
LEMMA DecideKeeps ==
  ASSUME DeviceTypes, NEW s \in Servers, NEW o \in DOMAIN made, NEW q \in Nat, NEW t \in Nat,
         ServerInv(s), RequestsBy(s, q), s.decided[o].verdict = "none",
         \A i \in DOMAIN made : made[i].seen < q
  PROVE  ServerInv(Decide(s, o, q, t)) /\ RequestsBy(Decide(s, o, q, t), q)
<1> DEFINE new == Decide(s, o, q, t)
           u == made[o].unit
           h == s.held[u]
<1>1. /\ o \in Ops /\ o \in Nat /\ o # 0 /\ made[o] \in Made /\ u \in Units /\ made[o].at \in Nat
      /\ made[o].seen \in Nat
      /\ \A i \in DOMAIN made : i \in Ops /\ made[i].unit \in Units /\ made[i].seen \in Nat
  BY MadeFields
<1>0. o \in Ops /\ made[o] \in Made
  BY <1>1
<1>2. /\ new \in Servers
      /\ \A i \in Ops : i # o => new.decided[i] = s.decided[i]
      /\ new.decided[o].seq = q /\ new.decided[o].met = h
      /\ new.decided[o].at = clamp(made[o].at, t)
  BY <1>0, DecideFacts
<1>3. Wins(s, o, t) =>
        /\ new.decided[o].verdict = "applied"
        /\ \A v \in Units : new.held[v] = IF v = u THEN o ELSE s.held[v]
        /\ \A r \in Rows : new.stamp[r] = IF r \in Stamped(u) THEN q ELSE s.stamp[r]
        /\ \A v \in OptionUnits :
             new.options_seq[v] = IF v = u THEN q ELSE s.options_seq[v]
  BY <1>0, DecideFacts
<1>4. ~Wins(s, o, t) =>
        /\ new.decided[o].verdict = "rejected"
        /\ new.held = s.held /\ new.stamp = s.stamp /\ new.options_seq = s.options_seq
  BY <1>0, DecideFacts
<1> HIDE DEF new
<1>5. /\ \A i \in Ops : s.decided[i].seq <= q
      /\ \A i \in Ops \ DOMAIN made : s.decided[i].verdict = "none"
      /\ \A r \in Rows : s.stamp[r] <= q
      /\ \A i \in DOMAIN made : made[i].seen <= q
  BY DEF RequestsBy
<1>6. new.decided[o].verdict \in {"applied", "rejected"}
  BY <1>3, <1>4
<1>7. \A r \in Rows : new.stamp[r] <= q /\ s.stamp[r] <= new.stamp[r]
  <2>1. \A r \in Rows : s.stamp[r] \in Nat /\ s.stamp[r] <= q
    BY <1>5, ServerFields
  <2> QED
    BY <1>3, <1>4, <2>1
<1>8. RequestsBy(new, q)
  <2>1. ASSUME NEW i \in Ops PROVE new.decided[i].seq <= q
    BY <1>2, <1>5, <2>1
  <2>2. ASSUME NEW i \in Ops \ DOMAIN made PROVE new.decided[i].verdict = "none"
    BY <1>2, <1>5
  <2> QED
    BY <2>1, <2>2, <1>5, <1>7 DEF RequestsBy
\* What was held is held with the same decision, or this operation is.
<1>9. ASSUME NEW v \in Units, s.held[v] # 0
      PROVE  /\ s.held[v] \in DOMAIN made /\ made[s.held[v]].unit = v
             /\ s.held[v] # o /\ s.held[v] \in Ops
             /\ s.decided[s.held[v]].verdict = "applied"
             /\ new.decided[s.held[v]] = s.decided[s.held[v]]
             /\ s.decided[s.held[v]].seq <= CurrentSeq(s, v)
             /\ s.decided[s.held[v]].seq <= s.stamp[RowOf(v)]
             /\ v \in {"grade", "options", "defaults"} => s.decided[s.held[v]].seq = CurrentSeq(s, v)
             /\ s.decided[s.held[v]].seq \in Nat
  <2>1. /\ s.held[v] \in DOMAIN made
        /\ made[s.held[v]].unit = v
        /\ s.decided[s.held[v]].verdict = "applied"
        /\ s.decided[s.held[v]].seq <= CurrentSeq(s, v)
        /\ s.decided[s.held[v]].seq <= s.stamp[RowOf(v)]
        /\ v \in {"grade", "options", "defaults"} => s.decided[s.held[v]].seq = CurrentSeq(s, v)
    BY <1>9 DEF ServerInv, HoldsApplied, SeqOf
  <2>2. s.held[v] # o /\ s.held[v] \in Ops
    BY <2>1, <1>1
  <2> QED
    BY <2>1, <2>2, <1>2, ServerFields
<1>10. HoldsApplied(new)
  <2> SUFFICES ASSUME NEW v \in Units, new.held[v] # 0
      PROVE /\ new.held[v] \in DOMAIN made
            /\ made[new.held[v]].unit = v
            /\ new.decided[new.held[v]].verdict = "applied"
            /\ SeqOf(new, v) <= CurrentSeq(new, v)
            /\ SeqOf(new, v) <= new.stamp[RowOf(v)]
            /\ v \in {"grade", "options", "defaults"} => SeqOf(new, v) = CurrentSeq(new, v)
    BY DEF HoldsApplied
  <2>0. SeqOf(new, v) = new.decided[new.held[v]].seq
    BY DEF SeqOf
  <2>1. CASE Wins(s, o, t) /\ v = u
    <3>1. new.held[v] = o
      BY <1>3, <2>1
    <3>2. RowOf(u) \in Stamped(u) /\ RowOf(u) \in Rows
      BY <1>1, UnitFacts
    <3>3. new.stamp[RowOf(v)] = q
      BY <3>2, <2>1, <1>3
    <3>4. CurrentSeq(new, v) = q
      BY <3>3, <2>1, <1>3 DEF CurrentSeq
    <3>5. SeqOf(new, v) = q
      BY <2>0, <3>1, <1>2
    <3>6. q <= q
      OBVIOUS
    <3> QED
      BY <3>1, <3>3, <3>4, <3>5, <3>6, <2>1, <1>3
  <2>2. CASE Wins(s, o, t) /\ v # u
    <3>1. new.held[v] = s.held[v] /\ s.held[v] # 0
      BY <1>3, <2>2
    <3>2. SeqOf(new, v) = s.decided[s.held[v]].seq
      BY <2>0, <3>1, <1>9
    <3>3. RowOf(v) \in Rows
      BY UnitFacts
    <3>4. s.stamp[RowOf(v)] \in Nat /\ new.stamp[RowOf(v)] \in Nat
      BY <3>3, <1>2, ServerFields
    <3>5. s.stamp[RowOf(v)] <= new.stamp[RowOf(v)]
      BY <3>3, <1>7
    <3>6. SeqOf(new, v) <= new.stamp[RowOf(v)]
      BY <3>1, <3>2, <3>4, <3>5, <1>9
    <3>7. CASE v \in OptionUnits
      <4>1. CurrentSeq(new, v) = CurrentSeq(s, v)
        BY <3>7, <1>3, <2>2 DEF CurrentSeq
      <4> QED
        BY <4>1, <3>1, <3>2, <3>6, <1>9
    <3>8. CASE v \notin OptionUnits
      <4>1. CurrentSeq(new, v) = new.stamp[RowOf(v)] /\ CurrentSeq(s, v) = s.stamp[RowOf(v)]
        BY <3>8 DEF CurrentSeq
      <4>2. v \in {"grade", "options", "defaults"} => v = "grade"
        BY <3>8 DEF OptionUnits
      <4>3. ASSUME v = "grade" PROVE new.stamp[RowOf(v)] = s.stamp[RowOf(v)]
        <5>1. RowOf(v) = "question"
          BY <4>3 DEF RowOf
        <5>2. "question" \notin Stamped(u)
          BY <1>1, <2>2, <4>3, UnitFacts
        <5> QED
          BY <5>1, <5>2, <3>3, <2>2, <1>3
      <4> QED
        BY <4>1, <4>2, <4>3, <3>1, <3>2, <3>6, <1>9
    <3> QED
      BY <3>7, <3>8
  <2>3. CASE ~Wins(s, o, t)
    <3>1. new.held[v] = s.held[v] /\ s.held[v] # 0
      BY <1>4, <2>3
    <3>2. SeqOf(new, v) = s.decided[s.held[v]].seq
      BY <2>0, <3>1, <1>9
    <3>3. CurrentSeq(new, v) = CurrentSeq(s, v) /\ new.stamp[RowOf(v)] = s.stamp[RowOf(v)]
      BY <1>4, <2>3 DEF CurrentSeq
    <3> QED
      BY <3>1, <3>2, <3>3, <1>9
  <2> QED
    BY <2>1, <2>2, <2>3
<1>11. StampsApplied(new)
  <2> SUFFICES ASSUME NEW i \in DOMAIN made, new.decided[i].verdict = "applied",
                      NEW r \in Stamped(made[i].unit)
      PROVE  new.decided[i].seq <= new.stamp[r]
    BY DEF StampsApplied
  <2>1. i \in Ops /\ r \in Rows
    BY <1>1, UnitFacts
  <2>2. CASE i = o
    <3>1. Wins(s, o, t)
      BY <1>4, <2>2
    <3>2. new.stamp[r] = q
      BY <3>1, <1>3, <2>1, <2>2
    <3>3. q <= q
      OBVIOUS
    <3> QED
      BY <3>2, <3>3, <2>2, <1>2
  <2>3. CASE i # o
    <3>1. new.decided[i] = s.decided[i]
      BY <2>1, <2>3, <1>2
    <3>2. s.decided[i].seq <= s.stamp[r]
      BY <3>1 DEF ServerInv, StampsApplied
    <3>3. s.stamp[r] <= new.stamp[r] /\ s.stamp[r] \in Nat /\ new.stamp[r] \in Nat
          /\ s.decided[i].seq \in Nat
      BY <2>1, <1>2, <1>7, ServerFields
    <3> QED
      BY <3>1, <3>2, <3>3
  <2> QED
    BY <2>2, <2>3
<1>12. AllJudged(new)
  <2> SUFFICES ASSUME NEW i \in DOMAIN made, new.decided[i].verdict # "none" PROVE Judged(new, i)
    BY DEF AllJudged
  <2>1. CASE i # o
    <3>1. i \in Ops /\ new.decided[i] = s.decided[i]
      BY <1>1, <1>2, <2>1
    <3>2. Judged(s, i)
      BY <3>1 DEF ServerInv, AllJudged
    <3>3. s.decided[i].met # 0 =>
            /\ s.decided[i].met \in DOMAIN made
            /\ s.decided[i].met \in Ops
            /\ new.decided[s.decided[i].met] = s.decided[s.decided[i].met]
      BY <3>2, <1>1, <1>2 DEF Judged
    <3> QED
      BY <3>1, <3>2, <3>3 DEF Judged
  <2>2. CASE i = o
    <3>1. CASE h = 0
      <4>1. Wins(s, o, t)
        BY <3>1 DEF Wins
      <4> QED
        BY <4>1, <3>1, <2>2, <1>2, <1>3 DEF Judged
    <3>2. CASE h # 0
      <4>1. /\ h \in DOMAIN made /\ h \in Ops
            /\ s.decided[h].verdict = "applied" /\ new.decided[h] = s.decided[h]
            /\ s.decided[h].seq <= CurrentSeq(s, u) /\ s.decided[h].seq \in Nat
            /\ u \in {"grade", "options", "defaults"} => s.decided[h].seq = CurrentSeq(s, u)
        BY <3>2, <1>1, <1>9
      <4>2. CurrentSeq(s, u) \in Nat
        BY <1>1, ServerFields, UnitFacts DEF CurrentSeq
      <4>3. ASSUME Wins(s, o, t)
            PROVE  \/ made[h].device = made[o].device
                   \/ h = made[o].known
                   \/ s.decided[h].at < clamp(made[o].at, t)
        <5>1. \/ made[h].device = made[o].device
              \/ CurrentSeq(s, u) <= made[o].seen
              \/ clamp(made[o].at, t) > s.decided[h].at
          BY <4>3, <3>2 DEF Wins
        <5>2. CASE CurrentSeq(s, u) <= made[o].seen
          <6>1. SeqOf(s, u) <= made[o].seen
            BY <5>2, <4>1, <4>2, <1>1, <3>2 DEF SeqOf
          <6>2. made[o].known = s.held[u]
            BY <6>1 DEF ServerInv, KnewHeld
          <6> QED
            BY <6>2
        <5>3. CASE clamp(made[o].at, t) > s.decided[h].at
          <6>1. clamp(made[o].at, t) \in Nat /\ s.decided[h].at \in Nat
            BY <1>1, <4>1, ClampType, ServerFields
          <6> QED
            BY <5>3, <6>1
        <5> QED
          BY <5>1, <5>2, <5>3
      <4>4. ASSUME ~Wins(s, o, t), u \in {"grade", "options", "defaults"}
            PROVE  made[o].seen < s.decided[h].seq
        <5>1. ~(CurrentSeq(s, u) <= made[o].seen)
          BY <4>4 DEF Wins
        <5> QED
          BY <5>1, <4>1, <4>2, <4>4, <1>1
      <4>5. new.decided[i].verdict = "applied" => Wins(s, o, t)
        BY <2>2, <1>4
      <4>6. new.decided[i].verdict = "rejected" => ~Wins(s, o, t)
        BY <2>2, <1>3
      <4>7. new.decided[h].verdict # "none"
        BY <4>1
      <4>8. /\ new.decided[i].met = h /\ new.decided[i].at = clamp(made[o].at, t)
            /\ new.decided[h] = s.decided[h]
        BY <2>2, <1>2, <4>1
      <4> QED
        BY <4>1, <4>3, <4>4, <4>5, <4>6, <4>7, <4>8, <3>2, <2>2 DEF Judged
    <3> QED
      BY <3>1, <3>2
  <2> QED
    BY <2>1, <2>2
<1>13. KnewHeld(new)
  <2> SUFFICES ASSUME NEW i \in DOMAIN made, new.decided[i].verdict = "none",
                      SeqOf(new, made[i].unit) <= made[i].seen
      PROVE  made[i].known = new.held[made[i].unit]
    BY DEF KnewHeld
  <2> DEFINE v == made[i].unit
  <2>1. i # o /\ i \in Ops /\ s.decided[i].verdict = "none" /\ v \in Units
    BY <1>1, <1>2, <1>6
  <2>2. CASE new.held[v] = s.held[v]
    <3>1. SeqOf(new, v) = SeqOf(s, v)
      BY <2>2, <1>9, <2>1 DEF SeqOf
    <3> QED
      BY <3>1, <2>1, <2>2 DEF ServerInv, KnewHeld
  <2>3. CASE new.held[v] # s.held[v]
    <3>1. new.held[v] = o
      BY <2>3, <2>1, <1>3, <1>4
    <3>2. SeqOf(new, v) = q
      BY <3>1, <1>1, <1>2 DEF SeqOf
    <3>3. made[i].seen < q /\ made[i].seen \in Nat
      BY <1>1
    <3> QED
      BY <3>2, <3>3
  <2> QED
    BY <2>2, <2>3
<1> QED
  BY <1>8, <1>10, <1>11, <1>12, <1>13 DEF new, ServerInv

\* What the server s is after a request with sequence q that decided ops.
Outcome(s, ops, q) ==
  /\ s \in Servers /\ ServerInv(s) /\ RequestsBy(s, q)
  /\ \A i \in Ops : decided[i].verdict # "none" \/ i \notin ops => s.decided[i] = decided[i]
  /\ \A i \in ops : /\ s.decided[i].verdict # "none"
                    /\ decided[i].verdict = "none" => s.decided[i].seq = q
  /\ \A u \in Units : s.held[u] = held[u] \/ (s.held[u] \in ops /\ s.decided[s.held[u]].seq = q)
  /\ \A r \in Rows : /\ stamp[r] <= s.stamp[r]
                     /\ \/ s.stamp[r] = stamp[r]
                        \/ s.stamp[r] = q /\ \E o \in ops : r \in Stamped(made[o].unit)

LEMMA OutcomeStart ==
  ASSUME DeviceTypes, ServerTypes, ServerInv(Present), RequestsBy(Present, sync_seq)
  PROVE  Outcome(Present, {}, sync_seq + 1)
<1>1. /\ held \in Values /\ stamp \in [Rows -> Nat] /\ options_seq \in [OptionUnits -> Nat]
      /\ decided \in [Ops -> Decisions] /\ sync_seq \in Nat
  BY DEF ServerTypes
<1>2. Present \in Servers
  BY <1>1 DEF Present, Servers
<1>3. /\ Present.held = held /\ Present.stamp = stamp /\ Present.decided = decided
  BY DEF Present
<1>4. RequestsBy(Present, sync_seq + 1)
  <2>1. /\ \A i \in Ops : Present.decided[i].seq <= sync_seq /\ Present.decided[i].seq \in Nat
        /\ \A i \in Ops \ DOMAIN made : Present.decided[i].verdict = "none"
        /\ \A r \in Rows : Present.stamp[r] <= sync_seq /\ Present.stamp[r] \in Nat
        /\ \A i \in DOMAIN made : made[i].seen <= sync_seq /\ made[i].seen \in Nat
    BY <1>2, ServerFields, MadeFields DEF RequestsBy
  <2>2. \A n \in Nat : n <= sync_seq => n <= sync_seq + 1
    BY <1>1
  <2> QED
    BY <2>1, <2>2 DEF RequestsBy
<1>5. \A r \in Rows : stamp[r] <= stamp[r]
  BY <1>1
<1> HIDE DEF Present
<1> QED
  BY <1>2, <1>3, <1>4, <1>5 DEF Outcome

LEMMA OutcomeStep ==
  ASSUME DeviceTypes, ServerTypes, NEW s, NEW ops \in SUBSET DOMAIN made, NEW q \in Nat,
         Outcome(s, ops, q), NEW o \in DOMAIN made, o \notin ops, NEW t \in Nat,
         \A i \in DOMAIN made : made[i].seen < q
  PROVE  LET new == IF decided[o].verdict = "none" THEN Decide(s, o, q, t) ELSE s
         IN  Outcome(new, ops \cup {o}, q)
<1>1. /\ o \in Ops /\ o \in Nat /\ o # 0 /\ made[o] \in Made /\ made[o].unit \in Units
  BY MadeFields
<1>2. /\ s \in Servers /\ ServerInv(s) /\ RequestsBy(s, q)
      /\ \A i \in Ops : decided[i].verdict # "none" \/ i \notin ops => s.decided[i] = decided[i]
      /\ \A i \in ops : /\ s.decided[i].verdict # "none"
                        /\ decided[i].verdict = "none" => s.decided[i].seq = q
      /\ \A u \in Units : s.held[u] = held[u] \/ (s.held[u] \in ops /\ s.decided[s.held[u]].seq = q)
      /\ \A r \in Rows : /\ stamp[r] <= s.stamp[r]
                         /\ \/ s.stamp[r] = stamp[r]
                            \/ s.stamp[r] = q /\ \E p \in ops : r \in Stamped(made[p].unit)
  BY DEF Outcome
<1>w. \A i \in ops : i \in Ops
  BY MadeFields
<1>x. s.decided[o] = decided[o]
  BY <1>1, <1>2
<1>3. CASE decided[o].verdict # "none"
  <2>1. \A i \in ops \cup {o} : /\ s.decided[i].verdict # "none"
                                /\ decided[i].verdict = "none" => s.decided[i].seq = q
    BY <1>2, <1>3, <1>x
  <2>2. \A i \in Ops : decided[i].verdict # "none" \/ i \notin ops \cup {o} => s.decided[i] = decided[i]
    BY <1>2
  <2> QED
    BY <1>2, <1>3, <2>1, <2>2 DEF Outcome
<1>4. CASE decided[o].verdict = "none"
  <2> DEFINE new == Decide(s, o, q, t)
             u == made[o].unit
  <2>1. ServerInv(new) /\ RequestsBy(new, q)
    BY <1>2, <1>4, <1>x, DecideKeeps
  <2>0. o \in Ops /\ made[o] \in Made /\ s \in Servers
    BY <1>1, <1>2
  <2>2. /\ new \in Servers
        /\ \A i \in Ops : i # o => new.decided[i] = s.decided[i]
        /\ new.decided[o].seq = q
    BY <2>0, DecideFacts
  <2>3. Wins(s, o, t) =>
          /\ new.decided[o].verdict = "applied"
          /\ \A v \in Units : new.held[v] = IF v = u THEN o ELSE s.held[v]
          /\ \A r \in Rows : new.stamp[r] = IF r \in Stamped(u) THEN q ELSE s.stamp[r]
    BY <2>0, DecideFacts
  <2>4. ~Wins(s, o, t) =>
          /\ new.decided[o].verdict = "rejected"
          /\ new.held = s.held /\ new.stamp = s.stamp
    BY <2>0, DecideFacts
  <2> HIDE DEF new
  <2>5. ASSUME NEW i \in Ops, decided[i].verdict # "none" \/ i \notin ops \cup {o}
        PROVE  new.decided[i] = decided[i]
    BY <2>5, <2>2, <1>2, <1>4
  <2>6. ASSUME NEW i \in ops \cup {o}
        PROVE  /\ new.decided[i].verdict # "none"
               /\ decided[i].verdict = "none" => new.decided[i].seq = q
    <3>1. CASE i = o
      BY <3>1, <2>2, <2>3, <2>4
    <3>2. CASE i # o
      BY <3>2, <2>2, <1>2, <1>w
    <3> QED
      BY <3>1, <3>2
  <2>7. ASSUME NEW v \in Units
        PROVE  new.held[v] = held[v] \/ (new.held[v] \in ops \cup {o} /\ new.decided[new.held[v]].seq = q)
    <3>1. CASE new.held[v] = o
      BY <3>1, <2>2
    <3>2. CASE new.held[v] # o
      <4>1. new.held[v] = s.held[v]
        BY <3>2, <2>3, <2>4
      <4>2. s.held[v] \in ops => new.decided[s.held[v]] = s.decided[s.held[v]]
        BY <2>2, <1>w
      <4> QED
        BY <4>1, <4>2, <1>2
    <3> QED
      BY <3>1, <3>2
  <2>8. ASSUME NEW r \in Rows
        PROVE  /\ stamp[r] <= new.stamp[r]
               /\ \/ new.stamp[r] = stamp[r]
                  \/ new.stamp[r] = q /\ \E p \in ops \cup {o} : r \in Stamped(made[p].unit)
    <3>1. CASE Wins(s, o, t) /\ r \in Stamped(u)
      <4>1. new.stamp[r] = q
        BY <3>1, <2>3
      <4>2. s.stamp[r] <= q /\ s.stamp[r] \in Nat /\ stamp[r] \in Nat /\ stamp[r] <= s.stamp[r]
        BY <1>2, ServerFields DEF RequestsBy, ServerTypes
      <4> QED
        BY <4>1, <4>2, <3>1
    <3>2. CASE ~(Wins(s, o, t) /\ r \in Stamped(u))
      <4>1. new.stamp[r] = s.stamp[r]
        BY <3>2, <2>3, <2>4
      <4> QED
        BY <4>1, <1>2
    <3> QED
      BY <3>1, <3>2
  <2>9. Outcome(new, ops \cup {o}, q)
    BY <2>1, <2>2, <2>5, <2>6, <2>7, <2>8 DEF Outcome
  <2> QED
    BY <2>9, <1>4 DEF new
<1> QED
  BY <1>3, <1>4

\* A request: the steps of the fold, one operation at a time.
LEMMA ServedFacts ==
  ASSUME DeviceTypes, ServerTypes, ServerInv(Present), RequestsBy(Present, sync_seq),
         NEW ops \in SUBSET DOMAIN made, NEW t \in Nat
  PROVE  Outcome(Served(ops, sync_seq + 1, t), ops, sync_seq + 1)
<1>0. sync_seq \in Nat
  BY DEF ServerTypes
<1>1. PICK q \in Nat : q = sync_seq + 1
  BY <1>0
<1>2. ASSUME NEW i \in DOMAIN made PROVE made[i].seen < q
  <2>1. made[i].seen <= sync_seq /\ made[i].seen \in Nat
    BY MadeFields DEF RequestsBy
  <2> QED
    BY <2>1, <1>0, <1>1
<1>3. PICK f : /\ f[0] = Present
               /\ \A n \in 1 .. MaxOps :
                     f[n] = IF n \in ops /\ decided[n].verdict = "none"
                            THEN Decide(f[n - 1], n, q, t) ELSE f[n - 1]
               /\ Served(ops, q, t) = f[MaxOps]
  BY ServedIsFold
<1> DEFINE upto(n) == {i \in ops : i <= n}
           S == {n \in Nat : n <= MaxOps => Outcome(f[n], upto(n), q)}
<1>4. \A i \in ops : i \in Nat /\ i # 0 /\ i <= MaxOps
  BY MadeFields, ConflictsAssumption DEF Ops
<1>5. 0 \in S
  <2>1. upto(0) = {}
    BY <1>4
  <2>2. Outcome(Present, {}, q)
    BY <1>1, OutcomeStart
  <2> HIDE DEF upto
  <2> QED
    BY <2>1, <2>2, <1>3
<1>6. ASSUME NEW n \in Nat, n \in S PROVE n + 1 \in S
  <2> SUFFICES ASSUME n + 1 <= MaxOps PROVE Outcome(f[n + 1], upto(n + 1), q)
    OBVIOUS
  <2>1. PICK m \in Nat : m = n + 1
    OBVIOUS
  <2>2. m \in 1 .. MaxOps /\ m - 1 = n /\ n <= MaxOps
    BY <2>1, ConflictsAssumption
  <2>3. Outcome(f[n], upto(n), q)
    BY <1>6, <2>2
  <2>4. f[m] = IF m \in ops /\ decided[m].verdict = "none" THEN Decide(f[n], m, q, t) ELSE f[n]
    BY <1>3, <2>2
  <2>5. CASE m \in ops
    <3>1. upto(m) = upto(n) \cup {m}
      BY <2>1, <2>5, <1>4
    <3>2. m \in DOMAIN made /\ m \notin upto(n) /\ upto(n) \in SUBSET DOMAIN made
      BY <2>1, <2>5
    <3> HIDE DEF upto
    <3>3. f[m] = IF decided[m].verdict = "none" THEN Decide(f[n], m, q, t) ELSE f[n]
      BY <2>4, <2>5
    <3>4. LET new == IF decided[m].verdict = "none" THEN Decide(f[n], m, q, t) ELSE f[n]
          IN  Outcome(new, upto(n) \cup {m}, q)
      BY <3>2, <2>3, <1>2, OutcomeStep
    <3>5. Outcome(f[m], upto(m), q)
      BY <3>1, <3>3, <3>4
    <3> QED
      BY <3>5, <2>1
  <2>6. CASE m \notin ops
    <3>1. upto(m) = upto(n)
      BY <2>1, <2>6, <1>4
    <3>2. f[m] = f[n]
      BY <2>4, <2>6
    <3> QED
      BY <3>1, <3>2, <2>1, <2>3
  <2> QED
    BY <2>5, <2>6
<1>7. MaxOps \in S
  <2> HIDE DEF S
  <2> QED
    BY <1>5, <1>6, SetInduction, ConflictsAssumption
<1>8. upto(MaxOps) = ops
  BY <1>4
<1>9. Outcome(f[MaxOps], upto(MaxOps), q)
  <2> HIDE DEF upto
  <2> QED
    BY <1>7, ConflictsAssumption
<1> HIDE DEF upto
<1> QED
  BY <1>1, <1>3, <1>8, <1>9

-----------------------------------------------------------------------------
(* What a step leaves alone                                                *)

LEMMA ServerFrame ==
  ASSUME PresentInv, UNCHANGED <<made, server, now>>
  PROVE  PresentInv'
<1>1. /\ made' = made /\ held' = held /\ stamp' = stamp /\ options_seq' = options_seq
      /\ sync_seq' = sync_seq /\ decided' = decided /\ now' = now
  BY DEF server
<1>2. ServerTypes'
  BY <1>1 DEF PresentInv, ServerTypes
<1>3. ServerInv(Present)'
  BY <1>1 DEF PresentInv, ServerInv, HoldsApplied, StampsApplied, AllJudged, Judged, KnewHeld, Present
<1>4. RequestsBy(Present, sync_seq)'
  BY <1>1 DEF PresentInv, RequestsBy, Present
<1> QED
  BY <1>2, <1>3, <1>4 DEF PresentInv

\* A device whose part of the state stays, with the server's.
LEMMA DeviceFrame ==
  ASSUME NEW d \in Devices, DeviceInv(d), UNCHANGED server,
         outbox'[d] = outbox[d], base'[d] = base[d], overlay'[d] = overlay[d],
         cursor'[d] = cursor[d], cycle'[d] = cycle[d], d \in torn => d \in torn',
         \A i \in DOMAIN made : i \in DOMAIN made' /\ made'[i] = made[i]
  PROVE  DeviceInv(d)'
<1>1. /\ held' = held /\ stamp' = stamp /\ sync_seq' = sync_seq /\ decided' = decided
  BY DEF server
<1>2. \A o \in outbox[d] \cup cycle[d].batch : o \in DOMAIN made' /\ made'[o] = made[o]
  BY DEF DeviceInv, BatchInv
<1>3. BatchInv(d)'
  BY <1>1, <1>2 DEF DeviceInv, BatchInv
<1>4. PendingInv(d)'
  BY <1>2 DEF DeviceInv, PendingInv
<1>5. BaseInv(d)'
  <2>1. Present' = Present
    BY DEF server, Present
  <2>2. Written(d)' = Written(d)
    BY DEF Written
  <2>3. BaseInv(d)
    BY DEF DeviceInv
  <2> QED
    BY <1>1, <2>1, <2>2, <2>3 DEF BaseInv
<1>6. AnswerInv(d)'
  <2>1. \A o \in cycle[d].batch : made'[o] = made[o]
    BY <1>2
  <2>2. AnswerInv(d)
    BY DEF DeviceInv
  <2> SUFFICES ASSUME cycle[d].stage # "idle"
      PROVE  /\ \A r \in cycle[d].rows : cursor[d] < stamp[r]
             /\ ~cycle[d].foreign => \A r \in cycle[d].rows \cap CascadeRows :
                  \E o \in cycle[d].batch : made'[o].unit \in CascadeUnits /\ r \in Stamped(made'[o].unit)
             /\ \A o \in cycle[d].batch :
                  decided[o].verdict = "applied" => Stamped(made'[o].unit) \subseteq cycle[d].rows
    BY <1>1 DEF AnswerInv
  <2> QED
    BY <2>1, <2>2 DEF AnswerInv
<1>7. Left(d)' = Left(d)
  BY <1>2 DEF Left
<1>8. OverlayInv(d)'
  BY <1>1, <1>2, <1>7 DEF DeviceInv, OverlayInv
<1> QED
  BY <1>3, <1>4, <1>5, <1>6, <1>8 DEF DeviceInv

LEMMA CycleFields ==
  ASSUME NEW c \in Cycles
  PROVE  /\ c.stage \in Stages /\ c.batch \in SUBSET Ops /\ c.seq \in Nat
         /\ c.rows \in SUBSET Rows /\ c.page \in Partial /\ c.foreign \in BOOLEAN
BY DEF Cycles

LEMMA IdleType == Idle \in Cycles
<1>1. [u \in {} |-> 0] \in [{} -> Nat] /\ {} \in SUBSET Units
  OBVIOUS
<1>2. [u \in {} |-> 0] \in Partial
  BY <1>1, PartialFacts
<1> QED
  BY <1>2 DEF Idle, Cycles, Stages

\* A cycle goes on to its next stage.
LEMMA NextStage ==
  ASSUME cycle \in [Devices -> Cycles], NEW d \in Devices, NEW st \in Stages,
         cycle' = [cycle EXCEPT ![d].stage = st]
  PROVE  /\ cycle' \in [Devices -> Cycles]
         /\ cycle'[d].stage = st /\ cycle'[d].batch = cycle[d].batch
         /\ cycle'[d].seq = cycle[d].seq /\ cycle'[d].rows = cycle[d].rows
         /\ cycle'[d].page = cycle[d].page /\ cycle'[d].foreign = cycle[d].foreign
         /\ \A e \in Devices : e # d => cycle'[e] = cycle[e]
<1>1. cycle[d] \in Cycles
  OBVIOUS
<1>2. [cycle[d] EXCEPT !.stage = st] \in Cycles
  BY <1>1 DEF Cycles
<1>3. cycle'[d] = [cycle[d] EXCEPT !.stage = st] /\ \A e \in Devices : e # d => cycle'[e] = cycle[e]
  OBVIOUS
<1>4. cycle' \in [Devices -> Cycles]
  BY <1>2
<1>5. LET c == [cycle[d] EXCEPT !.stage = st] IN
      /\ c.stage = st /\ c.batch = cycle[d].batch /\ c.seq = cycle[d].seq
      /\ c.rows = cycle[d].rows /\ c.page = cycle[d].page /\ c.foreign = cycle[d].foreign
  BY <1>1 DEF Cycles
<1> QED
  BY <1>3, <1>4, <1>5

\* What a pull makes of the base.
LEMMA PulledFacts ==
  ASSUME DeviceTypes, ValuesMade, NEW d \in Devices, NEW rows
  PROVE  LET new == Pulled(d, rows) IN
         /\ new \in Values
         /\ \A u \in Units :
              /\ new[u] = IF u \in DOMAIN cycle[d].page /\ RowOf(u) \in rows
                          THEN cycle[d].page[u] ELSE base[d][u]
              /\ new[u] <= Len(made)
<1>1. /\ base[d] \in Values /\ cycle[d].page \in Partial
  BY CycleFields DEF DeviceTypes
<1>2. \A u \in Units : base[d][u] \in Nat /\ base[d][u] <= Len(made)
  BY <1>1 DEF Values, ValuesMade
<1>3. \A u \in DOMAIN cycle[d].page : cycle[d].page[u] \in Nat /\ cycle[d].page[u] <= Len(made)
  BY <1>1, PartialFacts DEF ValuesMade
<1> QED
  BY <1>2, <1>3 DEF Pulled, Values

LEMMA SeqOfType ==
  ASSUME DeviceTypes, PresentInv, NEW u \in Units
  PROVE  /\ SeqOf(Present, u) \in Nat /\ SeqOf(Present, u) <= sync_seq
         /\ SeqOf(Present, u) <= stamp[RowOf(u)]
<1>1. Present \in Servers /\ Present.held = held /\ Present.stamp = stamp /\ sync_seq \in Nat
  BY DEF PresentInv, ServerTypes, Present, Servers
<1>2. RowOf(u) \in Rows
  BY UnitFacts
<1>3. stamp[RowOf(u)] \in Nat
  BY <1>1, <1>2, ServerFields
<1>4. CASE held[u] = 0
  BY <1>1, <1>3, <1>4 DEF SeqOf
<1>5. CASE held[u] # 0
  <2>1. held[u] \in DOMAIN made /\ SeqOf(Present, u) <= Present.stamp[RowOf(u)]
    BY <1>1, <1>5 DEF PresentInv, ServerInv, HoldsApplied
  <2>2. held[u] \in Ops
    BY <2>1, MadeFields
  <2>3. SeqOf(Present, u) = Present.decided[held[u]].seq
    BY <1>1, <1>5 DEF SeqOf
  <2>4. Present.decided[held[u]].seq \in Nat
    BY <2>2, <1>1, ServerFields
  <2>5. Present.decided[held[u]].seq <= sync_seq
    BY <2>2 DEF PresentInv, RequestsBy
  <2> QED
    BY <2>1, <2>3, <2>4, <2>5, <1>1
<1> QED
  BY <1>4, <1>5

\* Rows of the page that are pulled are as the request had them.
LEMMA PulledBase ==
  ASSUME IInv, NEW d \in Devices, cycle[d].stage # "idle", NEW rows
  PROVE  \A u \in Units :
           /\ SeqOf(Present, u) <= cursor[d] => Pulled(d, rows)[u] = held[u]
           /\ SeqOf(Present, u) <= cycle[d].seq /\ RowOf(u) \in rows \cup Written(d) =>
                Pulled(d, rows)[u] = held[u]
<1> SUFFICES ASSUME NEW u \in Units
    PROVE  /\ SeqOf(Present, u) <= cursor[d] => Pulled(d, rows)[u] = held[u]
           /\ SeqOf(Present, u) <= cycle[d].seq /\ RowOf(u) \in rows \cup Written(d) =>
                Pulled(d, rows)[u] = held[u]
  OBVIOUS
<1>1. DeviceTypes /\ PresentInv /\ ValuesMade /\ DeviceInv(d)
  BY DEF IInv
<1>2. /\ SeqOf(Present, u) <= cursor[d] => base[d][u] = held[u]
      /\ DOMAIN cycle[d].page = UnitsIn(cycle[d].rows)
      /\ SeqOf(Present, u) <= cycle[d].seq =>
           /\ RowOf(u) \in cycle[d].rows => cycle[d].page[u] = held[u]
           /\ RowOf(u) \notin cycle[d].rows => SeqOf(Present, u) <= cursor[d]
           /\ RowOf(u) \in Written(d) => base[d][u] = held[u]
  BY <1>1 DEF DeviceInv, BaseInv
<1>3. /\ cursor[d] < cycle[d].seq /\ cursor[d] \in Nat /\ cycle[d].seq \in Nat
      /\ SeqOf(Present, u) \in Nat
  BY <1>1, SeqOfType, CycleFields DEF DeviceInv, BatchInv, DeviceTypes
<1>4. SeqOf(Present, u) <= cursor[d] => SeqOf(Present, u) <= cycle[d].seq
  BY <1>3
<1>5. Pulled(d, rows)[u] = IF u \in DOMAIN cycle[d].page /\ RowOf(u) \in rows
                           THEN cycle[d].page[u] ELSE base[d][u]
  BY <1>1, PulledFacts
<1>6. u \in DOMAIN cycle[d].page <=> RowOf(u) \in cycle[d].rows
  BY <1>2 DEF UnitsIn
<1> QED
  BY <1>2, <1>4, <1>5, <1>6

\* Steps of a device that change nothing it shows: an interruption, and the
\* first of a pull.
LEMMA InterruptKeeps ==
  ASSUME IInv, NEW d \in Devices, Interrupt(d)
  PROVE  IInv'
<1>1. /\ cycle' = [cycle EXCEPT ![d] = Idle] /\ made' = made /\ outbox' = outbox /\ base' = base
      /\ overlay' = overlay /\ cursor' = cursor
      /\ torn' = IF cycle[d].stage = "acknowledged" /\ Rejected(OnCascade(cycle[d].batch)) # {}
                 THEN torn \cup {d} ELSE torn
      /\ UNCHANGED <<server, now>>
  BY DEF Interrupt
<1>2. DeviceTypes /\ PresentInv /\ ValuesMade /\ \A e \in Devices : DeviceInv(e)
  BY DEF IInv
<1>3. cycle \in [Devices -> Cycles]
  BY <1>2 DEF DeviceTypes
<1>4. /\ cycle' \in [Devices -> Cycles] /\ cycle'[d] = Idle
      /\ \A e \in Devices : e # d => cycle'[e] = cycle[e]
  BY <1>1, <1>3, IdleType
<1>5. DeviceTypes'
  BY <1>1, <1>2, <1>4 DEF DeviceTypes
<1>6. PresentInv'
  BY <1>1, <1>2, ServerFrame
<1>7. ValuesMade'
  <2>1. DOMAIN Idle.page = {}
    BY DEF Idle
  <2>2. /\ \A u \in Units : held[u] <= Len(made)
        /\ \A e \in Devices : /\ \A u \in Units : base[e][u] <= Len(made)
                              /\ \A u \in DOMAIN cycle[e].page : cycle[e].page[u] <= Len(made)
    BY <1>2 DEF ValuesMade
  <2>3. \A e \in Devices : \A u \in DOMAIN cycle'[e].page : cycle'[e].page[u] <= Len(made)
    BY <2>1, <2>2, <1>4
  <2> QED
    BY <1>1, <2>2, <2>3 DEF ValuesMade, server
<1>8. ASSUME NEW e \in Devices, e # d PROVE DeviceInv(e)'
  <2>1. e \in torn => e \in torn'
    BY <1>1
  <2> QED
    BY <1>1, <1>2, <1>4, <1>8, <2>1, DeviceFrame
<1>9. DeviceInv(d)'
  <2>1. Idle.stage = "idle" /\ Idle.batch = {}
    BY DEF Idle
  <2>2. BatchInv(d) /\ PendingInv(d) /\ BaseInv(d) /\ AnswerInv(d) /\ OverlayInv(d)
    BY <1>2 DEF DeviceInv
  <2>3. held' = held /\ stamp' = stamp /\ sync_seq' = sync_seq /\ decided' = decided
        /\ Present' = Present
    BY <1>1 DEF server, Present
  <2>4. BatchInv(d)'
    BY <1>1, <1>4, <2>1, <2>2, <2>3 DEF BatchInv
  <2>5. PendingInv(d)'
    BY <1>1, <2>2 DEF PendingInv
  <2>6. BaseInv(d)'
    <3>1. \A u \in Units : SeqOf(Present, u) <= cursor[d] => base[d][u] = held[u]
      BY <2>2 DEF BaseInv
    <3> QED
      BY <1>1, <1>4, <2>1, <2>3, <3>1 DEF BaseInv
  <2>7. AnswerInv(d)'
    BY <1>4, <2>1 DEF AnswerInv
  <2>8. OverlayInv(d)'
    <3> DEFINE past == {x \in Rows : cursor[d] < stamp[x]}
    <3>1. Left(d)' = Left(d)
      BY <1>1 DEF Left
    <3>2. SUFFICES ASSUME d \notin torn' PROVE \A r \in Left(d) : Due(r, past)
      BY <1>1, <1>4, <2>1, <2>3, <3>1 DEF OverlayInv
    <3>3. d \notin torn /\ (cycle[d].stage = "acknowledged" => Rejected(OnCascade(cycle[d].batch)) = {})
      BY <1>1, <3>2
    <3>4. CASE cycle[d].stage = "idle"
      BY <2>2, <3>3, <3>4 DEF OverlayInv
    <3>5. CASE cycle[d].stage # "idle"
      <4>1. \A r \in cycle[d].rows : r \in past
        BY <1>3, <2>2, <3>5, CycleFields DEF AnswerInv
      <4>2. \A r : Due(r, cycle[d].rows) => Due(r, past)
        BY <4>1 DEF Due
      <4>3. cycle[d].stage = "rebased" => Left(d) = {}
        BY <2>2, <3>3 DEF OverlayInv
      <4>4. cycle[d].stage \in {"answered", "written"} => \A r \in Left(d) : Due(r, cycle[d].rows)
        BY <2>2, <3>3 DEF OverlayInv
      <4>5. cycle[d].stage = "acknowledged" => \A r \in Left(d) : Due(r, cycle[d].rows)
        BY <2>2, <3>3 DEF OverlayInv, Rejected, OnCascade
      <4>6. cycle[d].stage \in Stages
        BY <1>3, CycleFields
      <4> HIDE DEF past
      <4> QED
        BY <3>5, <4>2, <4>3, <4>4, <4>5, <4>6 DEF Stages
    <3> QED
      BY <3>4, <3>5
  <2> QED
    BY <2>4, <2>5, <2>6, <2>7, <2>8 DEF DeviceInv
<1> QED
  BY <1>5, <1>6, <1>7, <1>8, <1>9 DEF IInv

LEMMA WritePageKeeps ==
  ASSUME IInv, NEW d \in Devices, writePage(d)
  PROVE  IInv'
<1>1. /\ cycle[d].stage = "answered"
      /\ base' = [base EXCEPT ![d] = Pulled(d, {"question"})]
      /\ cycle' = [cycle EXCEPT ![d].stage = "written"]
      /\ made' = made /\ outbox' = outbox /\ overlay' = overlay /\ cursor' = cursor /\ torn' = torn
      /\ UNCHANGED <<server, now>>
  BY DEF writePage
<1>2. DeviceTypes /\ PresentInv /\ ValuesMade /\ \A e \in Devices : DeviceInv(e)
  BY DEF IInv
<1>3. cycle \in [Devices -> Cycles] /\ base \in [Devices -> Values]
  BY <1>2 DEF DeviceTypes
<1>4. /\ cycle' \in [Devices -> Cycles]
      /\ cycle'[d].stage = "written" /\ cycle'[d].batch = cycle[d].batch
      /\ cycle'[d].seq = cycle[d].seq /\ cycle'[d].rows = cycle[d].rows
      /\ cycle'[d].page = cycle[d].page /\ cycle'[d].foreign = cycle[d].foreign
      /\ \A e \in Devices : e # d => cycle'[e] = cycle[e]
  BY <1>1, <1>3, NextStage DEF Stages
<1> DEFINE new == Pulled(d, {"question"})
<1>5. new \in Values /\ \A u \in Units : new[u] <= Len(made)
  BY <1>2, PulledFacts
<1>6. base' \in [Devices -> Values] /\ base'[d] = new /\ \A e \in Devices : e # d => base'[e] = base[e]
  BY <1>1, <1>3, <1>5
<1> HIDE DEF new
<1>7. DeviceTypes'
  BY <1>1, <1>2, <1>4, <1>6 DEF DeviceTypes
<1>8. PresentInv'
  BY <1>1, <1>2, ServerFrame
<1>9. ValuesMade'
  <2>1. /\ \A u \in Units : held[u] <= Len(made)
        /\ \A e \in Devices : /\ \A u \in Units : base[e][u] <= Len(made)
                              /\ \A u \in DOMAIN cycle[e].page : cycle[e].page[u] <= Len(made)
    BY <1>2 DEF ValuesMade
  <2>2. ASSUME NEW e \in Devices
        PROVE  /\ \A u \in Units : base'[e][u] <= Len(made)
               /\ \A u \in DOMAIN cycle'[e].page : cycle'[e].page[u] <= Len(made)
    BY <2>1, <1>4, <1>5, <1>6
  <2> QED
    BY <1>1, <2>1, <2>2 DEF ValuesMade, server
<1>10. ASSUME NEW e \in Devices, e # d PROVE DeviceInv(e)'
  BY <1>1, <1>2, <1>4, <1>6, <1>10, DeviceFrame
<1>11. DeviceInv(d)'
  <2>2. BatchInv(d) /\ PendingInv(d) /\ BaseInv(d) /\ AnswerInv(d) /\ OverlayInv(d)
    BY <1>2 DEF DeviceInv
  <2>3. held' = held /\ stamp' = stamp /\ sync_seq' = sync_seq /\ decided' = decided
        /\ Present' = Present
    BY <1>1 DEF server, Present
  <2>4. BatchInv(d)'
    BY <1>1, <1>4, <2>2, <2>3 DEF BatchInv
  <2>5. PendingInv(d)'
    BY <1>1, <2>2 DEF PendingInv
  <2>6. BaseInv(d)'
    <3>1. \A u \in Units :
           /\ SeqOf(Present, u) <= cursor[d] => new[u] = held[u]
           /\ SeqOf(Present, u) <= cycle[d].seq /\ RowOf(u) \in {"question"} \cup Written(d) =>
                new[u] = held[u]
      BY <1>1, PulledBase DEF new
    <3>2. Written(d)' = {"question"}
      BY <1>4 DEF Written
    <3>3. /\ DOMAIN cycle[d].page = UnitsIn(cycle[d].rows)
          /\ \A u \in Units : SeqOf(Present, u) <= cycle[d].seq =>
               /\ RowOf(u) \in cycle[d].rows => cycle[d].page[u] = held[u]
               /\ RowOf(u) \notin cycle[d].rows => SeqOf(Present, u) <= cursor[d]
      BY <1>1, <2>2 DEF BaseInv
    <3> QED
      BY <1>1, <1>4, <1>6, <2>3, <3>1, <3>2, <3>3 DEF BaseInv
  <2>7. AnswerInv(d)'
    BY <1>1, <1>4, <2>2, <2>3 DEF AnswerInv
  <2>8. OverlayInv(d)'
    <3>1. Left(d)' = Left(d)
      BY <1>1 DEF Left
    <3> QED
      BY <1>1, <1>4, <2>2, <2>3, <3>1 DEF OverlayInv
  <2> QED
    BY <2>4, <2>5, <2>6, <2>7, <2>8 DEF DeviceInv
<1> QED
  BY <1>7, <1>8, <1>9, <1>10, <1>11 DEF IInv

\* A pending change of a unit keeps the unit's row; what keeps a row was
\* written into it, and stamps the cascade's rows that a rebase looks at.
LEMMA HoldsFacts ==
  /\ \A u \in CascadeUnits : Holds(u, RowOf(u))
  /\ \A u \in CascadeUnits : \A r \in Writes(u) : Holds(u, r)
  /\ \A u \in Units, r \in CascadeRows, rows \in SUBSET Rows :
       Holds(u, r) /\ Stamped(u) \subseteq rows => Due(r, rows)
<1>1. ASSUME NEW u \in CascadeUnits
      PROVE  /\ u \in {"grade", "cursor", "options", "defaults"}
             /\ Writes(u) = Stamped(u) /\ RowOf(u) \in Stamped(u) /\ RowOf(u) \in CascadeRows
             /\ u \in Units
  BY UnitFacts
<1>2. RowOf("grade") = "question" /\ RowOf("cursor") = "quiz" /\ RowOf("options") = "quiz"
      /\ RowOf("defaults") = "cascade"
  BY DEF RowOf
<1>3. Stamped("grade") = CascadeRows /\ Stamped("cursor") = {"quiz"} /\ Stamped("options") = {"quiz"}
      /\ Stamped("defaults") = {"cascade"}
  BY <1>2 DEF Stamped
<1>4. ASSUME NEW u \in CascadeUnits PROVE Holds(u, RowOf(u)) /\ \A r \in Writes(u) : Holds(u, r)
  BY <1>1, <1>2, <1>3 DEF Holds, CascadeRows
<1>5. ASSUME NEW u \in Units, NEW r \in CascadeRows, NEW rows \in SUBSET Rows,
             Holds(u, r), Stamped(u) \subseteq rows
      PROVE  Due(r, rows)
  <2>1. u \in CascadeUnits
    BY <1>5 DEF Holds
  <2>2. RowOf(u) \in rows \cap CascadeRows
    BY <2>1, <1>1, <1>5
  <2>3. r = "question" => u = "grade"
    BY <1>5 DEF Holds
  <2>4. r = "question" => r \in rows
    BY <2>3, <1>3, <1>5
  <2> QED
    BY <2>2, <2>4 DEF Due
<1> QED
  BY <1>4, <1>5

LEMMA AcknowledgeKeeps ==
  ASSUME IInv, NEW d \in Devices, Acknowledge(d)
  PROVE  IInv'
<1>1. /\ cycle[d].stage = "written"
      /\ outbox' = [outbox EXCEPT ![d] = @ \ cycle[d].batch]
      /\ cycle' = [cycle EXCEPT ![d].stage = "acknowledged"]
      /\ made' = made /\ base' = base /\ overlay' = overlay /\ cursor' = cursor /\ torn' = torn
      /\ UNCHANGED <<server, now>>
  BY DEF Acknowledge
<1>2. DeviceTypes /\ PresentInv /\ ValuesMade /\ \A e \in Devices : DeviceInv(e)
  BY DEF IInv
<1>3. cycle \in [Devices -> Cycles] /\ outbox \in [Devices -> SUBSET Ops]
  BY <1>2 DEF DeviceTypes
<1>4. /\ cycle' \in [Devices -> Cycles]
      /\ cycle'[d].stage = "acknowledged" /\ cycle'[d].batch = cycle[d].batch
      /\ cycle'[d].seq = cycle[d].seq /\ cycle'[d].rows = cycle[d].rows
      /\ cycle'[d].page = cycle[d].page /\ cycle'[d].foreign = cycle[d].foreign
      /\ \A e \in Devices : e # d => cycle'[e] = cycle[e]
  BY <1>1, <1>3, NextStage DEF Stages
<1> DEFINE batch == cycle[d].batch
           left == outbox[d] \ batch
<1>6. /\ outbox' \in [Devices -> SUBSET Ops] /\ outbox'[d] = left
      /\ \A e \in Devices : e # d => outbox'[e] = outbox[e]
  BY <1>1, <1>3
<1>7. DeviceTypes'
  BY <1>1, <1>2, <1>4, <1>6 DEF DeviceTypes
<1>8. PresentInv'
  BY <1>1, <1>2, ServerFrame
<1>9. ValuesMade'
  <2>1. \A e \in Devices : cycle'[e].page = cycle[e].page
    BY <1>4
  <2> QED
    BY <1>1, <1>2, <2>1 DEF ValuesMade, server
<1>10. ASSUME NEW e \in Devices, e # d PROVE DeviceInv(e)'
  BY <1>1, <1>2, <1>4, <1>6, <1>10, DeviceFrame
<1>11. DeviceInv(d)'
  <2>2. BatchInv(d) /\ PendingInv(d) /\ BaseInv(d) /\ AnswerInv(d) /\ OverlayInv(d)
    BY <1>2 DEF DeviceInv
  <2>3. held' = held /\ stamp' = stamp /\ sync_seq' = sync_seq /\ decided' = decided
        /\ Present' = Present
    BY <1>1 DEF server, Present
  <2>4. BatchInv(d)'
    <3>1. left \subseteq outbox[d] /\ left \cap batch = {} /\ left \ batch = outbox[d] \ batch
      OBVIOUS
    <3> QED
      BY <1>1, <1>4, <1>6, <2>2, <2>3, <3>1 DEF BatchInv
  <2>5. PendingInv(d)'
    <3> SUFFICES ASSUME NEW u \in CascadeUnits, NEW o \in left, made[o].unit = u,
                        \A p \in left : made[p].unit = u => p <= o
        PROVE  u \in DOMAIN overlay[d] /\ overlay[d][u] = o
      BY <1>1, <1>6, <2>2 DEF PendingInv
    <3>1. \A p \in batch : p < o
      BY <2>2 DEF BatchInv
    <3>2. \A p \in outbox[d] \cup batch : p \in Nat
      BY <1>2, <2>2, MadeFields DEF BatchInv
    <3>3. \A p \in outbox[d] : made[p].unit = u => p <= o
      BY <3>1, <3>2
    <3> QED
      BY <3>3, <2>2 DEF PendingInv
  <2>6. BaseInv(d)'
    <3>2. Written(d)' = Written(d)
      BY <1>1, <1>4 DEF Written
    <3> QED
      BY <1>1, <1>4, <2>2, <2>3, <3>2 DEF BaseInv
  <2>7. AnswerInv(d)'
    BY <1>1, <1>4, <2>2, <2>3 DEF AnswerInv
  <2>8. OverlayInv(d)'
    <3> SUFFICES ASSUME d \notin torn,
                        ~\E o \in batch : made[o].unit \in CascadeUnits /\ decided[o].verdict = "rejected",
                        NEW r \in Left(d)'
        PROVE  Due(r, cycle[d].rows)
      BY <1>1, <1>4, <2>3 DEF OverlayInv
    <3>1. r \in CascadeRows /\ (\E u \in DOMAIN overlay[d] : RowOf(u) = r)
          /\ \A o \in left : ~Holds(made[o].unit, r)
      BY <1>1, <1>6 DEF Left
    <3>2. CASE r \in Left(d)
      BY <1>1, <2>2, <3>2 DEF OverlayInv
    <3>3. CASE r \notin Left(d)
      <4>1. PICK o \in outbox[d] : Holds(made[o].unit, r)
        BY <3>1, <3>3 DEF Left
      <4>2. o \in batch
        BY <3>1, <4>1
      <4>3. made[o].unit \in CascadeUnits /\ made[o].unit \in Units
        BY <4>1, UnitFacts DEF Holds
      <4>4. o \in Ops /\ decided[o].verdict # "none"
        BY <1>1, <4>2, <2>2, <1>3, CycleFields DEF BatchInv
      <4>5. decided[o].verdict \in {"none", "applied", "rejected"}
        <5>1. decided[o] \in Decisions
          BY <4>4, <1>2 DEF PresentInv, ServerTypes
        <5> QED
          BY <5>1 DEF Decisions
      <4>6. decided[o].verdict = "applied"
        BY <4>2, <4>3, <4>4, <4>5
      <4>7. Stamped(made[o].unit) \subseteq cycle[d].rows
        BY <1>1, <4>2, <4>6, <2>2 DEF AnswerInv
      <4>8. cycle[d].rows \in SUBSET Rows
        BY <1>3, CycleFields
      <4> QED
        BY <3>1, <4>1, <4>3, <4>7, <4>8, HoldsFacts
    <3> QED
      BY <3>2, <3>3
  <2> QED
    BY <2>4, <2>5, <2>6, <2>7, <2>8 DEF DeviceInv
<1> QED
  BY <1>7, <1>8, <1>9, <1>10, <1>11 DEF IInv

LEMMA EndRebaseKeeps ==
  ASSUME IInv, NEW d \in Devices, EndRebase(d)
  PROVE  IInv'
<1>1. /\ cycle[d].stage = "rebased"
      /\ base' = [base EXCEPT ![d] = Pulled(d, {"preferences"})]
      /\ cursor' = [cursor EXCEPT ![d] = cycle[d].seq]
      /\ cycle' = [cycle EXCEPT ![d] = Idle]
      /\ made' = made /\ outbox' = outbox /\ overlay' = overlay /\ torn' = torn
      /\ UNCHANGED <<server, now>>
  BY DEF EndRebase
<1>2. DeviceTypes /\ PresentInv /\ ValuesMade /\ \A e \in Devices : DeviceInv(e)
  BY DEF IInv
<1>3. cycle \in [Devices -> Cycles] /\ base \in [Devices -> Values] /\ cursor \in [Devices -> Nat]
  BY <1>2 DEF DeviceTypes
<1>4. /\ cycle' \in [Devices -> Cycles] /\ cycle'[d] = Idle
      /\ \A e \in Devices : e # d => cycle'[e] = cycle[e]
  BY <1>1, <1>3, IdleType
<1> DEFINE new == Pulled(d, {"preferences"})
<1>5. new \in Values /\ \A u \in Units : new[u] <= Len(made)
  BY <1>2, PulledFacts
<1>6. base' \in [Devices -> Values] /\ base'[d] = new /\ \A e \in Devices : e # d => base'[e] = base[e]
  BY <1>1, <1>3, <1>5
<1>a. /\ cursor' \in [Devices -> Nat] /\ cursor'[d] = cycle[d].seq
      /\ \A e \in Devices : e # d => cursor'[e] = cursor[e]
  <2>1. cycle[d].seq \in Nat
    BY <1>3, CycleFields
  <2> QED
    BY <1>1, <1>3, <2>1
<1> HIDE DEF new
<1>7. DeviceTypes'
  BY <1>1, <1>2, <1>4, <1>6, <1>a DEF DeviceTypes
<1>8. PresentInv'
  BY <1>1, <1>2, ServerFrame
<1>9. ValuesMade'
  <2>1. /\ \A u \in Units : held[u] <= Len(made)
        /\ \A e \in Devices : /\ \A u \in Units : base[e][u] <= Len(made)
                              /\ \A u \in DOMAIN cycle[e].page : cycle[e].page[u] <= Len(made)
    BY <1>2 DEF ValuesMade
  <2>0. DOMAIN Idle.page = {}
    BY DEF Idle
  <2>2. ASSUME NEW e \in Devices
        PROVE  /\ \A u \in Units : base'[e][u] <= Len(made)
               /\ \A u \in DOMAIN cycle'[e].page : cycle'[e].page[u] <= Len(made)
    BY <2>0, <2>1, <1>4, <1>5, <1>6
  <2> QED
    BY <1>1, <2>1, <2>2 DEF ValuesMade, server
<1>10. ASSUME NEW e \in Devices, e # d PROVE DeviceInv(e)'
  BY <1>1, <1>2, <1>4, <1>6, <1>a, <1>10, DeviceFrame
<1>11. DeviceInv(d)'
  <2>1. Idle.stage = "idle" /\ Idle.batch = {}
    BY DEF Idle
  <2>2. BatchInv(d) /\ PendingInv(d) /\ BaseInv(d) /\ AnswerInv(d) /\ OverlayInv(d)
    BY <1>2 DEF DeviceInv
  <2>3. held' = held /\ stamp' = stamp /\ sync_seq' = sync_seq /\ decided' = decided
        /\ Present' = Present
    BY <1>1 DEF server, Present
  <2>4. BatchInv(d)'
    <3>1. outbox[d] \cap cycle[d].batch = {} /\ cycle[d].seq <= sync_seq
          /\ \A o \in outbox[d] : decided[o].verdict = "none" /\ o \in DOMAIN made /\ made[o].device = d
      BY <1>1, <2>2 DEF BatchInv
    <3> QED
      BY <1>1, <1>4, <1>a, <2>1, <2>3, <3>1 DEF BatchInv
  <2>5. PendingInv(d)'
    BY <1>1, <2>2 DEF PendingInv
  <2>6. BaseInv(d)'
    <3>1. \A u \in Units :
            SeqOf(Present, u) <= cycle[d].seq /\ RowOf(u) \in {"preferences"} \cup Written(d) =>
              new[u] = held[u]
      BY <1>1, PulledBase DEF new
    <3>2. Written(d) = CascadeRows
      BY <1>1 DEF Written
    <3>3. \A u \in Units : RowOf(u) \in {"preferences"} \cup Written(d)
      BY <3>2, UnitFacts DEF Rows
    <3>4. \A u \in Units : SeqOf(Present, u) <= cycle[d].seq => new[u] = held[u]
      BY <3>1, <3>3
    <3> QED
      BY <1>4, <1>6, <1>a, <2>1, <2>3, <3>4 DEF BaseInv
  <2>7. AnswerInv(d)'
    BY <1>4, <2>1 DEF AnswerInv
  <2>8. OverlayInv(d)'
    <3>1. Left(d)' = Left(d)
      BY <1>1 DEF Left
    <3>2. d \notin torn => Left(d) = {}
      BY <1>1, <2>2 DEF OverlayInv
    <3> QED
      BY <1>1, <1>4, <2>1, <3>1, <3>2 DEF OverlayInv
  <2> QED
    BY <2>4, <2>5, <2>6, <2>7, <2>8 DEF DeviceInv
<1> QED
  BY <1>7, <1>8, <1>9, <1>10, <1>11 DEF IInv

LEMMA HeldRowsFacts ==
  ASSUME NEW d \in Devices, NEW r \in CascadeRows
  PROVE  r \in HeldRows(d) <=> \E o \in outbox[d] : Holds(made[o].unit, r)
<1> DEFINE pending == {made[o].unit : o \in OnCascade(outbox[d])}
<1>1. \A u : u \in pending <=> \E o \in outbox[d] : made[o].unit = u /\ u \in CascadeUnits
  BY DEF OnCascade
<1>2. HeldRows(d) = (IF pending # {} THEN {"cascade"} ELSE {})
        \cup (IF pending \cap {"grade", "cursor", "options"} # {} THEN {"quiz"} ELSE {})
        \cup (IF "grade" \in pending THEN {"question"} ELSE {})
  BY DEF HeldRows
<1> HIDE DEF pending
<1>3. r \in HeldRows(d) <=> \/ r = "cascade" /\ pending # {}
                            \/ r = "quiz" /\ pending \cap {"grade", "cursor", "options"} # {}
                            \/ r = "question" /\ "grade" \in pending
  BY <1>2
<1>4. (\E o \in outbox[d] : Holds(made[o].unit, r)) <=> \E u \in pending : Holds(u, r)
  BY <1>1 DEF Holds
<1>5. \A u \in pending : u \in CascadeUnits
  BY <1>1
<1>6. (\E u \in pending : Holds(u, r)) <=>
        \/ r = "cascade" /\ pending # {}
        \/ r = "quiz" /\ pending \cap {"grade", "cursor", "options"} # {}
        \/ r = "question" /\ "grade" \in pending
  BY <1>5 DEF Holds
<1> QED
  BY <1>3, <1>4, <1>6

\* With no other device's rows, the fast path looks at every row that is due.
LEMMA TouchedFacts ==
  ASSUME NEW d \in Devices, NEW r \in CascadeRows, cycle[d].rows \in SUBSET Rows,
         \A o \in cycle[d].batch : made[o].unit \in Units,
         Due(r, cycle[d].rows),
         \A x \in cycle[d].rows \cap CascadeRows :
           \E o \in cycle[d].batch : made[o].unit \in CascadeUnits /\ x \in Stamped(made[o].unit)
  PROVE  r \in TouchedRows(cycle[d].batch)
<1> DEFINE units == {made[o].unit : o \in OnCascade(cycle[d].batch)}
<1>1. \A u : u \in units <=> \E o \in cycle[d].batch : made[o].unit = u /\ u \in CascadeUnits
  BY DEF OnCascade
<1>2. TouchedRows(cycle[d].batch) =
        IF "defaults" \in units THEN CascadeRows
        ELSE {"cascade"} \cup (IF units # {} THEN {"quiz"} ELSE {})
               \cup (IF "grade" \in units THEN {"question"} ELSE {})
  BY DEF TouchedRows
<1> HIDE DEF units
<1>3. PICK x \in cycle[d].rows \cap CascadeRows : r = "question" => x = "question"
  BY DEF Due
<1>4. PICK o \in cycle[d].batch : made[o].unit \in CascadeUnits /\ x \in Stamped(made[o].unit)
  BY <1>3
<1>5. made[o].unit \in units
  BY <1>1, <1>4
<1>6. r = "question" => made[o].unit = "grade"
  BY <1>3, <1>4, UnitFacts
<1> QED
  BY <1>2, <1>5, <1>6 DEF CascadeRows

LEMMA RebaseCascadeKeeps ==
  ASSUME IInv, NEW d \in Devices, rebaseCascade(d)
  PROVE  IInv'
<1> DEFINE c == cycle[d]
           skipped == c.rows \cap CascadeRows = {} /\ OnCascade(c.batch) = {}
           new == Pulled(d, CascadeRows)
           cleared == clearTouched(d)
           replayed == Replay(outbox[d], base'[d])
<1>1. /\ c.stage = "acknowledged"
      /\ cycle' = [cycle EXCEPT ![d].stage = "rebased"]
      /\ skipped => UNCHANGED <<base, overlay, torn>>
      /\ ~skipped => /\ base' = [base EXCEPT ![d] = new]
                     /\ overlay' = [overlay EXCEPT ![d] = IF fast(d) THEN cleared ELSE replayed]
                     /\ torn' = IF fast(d) THEN torn ELSE torn \ {d}
      /\ made' = made /\ outbox' = outbox /\ cursor' = cursor
      /\ UNCHANGED <<server, now>>
  BY DEF rebaseCascade
<1>2. DeviceTypes /\ PresentInv /\ ValuesMade /\ \A e \in Devices : DeviceInv(e)
  BY DEF IInv
<1>3. /\ cycle \in [Devices -> Cycles] /\ base \in [Devices -> Values]
      /\ overlay \in [Devices -> Partial] /\ outbox \in [Devices -> SUBSET Ops] /\ torn \subseteq Devices
  BY <1>2 DEF DeviceTypes
<1>4. /\ cycle' \in [Devices -> Cycles]
      /\ cycle'[d].stage = "rebased" /\ cycle'[d].batch = c.batch
      /\ cycle'[d].seq = c.seq /\ cycle'[d].rows = c.rows
      /\ cycle'[d].page = c.page /\ cycle'[d].foreign = c.foreign
      /\ \A e \in Devices : e # d => cycle'[e] = cycle[e]
  BY <1>1, <1>3, NextStage DEF Stages
<1>5. BatchInv(d) /\ PendingInv(d) /\ BaseInv(d) /\ AnswerInv(d) /\ OverlayInv(d)
  BY <1>2 DEF DeviceInv
<1>6. new \in Values /\ \A u \in Units : new[u] <= Len(made)
  BY <1>2, PulledFacts
<1>7. /\ \A o \in outbox[d] : o \in DOMAIN made /\ o \in Ops /\ made[o].unit \in Units
      /\ \A o \in c.batch : o \in DOMAIN made /\ made[o].unit \in Units
      /\ c.rows \in SUBSET Rows
  BY <1>2, <1>3, <1>5, MadeFields, CycleFields DEF BatchInv
<1>8. /\ held' = held /\ stamp' = stamp /\ sync_seq' = sync_seq /\ decided' = decided
      /\ Present' = Present
  BY <1>1 DEF server, Present
<1>9. Written(d)' = CascadeRows /\ Written(d) = {"question"}
  BY <1>1, <1>4 DEF Written
\* The base.
<1>10. /\ base' \in [Devices -> Values] /\ \A e \in Devices : e # d => base'[e] = base[e]
       /\ \A u \in Units : base'[d][u] <= Len(made)
       /\ \A u \in Units : SeqOf(Present, u) <= cursor[d] => base'[d][u] = held[u]
       /\ \A u \in Units : SeqOf(Present, u) <= c.seq /\ RowOf(u) \in CascadeRows => base'[d][u] = held[u]
  <2>1. CASE skipped
    <3>1. /\ \A u \in Units : SeqOf(Present, u) <= cursor[d] => base[d][u] = held[u]
          /\ \A u \in Units : SeqOf(Present, u) <= c.seq /\ RowOf(u) \notin c.rows =>
               SeqOf(Present, u) <= cursor[d]
      BY <1>1, <1>5 DEF BaseInv
    <3>2. \A u \in Units : RowOf(u) \in CascadeRows => RowOf(u) \notin c.rows
      BY <2>1
    <3>3. \A u \in Units : base[d][u] <= Len(made)
      BY <1>2 DEF ValuesMade
    <3>4. base' = base
      BY <1>1, <2>1
    <3> QED
      BY <1>3, <3>1, <3>2, <3>3, <3>4
  <2>2. CASE ~skipped
    <3>1. base' = [base EXCEPT ![d] = new]
      BY <1>1, <2>2
    <3>2. \A u \in Units :
           /\ SeqOf(Present, u) <= cursor[d] => new[u] = held[u]
           /\ SeqOf(Present, u) <= c.seq /\ RowOf(u) \in CascadeRows \cup Written(d) =>
                new[u] = held[u]
      BY <1>1, PulledBase
    <3> HIDE DEF new
    <3>3. base' \in [Devices -> Values] /\ base'[d] = new /\ \A e \in Devices : e # d => base'[e] = base[e]
      BY <1>3, <1>6, <3>1
    <3> QED
      BY <1>6, <3>2, <3>3
  <2> QED
    BY <2>1, <2>2
<1>11. base'[d] \in Values
  BY <1>10
\* The overlay.
<1>12. /\ overlay' \in [Devices -> Partial] /\ \A e \in Devices : e # d => overlay'[e] = overlay[e]
       /\ skipped => overlay'[d] = overlay[d]
       /\ ~skipped /\ fast(d) =>
            /\ DOMAIN overlay'[d] =
                 DOMAIN overlay[d] \ UnitsIn(TouchedRows(c.batch) \ HeldRows(d))
            /\ \A u \in DOMAIN overlay'[d] : overlay'[d][u] = overlay[d][u]
       /\ ~skipped /\ ~fast(d) =>
            /\ \A u \in DOMAIN overlay'[d] : \E o \in outbox[d] : u \in UnitsIn(Writes(made[o].unit))
            /\ \A u \in CascadeUnits : LET S == {o \in outbox[d] : made[o].unit = u} IN
                 S # {} => u \in DOMAIN overlay'[d] /\ overlay'[d][u] = Highest(S)
  <2>1. CASE skipped
    BY <1>1, <1>3, <2>1
  <2>2. CASE ~skipped /\ fast(d)
    <3> DEFINE D == DOMAIN overlay[d] \ UnitsIn(TouchedRows(c.batch) \ HeldRows(d))
    <3>1. cleared = [u \in D |-> overlay[d][u]]
      BY DEF clearTouched
    <3>2. overlay[d] \in Partial
      BY <1>3
    <3>3. D \in SUBSET Units /\ \A u \in D : overlay[d][u] \in Nat
      BY <3>2, PartialFacts
    <3>4. cleared \in [D -> Nat] /\ DOMAIN cleared = D /\ \A u \in D : cleared[u] = overlay[d][u]
      <4> HIDE DEF D
      <4> QED
        BY <3>1, <3>3
    <3>5. cleared \in Partial
      <4> HIDE DEF D, cleared
      <4> QED
        BY <3>3, <3>4, PartialFacts
    <3>6. overlay' = [overlay EXCEPT ![d] = cleared]
      BY <1>1, <2>2
    <3> HIDE DEF cleared
    <3>7. overlay' \in [Devices -> Partial] /\ overlay'[d] = cleared
          /\ \A e \in Devices : e # d => overlay'[e] = overlay[e]
      BY <1>3, <3>5, <3>6
    <3> QED
      BY <2>2, <3>4, <3>7
  <2>3. CASE ~skipped /\ ~fast(d)
    <3>1. outbox[d] \in SUBSET Ops /\ \A o \in outbox[d] : made[o].unit \in Units
      BY <1>3, <1>7
    <3>2. /\ replayed \in Partial
          /\ \A u \in DOMAIN replayed : \E o \in outbox[d] : u \in UnitsIn(Writes(made[o].unit))
          /\ \A u \in CascadeUnits : LET S == {o \in outbox[d] : made[o].unit = u} IN
               S # {} => u \in DOMAIN replayed /\ replayed[u] = Highest(S)
      BY <1>11, <3>1, ReplayFacts
    <3>3. overlay' = [overlay EXCEPT ![d] = replayed]
      BY <1>1, <2>3
    <3> HIDE DEF replayed
    <3>4. overlay' \in [Devices -> Partial] /\ overlay'[d] = replayed
          /\ \A e \in Devices : e # d => overlay'[e] = overlay[e]
      BY <1>3, <3>2, <3>3
    <3> QED
      BY <2>3, <3>2, <3>4
  <2> QED
    BY <2>1, <2>2, <2>3
<1>t. torn' \subseteq Devices /\ (\A e \in Devices : e # d /\ e \in torn => e \in torn')
      /\ ((skipped \/ fast(d)) => torn' = torn)
  BY <1>1, <1>3
<1> HIDE DEF new, cleared, replayed
<1>13. DeviceTypes'
  BY <1>1, <1>2, <1>4, <1>10, <1>12, <1>t DEF DeviceTypes
<1>14. PresentInv'
  BY <1>1, <1>2, ServerFrame
<1>15. ValuesMade'
  <2>1. /\ \A u \in Units : held[u] <= Len(made)
        /\ \A e \in Devices : /\ \A u \in Units : base[e][u] <= Len(made)
                              /\ \A u \in DOMAIN cycle[e].page : cycle[e].page[u] <= Len(made)
    BY <1>2 DEF ValuesMade
  <2>2. ASSUME NEW e \in Devices
        PROVE  /\ \A u \in Units : base'[e][u] <= Len(made)
               /\ \A u \in DOMAIN cycle'[e].page : cycle'[e].page[u] <= Len(made)
    BY <2>1, <1>4, <1>10
  <2> QED
    BY <1>1, <1>8, <2>1, <2>2 DEF ValuesMade
<1>16. ASSUME NEW e \in Devices, e # d PROVE DeviceInv(e)'
  BY <1>1, <1>2, <1>4, <1>10, <1>12, <1>t, <1>16, DeviceFrame
<1>17. BatchInv(d)'
  BY <1>1, <1>4, <1>5, <1>8 DEF BatchInv
<1>18. PendingInv(d)'
  <2>1. DOMAIN overlay[d] \subseteq CascadeUnits
    BY <1>5 DEF PendingInv
  <2>2. DOMAIN overlay'[d] \subseteq CascadeUnits
    <3>1. CASE skipped \/ fast(d)
      BY <3>1, <1>12, <2>1
    <3>2. CASE ~skipped /\ ~fast(d)
      <4> SUFFICES ASSUME NEW u \in DOMAIN overlay'[d] PROVE u \in CascadeUnits
        OBVIOUS
      <4>1. PICK o \in outbox[d] : u \in UnitsIn(Writes(made[o].unit))
        BY <1>12, <3>2
      <4>2. u \in Units /\ RowOf(u) \in Writes(made[o].unit) /\ made[o].unit \in Units
        BY <4>1, <1>7 DEF UnitsIn
      <4>3. Writes(made[o].unit) \subseteq CascadeRows
        BY <4>2, UnitFacts
      <4> QED
        BY <4>2, <4>3, UnitFacts
    <3> QED
      BY <3>1, <3>2
  <2>3. ASSUME NEW u \in CascadeUnits, NEW o \in outbox[d], made[o].unit = u,
               \A p \in outbox[d] : made[p].unit = u => p <= o
        PROVE  u \in DOMAIN overlay'[d] /\ overlay'[d][u] = o
    <3>1. u \in DOMAIN overlay[d] /\ overlay[d][u] = o
      BY <2>3, <1>5 DEF PendingInv
    <3>2. CASE skipped
      BY <3>1, <3>2, <1>12
    <3>3. CASE ~skipped /\ fast(d)
      <4>1. RowOf(u) \in CascadeRows /\ Holds(u, RowOf(u))
        BY UnitFacts, HoldsFacts
      <4>2. RowOf(u) \in HeldRows(d)
        BY <4>1, <2>3, HeldRowsFacts
      <4>3. u \notin UnitsIn(TouchedRows(c.batch) \ HeldRows(d))
        BY <4>2 DEF UnitsIn
      <4> QED
        BY <3>1, <3>3, <4>3, <1>12
    <3>4. CASE ~skipped /\ ~fast(d)
      <4> DEFINE S == {p \in outbox[d] : made[p].unit = u}
      <4>1. S \in SUBSET Ops /\ o \in S /\ \A m \in S : m <= o
        BY <2>3, <1>7
      <4>2. u \in DOMAIN overlay'[d] /\ overlay'[d][u] = Highest(S)
        BY <1>12, <3>4, <4>1
      <4> HIDE DEF S
      <4>3. Highest(S) = o
        BY <4>1, HighestIsUnique
      <4> QED
        BY <4>2, <4>3
    <3> QED
      BY <3>2, <3>3, <3>4
  <2> QED
    BY <1>1, <2>2, <2>3 DEF PendingInv
<1>19. BaseInv(d)'
  <2>1. /\ DOMAIN c.page = UnitsIn(c.rows)
        /\ \A u \in Units : SeqOf(Present, u) <= c.seq =>
             /\ RowOf(u) \in c.rows => c.page[u] = held[u]
             /\ RowOf(u) \notin c.rows => SeqOf(Present, u) <= cursor[d]
    BY <1>1, <1>5 DEF BaseInv
  <2> HIDE DEF c
  <2> QED
    BY <1>1, <1>4, <1>8, <1>9, <1>10, <2>1 DEF BaseInv
<1>20. AnswerInv(d)'
  BY <1>1, <1>4, <1>5, <1>8 DEF AnswerInv
<1>21. OverlayInv(d)'
  <2> SUFFICES ASSUME d \notin torn', NEW r \in CascadeRows, NEW u \in DOMAIN overlay'[d], RowOf(u) = r,
                      \A o \in outbox[d] : ~Holds(made[o].unit, r)
      PROVE  FALSE
    <3>1. Left(d)' = {r \in CascadeRows : /\ \E u \in DOMAIN overlay'[d] : RowOf(u) = r
                                          /\ \A o \in outbox[d] : ~Holds(made[o].unit, r)}
      BY <1>1 DEF Left
    <3>2. d \notin torn' => Left(d)' = {}
      BY <3>1
    <3> QED
      BY <1>4, <3>2 DEF OverlayInv
  <2>1. CASE ~skipped /\ ~fast(d)
    <3>1. PICK o \in outbox[d] : u \in UnitsIn(Writes(made[o].unit))
      BY <1>12, <2>1
    <3>2. made[o].unit \in Units /\ r \in Writes(made[o].unit)
      BY <3>1, <1>7 DEF UnitsIn
    <3>3. made[o].unit \in CascadeUnits
      BY <3>2, UnitFacts
    <3> QED
      BY <3>2, <3>3, HoldsFacts
  <2>2. CASE skipped \/ fast(d)
    <3>1. d \notin torn
      BY <1>t, <2>2
    <3>2. u \in DOMAIN overlay[d]
      BY <1>12, <2>2
    <3>3. r \in Left(d)
      BY <3>2 DEF Left
    <3>4. ~\E o \in c.batch : made[o].unit \in CascadeUnits /\ decided[o].verdict = "rejected"
      BY <2>2 DEF fast, Rejected, OnCascade
    <3>5. Due(r, c.rows)
      BY <1>1, <1>5, <3>1, <3>3, <3>4 DEF OverlayInv
    <3>6. CASE skipped
      BY <3>5, <3>6 DEF Due
    <3>7. CASE ~skipped /\ fast(d)
      <4>1. \A x \in c.rows \cap CascadeRows :
              \E o \in c.batch : made[o].unit \in CascadeUnits /\ x \in Stamped(made[o].unit)
        BY <1>1, <1>5, <3>7 DEF AnswerInv, fast
      <4>2. r \in TouchedRows(c.batch)
        BY <3>5, <4>1, <1>7, TouchedFacts
      <4>3. r \notin HeldRows(d)
        BY HeldRowsFacts
      <4>4. u \in Units
        <5>1. DOMAIN overlay[d] \subseteq CascadeUnits
          BY <1>5 DEF PendingInv
        <5> QED
          BY <5>1, <3>2, UnitFacts
      <4>5. u \in UnitsIn(TouchedRows(c.batch) \ HeldRows(d))
        BY <4>2, <4>3, <4>4 DEF UnitsIn
      <4> QED
        BY <4>5, <3>7, <1>12
    <3> QED
      BY <2>2, <3>6, <3>7
  <2> QED
    BY <2>1, <2>2
<1> QED
  BY <1>13, <1>14, <1>15, <1>16, <1>17, <1>18, <1>19, <1>20, <1>21 DEF IInv, DeviceInv

LEMMA AppendMade ==
  ASSUME NEW s \in Seq(Made), NEW m \in Made, NEW o \in Nat, o = Len(s) + 1
  PROVE  /\ Append(s, m) \in Seq(Made) /\ Len(Append(s, m)) = o
         /\ DOMAIN Append(s, m) = DOMAIN s \cup {o} /\ o \notin DOMAIN s
         /\ Append(s, m)[o] = m
         /\ \A i \in DOMAIN s : Append(s, m)[i] = s[i] /\ i < o
OBVIOUS

LEMMA ApplyLocallyKeeps ==
  ASSUME IInv, NEW d \in Devices, NEW u \in Units, NEW at \in Times, applyLocally(d, u, at)
  PROVE  IInv'
<1> DEFINE m == [device |-> d, unit |-> u, at |-> at, seen |-> cursor[d], known |-> base[d][u]]
           kept == IF u = "cursor" THEN outbox[d] \ PendingOn(d, u) ELSE outbox[d]
<1>2. DeviceTypes /\ PresentInv /\ ValuesMade /\ \A e \in Devices : DeviceInv(e)
  BY DEF IInv
<1>3. /\ made \in Seq(Made) /\ Len(made) <= MaxOps
      /\ outbox \in [Devices -> SUBSET Ops] /\ base \in [Devices -> Values]
      /\ overlay \in [Devices -> Partial] /\ cursor \in [Devices -> Nat]
  BY <1>2 DEF DeviceTypes
<1>4. Len(made) \in Nat /\ Len(made) < MaxOps /\ MaxOps \in Nat
  BY <1>3, ConflictsAssumption DEF applyLocally
<1>5. PICK o \in Nat : o = Len(made) + 1
  BY <1>4
<1>6. o \in Ops /\ o # 0
  BY <1>4, <1>5 DEF Ops
<1>1. /\ made' = Append(made, m)
      /\ overlay' = [overlay EXCEPT ![d] = applyOp(@, base[d], u, o)]
      /\ outbox' = [outbox EXCEPT ![d] = kept \cup {o}]
      /\ base' = base /\ cursor' = cursor /\ cycle' = cycle /\ torn' = torn
      /\ UNCHANGED <<server, now>>
  BY <1>3, <1>5 DEF applyLocally
<1>7. m \in Made
  <2>1. base[d][u] \in Nat
    BY <1>3 DEF Values
  <2> QED
    BY <1>3, <2>1, ConflictsAssumption DEF Made
<1>8. m.device = d /\ m.unit = u /\ m.seen = cursor[d] /\ m.known = base[d][u]
  OBVIOUS
<1> HIDE DEF m
<1>9. /\ made' \in Seq(Made) /\ Len(made') = o /\ DOMAIN made' = DOMAIN made \cup {o}
      /\ o \notin DOMAIN made /\ made'[o] = m
      /\ \A i \in DOMAIN made : made'[i] = made[i] /\ i < o
  BY <1>1, <1>3, <1>5, <1>7, AppendMade
<1>10. /\ kept \in SUBSET outbox[d]
       /\ \A p \in outbox[d] : p \notin kept => made[p].unit = u
  BY DEF PendingOn
<1> HIDE DEF kept
<1>11. /\ outbox' \in [Devices -> SUBSET Ops] /\ outbox'[d] = kept \cup {o}
       /\ \A e \in Devices : e # d => outbox'[e] = outbox[e]
  BY <1>1, <1>3, <1>6, <1>10
<1>12. /\ overlay' \in [Devices -> Partial] /\ \A e \in Devices : e # d => overlay'[e] = overlay[e]
       /\ DOMAIN overlay'[d] = DOMAIN overlay[d] \cup UnitsIn(Writes(u))
       /\ u \in DOMAIN overlay'[d] => overlay'[d][u] = o
       /\ \A v \in DOMAIN overlay[d] : v # u => overlay'[d][v] = overlay[d][v]
  <2> DEFINE new == applyOp(overlay[d], base[d], u, o)
  <2>1. overlay[d] \in Partial /\ base[d] \in Values
    BY <1>3
  <2>2. /\ new \in Partial
        /\ DOMAIN new = DOMAIN overlay[d] \cup UnitsIn(Writes(u))
        /\ u \in DOMAIN new => new[u] = o
        /\ \A v \in DOMAIN overlay[d] : v # u => new[v] = overlay[d][v]
    <3>1. PICK ov \in Partial, bs \in Values : ov = overlay[d] /\ bs = base[d]
      BY <2>1
    <3>2. LET next == applyOp(ov, bs, u, o) IN
          /\ next \in Partial
          /\ DOMAIN next = DOMAIN ov \cup UnitsIn(Writes(u))
          /\ u \in DOMAIN next => next[u] = o
          /\ \A v \in DOMAIN ov : v # u => next[v] = ov[v]
      BY ApplyFacts
    <3> QED
      BY <3>1, <3>2
  <2>3. overlay' = [overlay EXCEPT ![d] = new]
    BY <1>1
  <2> HIDE DEF new
  <2>4. /\ overlay' \in [Devices -> Partial] /\ overlay'[d] = new
        /\ \A e \in Devices : e # d => overlay'[e] = overlay[e]
    BY <1>3, <2>2, <2>3
  <2> QED
    BY <2>2, <2>4
<1>13. held' = held /\ stamp' = stamp /\ options_seq' = options_seq /\ sync_seq' = sync_seq
       /\ decided' = decided /\ Present' = Present /\ now' = now
  BY <1>1 DEF server, Present
<1>14. o <= MaxOps
  BY <1>4, <1>5
<1>15. DeviceTypes'
  BY <1>1, <1>2, <1>9, <1>11, <1>12, <1>14 DEF DeviceTypes
<1>16. BatchInv(d) /\ PendingInv(d) /\ BaseInv(d) /\ AnswerInv(d) /\ OverlayInv(d)
  BY <1>2 DEF DeviceInv
<1>17. decided[o].verdict = "none" /\ Present.decided = decided /\ Present.held = held
  <2>1. Present.decided = decided /\ Present.held = held
    BY DEF Present
  <2> QED
    BY <2>1, <1>2, <1>6, <1>9 DEF PresentInv, RequestsBy
<1>18. PresentInv'
  <2>1. ServerTypes'
    BY <1>2, <1>13 DEF PresentInv, ServerTypes
  <2>2. ServerInv(Present)
    BY <1>2 DEF PresentInv
  <2>3. HoldsApplied(Present)'
    BY <1>9, <1>13, <2>2 DEF ServerInv, HoldsApplied
  <2>4. StampsApplied(Present)'
    <3> SUFFICES ASSUME NEW i \in DOMAIN made', Present.decided[i].verdict = "applied"
        PROVE  \A r \in Stamped(made'[i].unit) : Present.decided[i].seq <= Present.stamp[r]
      BY <1>13 DEF StampsApplied
    <3>1. i \in DOMAIN made
      BY <1>9, <1>17
    <3> QED
      BY <3>1, <1>9, <2>2 DEF ServerInv, StampsApplied
  <2>5. AllJudged(Present)'
    <3> SUFFICES ASSUME NEW i \in DOMAIN made', Present.decided[i].verdict # "none"
        PROVE  Judged(Present, i)'
      BY <1>13 DEF AllJudged
    <3>1. i \in DOMAIN made
      BY <1>9, <1>17
    <3>2. Judged(Present, i)
      BY <3>1, <2>2 DEF ServerInv, AllJudged
    <3>3. made'[i] = made[i]
      BY <3>1, <1>9
    <3>4. Present.decided[i].met # 0 => /\ Present.decided[i].met \in DOMAIN made'
                                        /\ made'[Present.decided[i].met] = made[Present.decided[i].met]
      BY <3>2, <1>9 DEF Judged
    <3> QED
      BY <3>2, <3>3, <3>4, <1>13 DEF Judged
  <2>6. KnewHeld(Present)'
    <3> SUFFICES ASSUME NEW i \in DOMAIN made', Present.decided[i].verdict = "none",
                        SeqOf(Present, made'[i].unit) <= made'[i].seen
        PROVE  made'[i].known = Present.held[made'[i].unit]
      BY <1>13 DEF KnewHeld
    <3>1. CASE i \in DOMAIN made
      BY <3>1, <1>9, <2>2 DEF ServerInv, KnewHeld
    <3>2. CASE i = o
      <4>1. SeqOf(Present, u) <= cursor[d]
        BY <3>2, <1>8, <1>9
      <4>2. base[d][u] = held[u]
        BY <4>1, <1>16 DEF BaseInv
      <4> QED
        BY <4>2, <3>2, <1>8, <1>9, <1>17
    <3> QED
      BY <3>1, <3>2, <1>9
  <2>7. RequestsBy(Present, sync_seq)'
    <3>1. RequestsBy(Present, sync_seq) /\ cursor[d] <= sync_seq
      BY <1>2, <1>16 DEF PresentInv, BatchInv
    <3>2. \A i \in DOMAIN made' : made'[i].seen <= sync_seq
      BY <3>1, <1>8, <1>9 DEF RequestsBy
    <3>3. \A i \in Ops \ DOMAIN made' : Present.decided[i].verdict = "none"
      BY <3>1, <1>9 DEF RequestsBy
    <3> QED
      BY <1>13, <3>1, <3>2, <3>3 DEF RequestsBy
  <2> QED
    BY <2>1, <2>3, <2>4, <2>5, <2>6, <2>7 DEF PresentInv, ServerInv
<1>19. ValuesMade'
  <2>1. /\ \A v \in Units : held[v] <= Len(made) /\ held[v] \in Nat
        /\ \A e \in Devices : /\ \A v \in Units : base[e][v] <= Len(made) /\ base[e][v] \in Nat
                              /\ \A v \in DOMAIN cycle[e].page : /\ cycle[e].page[v] <= Len(made)
                                                                 /\ cycle[e].page[v] \in Nat
    <3>1. \A v \in Units : held[v] \in Nat
      BY <1>2 DEF PresentInv, ServerTypes, Values
    <3>2. \A e \in Devices : \A v \in Units : base[e][v] \in Nat
      BY <1>3 DEF Values
    <3>3. \A e \in Devices : cycle[e].page \in Partial
      BY <1>2, CycleFields DEF DeviceTypes
    <3>4. \A e \in Devices : \A v \in DOMAIN cycle[e].page : cycle[e].page[v] \in Nat
      BY <3>3, PartialFacts
    <3> QED
      BY <3>1, <3>2, <3>4, <1>2 DEF ValuesMade
  <2>2. \A n \in Nat : n <= Len(made) => n <= o
    BY <1>4, <1>5
  <2> QED
    BY <1>1, <1>9, <1>13, <2>1, <2>2 DEF ValuesMade
<1>20. ASSUME NEW e \in Devices, e # d PROVE DeviceInv(e)'
  <2>1. UNCHANGED server /\ cycle' = cycle /\ cursor' = cursor /\ base' = base /\ torn' = torn
    BY <1>1
  <2>2. \A i \in DOMAIN made : i \in DOMAIN made' /\ made'[i] = made[i]
    BY <1>9
  <2>3. outbox'[e] = outbox[e] /\ overlay'[e] = overlay[e] /\ DeviceInv(e)
    BY <1>2, <1>11, <1>12, <1>20
  <2> QED
    BY <2>1, <2>2, <2>3, DeviceFrame
<1>21. /\ \A p \in outbox[d] \cup cycle[d].batch : p \in DOMAIN made /\ made'[p] = made[p] /\ p < o /\ p \in Nat
       /\ \A p \in outbox'[d] : p \in outbox[d] \/ p = o
  BY <1>2, <1>9, <1>10, <1>11, <1>16, MadeFields DEF BatchInv
<1>22. BatchInv(d)'
  <2> DEFINE c == cycle[d]
  <2>1. /\ c.stage = "idle" => c = Idle
        /\ \A p \in outbox[d] \cup c.batch : made[p].device = d
        /\ \A p \in outbox[d] \ c.batch, b \in c.batch : b < p
        /\ c.stage # "idle" =>
             /\ \A p \in outbox[d] \ c.batch : decided[p].verdict = "none"
             /\ \A b \in c.batch : decided[b].verdict # "none"
             /\ cursor[d] < c.seq /\ c.seq <= sync_seq
        /\ c.stage \in {"acknowledged", "rebased"} => outbox[d] \cap c.batch = {}
        /\ cursor[d] <= sync_seq
        /\ \A p \in outbox[d] \cup c.batch : decided[p].verdict # "none" => cursor[d] < decided[p].seq
    BY <1>16 DEF BatchInv
  <2> HIDE DEF c
  <2>2. outbox'[d] \cup c.batch \subseteq DOMAIN made'
    BY <1>9, <1>21 DEF c
  <2>3. \A p \in outbox'[d] \cup c.batch : made'[p].device = d
    BY <2>1, <1>8, <1>9, <1>21 DEF c
  <2>4. \A p \in outbox'[d] \ c.batch, b \in c.batch : b < p
    BY <2>1, <1>21 DEF c
  <2>5. \A p \in outbox'[d] \ c.batch : p \in outbox[d] \ c.batch \/ decided[p].verdict = "none"
    BY <1>17, <1>21
  <2>6. outbox'[d] \cap c.batch \subseteq outbox[d] \cap c.batch
    BY <1>9, <1>21 DEF c
  <2>7. \A p \in outbox'[d] \cup c.batch : p \in outbox[d] \cup c.batch \/ decided[p].verdict = "none"
    BY <1>17, <1>21
  <2>8. cycle'[d] = c
    BY <1>1 DEF c
  <2> QED
    BY <1>1, <1>13, <2>1, <2>2, <2>3, <2>4, <2>5, <2>6, <2>7, <2>8 DEF BatchInv
<1>23. PendingInv(d)'
  <2>1. DOMAIN overlay[d] \subseteq CascadeUnits
    BY <1>16 DEF PendingInv
  <2>2. UnitsIn(Writes(u)) \subseteq CascadeUnits
    <3> SUFFICES ASSUME NEW v \in UnitsIn(Writes(u)) PROVE v \in CascadeUnits
      OBVIOUS
    <3>1. v \in Units /\ RowOf(v) \in Writes(u)
      BY DEF UnitsIn
    <3>2. Writes(u) \subseteq CascadeRows
      BY UnitFacts
    <3> QED
      BY <3>1, <3>2, UnitFacts
  <2>3. ASSUME NEW v \in CascadeUnits, NEW p \in outbox'[d], made'[p].unit = v,
               \A x \in outbox'[d] : made'[x].unit = v => x <= p
        PROVE  v \in DOMAIN overlay'[d] /\ overlay'[d][v] = p
    <3>1. CASE v = u
      <4>1. o <= p
        BY <2>3, <3>1, <1>8, <1>9, <1>11
      <4>2. p = o
        BY <4>1, <1>21
      <4>3. v \in UnitsIn(Writes(v))
        BY UnitFacts DEF UnitsIn
      <4> QED
        BY <4>2, <4>3, <3>1, <1>12
    <3>2. CASE v # u
      <4>1. p \in outbox[d]
        BY <2>3, <3>2, <1>8, <1>9, <1>21
      <4>2. made[p].unit = v
        BY <4>1, <2>3, <1>21
      <4>3. ASSUME NEW x \in outbox[d], made[x].unit = v PROVE x <= p
        <5>1. x \in outbox'[d]
          BY <4>3, <3>2, <1>10, <1>11
        <5> QED
          BY <5>1, <4>3, <2>3, <1>21
      <4>4. v \in DOMAIN overlay[d] /\ overlay[d][v] = p
        BY <4>1, <4>2, <4>3, <1>16 DEF PendingInv
      <4> QED
        BY <4>4, <3>2, <1>12
    <3> QED
      BY <3>1, <3>2
  <2> QED
    BY <1>12, <2>1, <2>2, <2>3 DEF PendingInv
<1>24. BaseInv(d)'
  <2>1. Written(d)' = Written(d)
    BY <1>1 DEF Written
  <2> QED
    BY <1>1, <1>13, <1>16, <2>1 DEF BaseInv
<1>25. AnswerInv(d)'
  <2>1. \A p \in cycle[d].batch : made'[p] = made[p]
    BY <1>21
  <2> SUFFICES ASSUME cycle[d].stage # "idle"
      PROVE  /\ \A r \in cycle[d].rows : cursor[d] < stamp[r]
             /\ ~cycle[d].foreign => \A r \in cycle[d].rows \cap CascadeRows :
                  \E p \in cycle[d].batch : made'[p].unit \in CascadeUnits /\ r \in Stamped(made'[p].unit)
             /\ \A p \in cycle[d].batch :
                  decided[p].verdict = "applied" => Stamped(made'[p].unit) \subseteq cycle[d].rows
    BY <1>1, <1>13 DEF AnswerInv
  <2> QED
    BY <2>1, <1>16 DEF AnswerInv
<1>26. OverlayInv(d)'
  <2>1. Left(d)' \subseteq Left(d)
    <3> SUFFICES ASSUME NEW r \in Left(d)' PROVE r \in Left(d)
      OBVIOUS
    <3>1. /\ r \in CascadeRows /\ (\E v \in DOMAIN overlay'[d] : RowOf(v) = r)
          /\ \A p \in outbox'[d] : ~Holds(made'[p].unit, r)
      BY DEF Left
    <3>2. ~Holds(u, r)
      BY <3>1, <1>8, <1>9, <1>11
    <3>3. ASSUME NEW p \in outbox[d] PROVE ~Holds(made[p].unit, r)
      BY <3>1, <3>2, <1>10, <1>11, <1>21
    <3>4. PICK v \in DOMAIN overlay'[d] : RowOf(v) = r
      BY <3>1
    <3>5. v \in DOMAIN overlay[d]
      <4>1. ASSUME v \in UnitsIn(Writes(u)) PROVE FALSE
        <5>1. r \in Writes(u)
          BY <4>1, <3>4 DEF UnitsIn
        <5>2. u \in CascadeUnits
          BY <5>1, UnitFacts
        <5> QED
          BY <5>1, <5>2, <3>2, HoldsFacts
      <4> QED
        BY <4>1, <1>12
    <3> QED
      BY <3>1, <3>3, <3>4, <3>5 DEF Left
  <2>2. \A p \in cycle[d].batch : made'[p] = made[p]
    BY <1>21
  <2>3. OverlayInv(d)
    BY <1>16
  <2> QED
    BY <1>1, <1>13, <2>1, <2>2, <2>3 DEF OverlayInv
<1> QED
  BY <1>15, <1>18, <1>19, <1>20, <1>22, <1>23, <1>24, <1>25, <1>26 DEF IInv, DeviceInv

\* A request leaves what was set before it with its sequence, and gives
\* everything else its own.
LEMMA ServedSeqs ==
  ASSUME DeviceTypes, PresentInv, NEW ops \in SUBSET DOMAIN made, NEW s, NEW q \in Nat,
         Outcome(s, ops, q), NEW u \in Units
  PROVE  \/ s.held[u] = held[u] /\ SeqOf(s, u) = SeqOf(Present, u)
         \/ SeqOf(s, u) = q
<1>1. Present.held = held /\ Present.decided = decided
  BY DEF Present
<1>2. \A i \in Ops : decided[i].verdict # "none" => s.decided[i] = decided[i]
  BY DEF Outcome
<1>3. s.held[u] = held[u] \/ (s.held[u] \in ops /\ s.decided[s.held[u]].seq = q)
  BY DEF Outcome
<1>4. CASE s.held[u] = held[u]
  <2>1. held[u] # 0 => held[u] \in DOMAIN made /\ decided[held[u]].verdict = "applied"
    BY <1>1 DEF PresentInv, ServerInv, HoldsApplied
  <2>2. held[u] # 0 => s.decided[held[u]] = decided[held[u]]
    BY <2>1, <1>2, MadeFields
  <2> QED
    BY <1>1, <1>4, <2>2 DEF SeqOf
<1>5. CASE s.held[u] \in ops /\ s.decided[s.held[u]].seq = q
  <2>1. s.held[u] # 0
    BY <1>5, MadeFields
  <2> QED
    BY <1>5, <2>1 DEF SeqOf
<1> QED
  BY <1>3, <1>4, <1>5

\* The server's invariant after a request.
LEMMA ServeKeepsPresent ==
  ASSUME DeviceTypes, PresentInv, NEW s, NEW ops, NEW q \in Nat, Outcome(s, ops, q),
         made' = made, sync_seq' = q, now' \in Nat,
         held' = s.held, stamp' = s.stamp, options_seq' = s.options_seq, decided' = s.decided
  PROVE  PresentInv' /\ Present' = s
<1>1. s \in Servers /\ ServerInv(s) /\ RequestsBy(s, q)
  BY DEF Outcome
<1>2. Present' = s
  BY <1>1 DEF Servers, Present
<1>3. ServerTypes'
  BY <1>1 DEF ServerTypes, Servers
<1>4. HoldsApplied(Present)'
  BY <1>1, <1>2 DEF ServerInv, HoldsApplied
<1>5. StampsApplied(Present)'
  BY <1>1, <1>2 DEF ServerInv, StampsApplied
<1>6. AllJudged(Present)'
  BY <1>1, <1>2 DEF ServerInv, AllJudged, Judged
<1>7. KnewHeld(Present)'
  BY <1>1, <1>2 DEF ServerInv, KnewHeld
<1>8. RequestsBy(Present, sync_seq)'
  BY <1>1, <1>2 DEF RequestsBy
<1> QED
  BY <1>2, <1>3, <1>4, <1>5, <1>6, <1>7, <1>8 DEF PresentInv, ServerInv

LEMMA ServeKeeps ==
  ASSUME IInv, NEW d \in Devices, NEW t \in Nat, Serve(d, t)
  PROVE  IInv'
<1>2. DeviceTypes /\ PresentInv /\ ValuesMade /\ \A e \in Devices : DeviceInv(e)
  BY DEF IInv
<1>3. /\ outbox \in [Devices -> SUBSET Ops] /\ cycle \in [Devices -> Cycles]
      /\ cursor \in [Devices -> Nat] /\ overlay \in [Devices -> Partial] /\ sync_seq \in Nat
  BY <1>2 DEF DeviceTypes, PresentInv, ServerTypes
<1>4. PICK q \in Nat : q = sync_seq + 1
  BY <1>3
<1> DEFINE ops == outbox[d]
           s == Served(ops, q, t)
           rows == {r \in Rows : s.stamp[r] > cursor[d]}
           page == [u \in UnitsIn(rows) |-> s.held[u]]
           c == [stage |-> "answered", batch |-> ops, seq |-> q, rows |-> rows, page |-> page,
                 foreign |-> \E r \in rows \cap CascadeRows : s.stamp[r] # q]
<1>1. /\ cycle[d].stage = "idle" /\ sync_seq' = q /\ now' = t
      /\ held' = s.held /\ stamp' = s.stamp /\ options_seq' = s.options_seq /\ decided' = s.decided
      /\ cycle' = [cycle EXCEPT ![d] = c]
      /\ made' = made /\ outbox' = outbox /\ base' = base /\ overlay' = overlay
      /\ cursor' = cursor /\ torn' = torn
  BY <1>4 DEF Serve
<1>5. ops \in SUBSET DOMAIN made /\ ops \in SUBSET Ops /\ \A o \in ops : made[o].device = d
  BY <1>2, <1>3 DEF DeviceInv, BatchInv
<1>6. Outcome(s, ops, q)
  <2>1. Outcome(Served(ops, sync_seq + 1, t), ops, sync_seq + 1)
    BY <1>2, <1>5, ServedFacts DEF PresentInv
  <2> QED
    BY <2>1, <1>4
<1> HIDE DEF s
<1>7. /\ s \in Servers /\ ServerInv(s) /\ RequestsBy(s, q)
      /\ \A i \in Ops : decided[i].verdict # "none" \/ i \notin ops => s.decided[i] = decided[i]
      /\ \A i \in ops : /\ s.decided[i].verdict # "none"
                        /\ decided[i].verdict = "none" => s.decided[i].seq = q
      /\ \A u \in Units : s.held[u] = held[u] \/ s.held[u] \in ops
      /\ \A r \in Rows : /\ stamp[r] <= s.stamp[r]
                         /\ \/ s.stamp[r] = stamp[r]
                            \/ s.stamp[r] = q /\ \E o \in ops : r \in Stamped(made[o].unit)
  BY <1>6 DEF Outcome
<1>8. PresentInv' /\ Present' = s
  BY <1>1, <1>2, <1>6, ServeKeepsPresent
\* The answer.
<1>9. /\ rows \in SUBSET Rows /\ DOMAIN page = UnitsIn(rows)
      /\ \A u \in UnitsIn(rows) : page[u] = s.held[u] /\ u \in Units
      /\ page \in Partial
  <2>1. UnitsIn(rows) \in SUBSET Units
    BY DEF UnitsIn
  <2>2. \A u \in Units : s.held[u] \in Nat
    BY <1>7, ServerFields
  <2>3. page \in [UnitsIn(rows) -> Nat]
    <3> HIDE DEF rows
    <3> QED
      BY <2>1, <2>2
  <2> QED
    BY <2>1, <2>3, PartialFacts
<1>10. /\ c.stage = "answered" /\ c.batch = ops /\ c.seq = q /\ c.rows = rows /\ c.page = page
       /\ c.foreign = \E r \in rows \cap CascadeRows : s.stamp[r] # q
  OBVIOUS
<1>11. c \in Cycles
  <2> HIDE DEF rows, page, ops
  <2> QED
    BY <1>5, <1>9 DEF Cycles, Stages
<1> HIDE DEF c, page
<1>12. /\ cycle' \in [Devices -> Cycles] /\ cycle'[d] = c
       /\ \A e \in Devices : e # d => cycle'[e] = cycle[e]
  BY <1>1, <1>3, <1>11
<1>13. DeviceTypes'
  BY <1>1, <1>2, <1>12 DEF DeviceTypes
<1>14. ValuesMade'
  <2>1. ASSUME NEW u \in Units PROVE s.held[u] <= Len(made)
    <3>1. held[u] <= Len(made)
      BY <1>2 DEF ValuesMade
    <3>2. \A o \in ops : o <= Len(made)
      BY <1>2, <1>5, MadeFields
    <3> QED
      BY <3>1, <3>2, <1>7
  <2>2. ASSUME NEW e \in Devices
        PROVE  /\ \A u \in Units : base[e][u] <= Len(made)
               /\ \A u \in DOMAIN cycle'[e].page : cycle'[e].page[u] <= Len(made)
    <3>1. /\ \A u \in Units : base[e][u] <= Len(made)
          /\ \A u \in DOMAIN cycle[e].page : cycle[e].page[u] <= Len(made)
      BY <1>2 DEF ValuesMade
    <3>2. \A u \in DOMAIN c.page : c.page[u] <= Len(made)
      BY <2>1, <1>9, <1>10
    <3> QED
      BY <3>1, <3>2, <1>12
  <2> QED
    BY <1>1, <2>1, <2>2 DEF ValuesMade
<1>15. ASSUME NEW u \in Units
       PROVE  /\ \/ s.held[u] = held[u] /\ SeqOf(s, u) = SeqOf(Present, u)
                 \/ SeqOf(s, u) = q
              /\ SeqOf(s, u) \in Nat /\ SeqOf(s, u) <= s.stamp[RowOf(u)]
              /\ RowOf(u) \in Rows /\ s.stamp[RowOf(u)] \in Nat
  <2>1. \/ s.held[u] = held[u] /\ SeqOf(s, u) = SeqOf(Present, u)
        \/ SeqOf(s, u) = q
    BY <1>2, <1>5, <1>6, ServedSeqs
  <2>2. SeqOf(Present, u) \in Nat
    BY <1>2, SeqOfType
  <2>3. RowOf(u) \in Rows /\ s.stamp[RowOf(u)] \in Nat
    BY <1>7, UnitFacts, ServerFields
  <2>4. SeqOf(s, u) <= s.stamp[RowOf(u)]
    <3>1. CASE s.held[u] = 0
      BY <3>1, <2>3 DEF SeqOf
    <3>2. CASE s.held[u] # 0
      BY <3>2, <1>7 DEF ServerInv, HoldsApplied
    <3> QED
      BY <3>1, <3>2
  <2> QED
    BY <2>1, <2>2, <2>3, <2>4
\* What all devices keep.
<1>16. ASSUME NEW e \in Devices
       PROVE  /\ cursor[e] \in Nat /\ cursor[e] < q /\ cursor[e] <= q
              /\ \A u \in Units : SeqOf(s, u) <= cursor[e] => base[e][u] = s.held[u]
              /\ \A r : Due(r, {x \in Rows : cursor[e] < stamp[x]}) =>
                        Due(r, {x \in Rows : cursor[e] < s.stamp[x]})
  <2>1. cursor[e] <= sync_seq /\ cursor[e] \in Nat
    BY <1>2, <1>3 DEF DeviceInv, BatchInv
  <2>2. cursor[e] < q /\ cursor[e] <= q
    BY <2>1, <1>3, <1>4
  <2>3. ASSUME NEW u \in Units, SeqOf(s, u) <= cursor[e] PROVE base[e][u] = s.held[u]
    <3>1. SeqOf(s, u) # q
      BY <2>1, <2>2, <2>3
    <3>2. s.held[u] = held[u] /\ SeqOf(s, u) = SeqOf(Present, u)
      BY <3>1, <1>15
    <3> QED
      BY <2>3, <3>2, <1>2 DEF DeviceInv, BaseInv
  <2>4. ASSUME NEW x \in Rows, cursor[e] < stamp[x] PROVE cursor[e] < s.stamp[x]
    <3>1. stamp[x] \in Nat /\ s.stamp[x] \in Nat /\ stamp[x] <= s.stamp[x]
      BY <1>2, <1>7, ServerFields DEF PresentInv, ServerTypes
    <3> QED
      BY <3>1, <2>1, <2>4
  <2>5. ASSUME NEW r, Due(r, {x \in Rows : cursor[e] < stamp[x]})
        PROVE  Due(r, {x \in Rows : cursor[e] < s.stamp[x]})
    BY <2>4, <2>5 DEF Due
  <2> QED
    BY <2>1, <2>2, <2>3, <2>5
<1>17. ASSUME NEW e \in Devices, e # d PROVE DeviceInv(e)'
  <2>0. BatchInv(e) /\ PendingInv(e) /\ BaseInv(e) /\ AnswerInv(e) /\ OverlayInv(e)
    BY <1>2 DEF DeviceInv
  <2>1. cycle'[e] = cycle[e]
    BY <1>12, <1>17
  <2>2. \A o \in outbox[e] \cup cycle[e].batch : s.decided[o] = decided[o]
    <3> SUFFICES ASSUME NEW o \in outbox[e] \cup cycle[e].batch PROVE s.decided[o] = decided[o]
      OBVIOUS
    <3>1. made[o].device = e /\ o \in DOMAIN made
      BY <2>0 DEF BatchInv
    <3>2. o \notin ops /\ o \in Ops
      BY <3>1, <1>2, <1>5, <1>17, MadeFields
    <3> QED
      BY <3>2, <1>7
  <2>3. cycle[e].stage # "idle" => cycle[e].seq \in Nat /\ cycle[e].seq <= q /\ cycle[e].seq < q
    <3>1. cycle[e].seq \in Nat
      BY <1>3, CycleFields
    <3>2. cycle[e].stage # "idle" => cycle[e].seq <= sync_seq
      BY <2>0 DEF BatchInv
    <3> QED
      BY <3>1, <3>2, <1>3, <1>4
  <2>4. BatchInv(e)'
    BY <1>1, <1>16, <2>0, <2>1, <2>2, <2>3 DEF BatchInv
  <2>5. PendingInv(e)'
    BY <1>1, <2>0 DEF PendingInv
  <2>6. BaseInv(e)'
    <3>1. Written(e)' = Written(e)
      BY <2>1 DEF Written
    <3>2. ASSUME cycle[e].stage # "idle", NEW u \in Units, SeqOf(s, u) <= cycle[e].seq
          PROVE  /\ RowOf(u) \in cycle[e].rows => cycle[e].page[u] = s.held[u]
                 /\ RowOf(u) \notin cycle[e].rows => SeqOf(s, u) <= cursor[e]
                 /\ RowOf(u) \in Written(e) => base[e][u] = s.held[u]
      <4>1. SeqOf(s, u) # q
        BY <3>2, <2>3
      <4>2. s.held[u] = held[u] /\ SeqOf(s, u) = SeqOf(Present, u)
        BY <4>1, <1>15
      <4> QED
        BY <3>2, <4>2, <2>0 DEF BaseInv
    <3>3. cycle[e].stage # "idle" => DOMAIN cycle[e].page = UnitsIn(cycle[e].rows)
      BY <2>0 DEF BaseInv
    <3> QED
      BY <1>1, <1>8, <1>16, <2>1, <3>1, <3>2, <3>3 DEF BaseInv
  <2>7. AnswerInv(e)'
    <3> SUFFICES ASSUME cycle[e].stage # "idle"
        PROVE  /\ \A r \in cycle[e].rows : cursor[e] < s.stamp[r]
               /\ ~cycle[e].foreign => \A r \in cycle[e].rows \cap CascadeRows :
                    \E o \in cycle[e].batch : made[o].unit \in CascadeUnits /\ r \in Stamped(made[o].unit)
               /\ \A o \in cycle[e].batch :
                    s.decided[o].verdict = "applied" => Stamped(made[o].unit) \subseteq cycle[e].rows
      BY <1>1, <2>1 DEF AnswerInv
    <3>1. ASSUME NEW r \in cycle[e].rows PROVE cursor[e] < s.stamp[r]
      <4>1. r \in Rows /\ cursor[e] < stamp[r]
        BY <2>0, <1>3, CycleFields DEF AnswerInv
      <4>2. stamp[r] \in Nat /\ s.stamp[r] \in Nat /\ stamp[r] <= s.stamp[r]
        BY <4>1, <1>2, <1>7, ServerFields DEF PresentInv, ServerTypes
      <4> QED
        BY <4>1, <4>2, <1>16
    <3> QED
      BY <2>0, <2>2, <3>1 DEF AnswerInv
  <2>8. OverlayInv(e)'
    <3>1. Left(e)' = Left(e)
      BY <1>1 DEF Left
    <3>2. \A o \in cycle[e].batch : s.decided[o] = decided[o]
      BY <2>2
    <3> QED
      BY <1>1, <1>16, <2>0, <2>1, <3>1, <3>2 DEF OverlayInv
  <2> QED
    BY <2>4, <2>5, <2>6, <2>7, <2>8 DEF DeviceInv
<1>18. DeviceInv(d)'
  <2>0. BatchInv(d) /\ PendingInv(d) /\ BaseInv(d) /\ AnswerInv(d) /\ OverlayInv(d)
    BY <1>2 DEF DeviceInv
  <2>1. cursor[d] \in Nat /\ cursor[d] < q /\ cursor[d] <= q
        /\ \A u \in Units : SeqOf(s, u) <= cursor[d] => base[d][u] = s.held[u]
    BY <1>16
  <2>2. \A r : r \in rows <=> r \in Rows /\ cursor[d] < s.stamp[r]
    <3>1. \A r \in Rows : s.stamp[r] \in Nat
      BY <1>7, ServerFields
    <3> QED
      BY <3>1, <2>1
  <2> HIDE DEF rows
  <2>3. \A o \in ops : s.decided[o].verdict # "none" /\ cursor[d] < s.decided[o].seq
    <3> SUFFICES ASSUME NEW o \in ops PROVE s.decided[o].verdict # "none" /\ cursor[d] < s.decided[o].seq
      OBVIOUS
    <3>1. CASE decided[o].verdict = "none"
      BY <3>1, <1>7, <2>1
    <3>2. CASE decided[o].verdict # "none"
      <4>1. s.decided[o] = decided[o]
        BY <3>2, <1>5, <1>7
      <4>2. cursor[d] < decided[o].seq
        BY <3>2, <2>0 DEF BatchInv
      <4> QED
        BY <4>1, <4>2, <3>2
    <3> QED
      BY <3>1, <3>2
  <2>4. BatchInv(d)'
    <3>1. q <= q
      OBVIOUS
    <3>2. c.batch = outbox[d] /\ outbox[d] \ c.batch = {} /\ outbox[d] \cup c.batch = ops
      BY <1>10
    <3> QED
      BY <1>1, <1>5, <1>10, <1>12, <2>1, <2>3, <3>1, <3>2 DEF BatchInv
  <2>5. PendingInv(d)'
    BY <1>1, <2>0 DEF PendingInv
  <2>6. BaseInv(d)'
    <3>1. Written(d)' = {}
      BY <1>10, <1>12 DEF Written
    <3>2. ASSUME NEW u \in Units
          PROVE  /\ RowOf(u) \in rows => page[u] = s.held[u]
                 /\ RowOf(u) \notin rows => SeqOf(s, u) <= cursor[d]
      <4>1. RowOf(u) \in rows => u \in UnitsIn(rows)
        BY DEF UnitsIn
      <4>2. ASSUME RowOf(u) \notin rows PROVE SeqOf(s, u) <= cursor[d]
        <5>1. /\ SeqOf(s, u) \in Nat /\ SeqOf(s, u) <= s.stamp[RowOf(u)]
              /\ RowOf(u) \in Rows /\ s.stamp[RowOf(u)] \in Nat
          BY <1>15
        <5>2. ~(cursor[d] < s.stamp[RowOf(u)])
          BY <4>2, <5>1, <2>2
        <5> QED
          BY <5>1, <5>2, <2>1
      <4> QED
        BY <4>1, <4>2, <1>9
    <3> QED
      BY <1>1, <1>8, <1>9, <1>10, <1>12, <2>1, <3>1, <3>2 DEF BaseInv
  <2>7. AnswerInv(d)'
    <3>1. ASSUME NEW r \in rows \cap CascadeRows, s.stamp[r] = q
          PROVE  \E o \in ops : made[o].unit \in CascadeUnits /\ r \in Stamped(made[o].unit)
      <4>1. r \in Rows /\ r # "preferences"
        BY <2>2 DEF CascadeRows
      <4>2. stamp[r] # q
        <5>1. Present.stamp[r] <= sync_seq
          BY <4>1, <1>2 DEF PresentInv, RequestsBy
        <5>2. stamp[r] <= sync_seq /\ stamp[r] \in Nat
          BY <5>1, <4>1, <1>2 DEF Present, PresentInv, ServerTypes
        <5> QED
          BY <5>2, <1>3, <1>4
      <4>3. PICK o \in ops : r \in Stamped(made[o].unit)
        BY <3>1, <4>1, <4>2, <1>7
      <4>4. made[o].unit \in Units
        BY <1>2, <1>5, MadeFields
      <4> QED
        BY <4>1, <4>3, <4>4, UnitFacts
    <3>2. ASSUME NEW o \in ops, s.decided[o].verdict = "applied"
          PROVE  Stamped(made[o].unit) \subseteq rows
      <4> SUFFICES ASSUME NEW r \in Stamped(made[o].unit) PROVE r \in rows
        OBVIOUS
      <4>1. o \in DOMAIN made /\ o \in Ops
        BY <1>5
      <4>2. made[o].unit \in Units
        BY <4>1, <1>2, MadeFields
      <4>3. r \in Rows
        BY <4>2, UnitFacts
      <4>4. s.decided[o].seq <= s.stamp[r]
        BY <3>2, <4>1, <1>7 DEF ServerInv, StampsApplied
      <4>5. s.decided[o].seq \in Nat /\ s.stamp[r] \in Nat
        BY <4>1, <4>3, <1>7, ServerFields
      <4>6. cursor[d] < s.decided[o].seq
        BY <2>3
      <4> QED
        BY <4>3, <4>4, <4>5, <4>6, <2>1, <2>2
    <3>3. \A r \in rows : cursor[d] < s.stamp[r]
      BY <2>2
    <3>4. ~c.foreign => \A r \in rows \cap CascadeRows :
             \E o \in ops : made[o].unit \in CascadeUnits /\ r \in Stamped(made[o].unit)
      BY <1>10, <3>1
    <3> HIDE DEF ops
    <3> QED
      BY <1>1, <1>10, <1>12, <3>2, <3>3, <3>4 DEF AnswerInv
  <2>8. OverlayInv(d)'
    <3>1. Left(d)' = Left(d)
      BY <1>1 DEF Left
    <3>2. \A r : Due(r, {x \in Rows : cursor[d] < s.stamp[x]}) => Due(r, rows)
      <4>1. {x \in Rows : cursor[d] < s.stamp[x]} = rows
        BY <2>2
      <4> QED
        BY <4>1
    <3>3. d \notin torn => \A r \in Left(d) : Due(r, {x \in Rows : cursor[d] < stamp[x]})
      BY <1>1, <2>0 DEF OverlayInv
    <3>4. d \notin torn => \A r \in Left(d) : Due(r, rows)
      BY <3>2, <3>3, <1>16
    <3> QED
      BY <1>1, <1>10, <1>12, <3>1, <3>4 DEF OverlayInv
  <2> QED
    BY <2>4, <2>5, <2>6, <2>7, <2>8 DEF DeviceInv
<1> QED
  BY <1>8, <1>13, <1>14, <1>17, <1>18 DEF IInv

-----------------------------------------------------------------------------
(* The theorems                                                            *)

LEMMA InitHolds == Init => IInv
<1> SUFFICES ASSUME Init PROVE IInv
  OBVIOUS
<1>1. /\ made = <<>> /\ outbox = [d \in Devices |-> {}]
      /\ base = [d \in Devices |-> [u \in Units |-> 0]]
      /\ overlay = [d \in Devices |-> [u \in {} |-> 0]]
      /\ cursor = [d \in Devices |-> 0] /\ cycle = [d \in Devices |-> Idle]
      /\ held = [u \in Units |-> 0] /\ stamp = [r \in Rows |-> 0]
      /\ options_seq = [u \in OptionUnits |-> 0] /\ sync_seq = 0 /\ now = 0
      /\ decided = [o \in Ops |-> Undecided] /\ torn = {}
  BY DEF Init
<1>2. made \in Seq(Made) /\ Len(made) = 0 /\ DOMAIN made = {}
  BY <1>1
<1>3. [u \in {} |-> 0] \in Partial /\ DOMAIN [u \in {} |-> 0] = {}
  <2>1. [u \in {} |-> 0] \in [{} -> Nat] /\ {} \in SUBSET Units
    OBVIOUS
  <2> QED
    BY <2>1, PartialFacts
<1>4. [u \in Units |-> 0] \in Values
  BY DEF Values
<1>5. Undecided \in Decisions /\ Undecided.verdict = "none" /\ Undecided.seq = 0
  BY DEF Undecided, Decisions
<1>6. DeviceTypes
  <2>1. outbox \in [Devices -> SUBSET Ops] /\ cursor \in [Devices -> Nat] /\ torn \subseteq Devices
    BY <1>1
  <2>2. base \in [Devices -> Values]
    BY <1>1, <1>4
  <2>3. overlay \in [Devices -> Partial]
    BY <1>1, <1>3
  <2>4. cycle \in [Devices -> Cycles]
    BY <1>1, IdleType
  <2> QED
    BY <1>2, <2>1, <2>2, <2>3, <2>4, ConflictsAssumption DEF DeviceTypes
<1>7. PresentInv
  <2>1. ServerTypes
    BY <1>1, <1>4, <1>5 DEF ServerTypes
  <2>2. Present.held = held /\ Present.stamp = stamp /\ Present.decided = decided
    BY DEF Present
  <2>3. HoldsApplied(Present)
    BY <1>1, <2>2 DEF HoldsApplied
  <2>4. StampsApplied(Present) /\ AllJudged(Present) /\ KnewHeld(Present)
    BY <1>2 DEF StampsApplied, AllJudged, KnewHeld
  <2>5. RequestsBy(Present, sync_seq)
    BY <1>1, <1>2, <1>5, <2>2 DEF RequestsBy
  <2> QED
    BY <2>1, <2>3, <2>4, <2>5 DEF PresentInv, ServerInv
<1>8. Idle.stage = "idle" /\ Idle.batch = {} /\ DOMAIN Idle.page = {}
  BY DEF Idle
<1>9. ValuesMade
  BY <1>1, <1>2, <1>8 DEF ValuesMade
<1>10. ASSUME NEW d \in Devices PROVE DeviceInv(d)
  <2>1. outbox[d] = {} /\ cursor[d] = 0 /\ cycle[d] = Idle /\ DOMAIN overlay[d] = {}
        /\ \A u \in Units : base[d][u] = held[u]
    BY <1>1, <1>3
  <2>2. BatchInv(d)
    BY <1>1, <1>8, <2>1 DEF BatchInv
  <2>3. PendingInv(d) /\ BaseInv(d) /\ AnswerInv(d)
    BY <1>8, <2>1 DEF PendingInv, BaseInv, AnswerInv
  <2>4. OverlayInv(d)
    BY <1>8, <2>1 DEF OverlayInv, Left
  <2> QED
    BY <2>2, <2>3, <2>4 DEF DeviceInv
<1> QED
  BY <1>6, <1>7, <1>9, <1>10 DEF IInv

LEMMA StepKeeps == IInv /\ [Next]_vars => IInv'
<1> SUFFICES ASSUME IInv, [Next]_vars PROVE IInv'
  OBVIOUS
<1>1. CASE UNCHANGED vars
  <2>1. /\ UNCHANGED device /\ UNCHANGED server /\ now' = now
    BY <1>1 DEF vars
  <2>2. /\ made' = made /\ outbox' = outbox /\ base' = base /\ overlay' = overlay
        /\ cursor' = cursor /\ cycle' = cycle /\ torn' = torn
    BY <2>1 DEF device
  <2>3. DeviceTypes /\ PresentInv /\ ValuesMade /\ \A e \in Devices : DeviceInv(e)
    BY DEF IInv
  <2>4. PresentInv'
    BY <2>1, <2>2, <2>3, ServerFrame
  <2>5. DeviceTypes'
    BY <2>2, <2>3 DEF DeviceTypes
  <2>6. ValuesMade'
    BY <2>1, <2>2, <2>3 DEF ValuesMade, server
  <2>7. ASSUME NEW e \in Devices PROVE DeviceInv(e)'
    BY <2>1, <2>2, <2>3, DeviceFrame
  <2> QED
    BY <2>4, <2>5, <2>6, <2>7 DEF IInv
<1>2. ASSUME NEW d \in Devices, NEW u \in Units, NEW at \in Times, applyLocally(d, u, at) PROVE IInv'
  BY <1>2, ApplyLocallyKeeps
<1>3. ASSUME NEW d \in Devices, NEW t \in now .. MaxNow, Serve(d, t) PROVE IInv'
  <2>1. now \in Nat
    BY DEF IInv, PresentInv, ServerTypes
  <2>2. t \in Nat
    BY <2>1, ConflictsAssumption
  <2> QED
    BY <2>2, <1>3, ServeKeeps
<1>4. ASSUME NEW d \in Devices, writePage(d) PROVE IInv'
  BY <1>4, WritePageKeeps
<1>5. ASSUME NEW d \in Devices, Acknowledge(d) PROVE IInv'
  BY <1>5, AcknowledgeKeeps
<1>6. ASSUME NEW d \in Devices, rebaseCascade(d) PROVE IInv'
  BY <1>6, RebaseCascadeKeeps
<1>7. ASSUME NEW d \in Devices, EndRebase(d) PROVE IInv'
  BY <1>7, EndRebaseKeeps
<1>8. ASSUME NEW d \in Devices, Interrupt(d) PROVE IInv'
  BY <1>8, InterruptKeeps
<1> QED
  BY <1>1, <1>2, <1>3, <1>4, <1>5, <1>6, <1>7, <1>8 DEF Next

\* The invariant holds in every reachable state.
THEOREM InvHolds == Spec => []IInv
<1>1. Init => IInv
  BY InitHolds
<1>2. IInv /\ [Next]_vars => IInv'
  BY StepKeeps
<1> QED
  BY <1>1, <1>2, PTL DEF Spec

\* The types: what devices, server and answers hold are operations that were
\* made, and no cursor or row is ahead of the server's sequence.
THEOREM TypeCorrect == Spec => []TypeOK
<1>1. IInv => TypeOK
  <2> SUFFICES ASSUME IInv PROVE TypeOK
    OBVIOUS
  <2>1. DeviceTypes /\ PresentInv /\ ValuesMade /\ \A d \in Devices : BatchInv(d) /\ PendingInv(d)
    BY DEF IInv, DeviceInv
  <2>2. \A i \in DOMAIN made : made[i].device \in Devices /\ made[i].unit \in Units
    BY <2>1, MadeFields
  <2>3. Len(made) \in Nat /\ sync_seq \in Nat
    BY <2>1, MadeFields DEF PresentInv, ServerTypes
  <2>4. ASSUME NEW d \in Devices
        PROVE  /\ outbox[d] \subseteq DOMAIN made
               /\ \A u \in Units : base[d][u] \in 0 .. Len(made)
               /\ DOMAIN overlay[d] \subseteq CascadeUnits
               /\ cursor[d] \in 0 .. sync_seq
    <3>1. \A u \in Units : base[d][u] \in Nat /\ base[d][u] <= Len(made)
      BY <2>1 DEF DeviceTypes, Values, ValuesMade
    <3>2. cursor[d] \in Nat /\ cursor[d] <= sync_seq
      BY <2>1 DEF DeviceTypes, BatchInv
    <3> QED
      BY <2>1, <2>3, <3>1, <3>2 DEF BatchInv, PendingInv
  <2>5. \A u \in Units : held[u] \in 0 .. Len(made)
    <3>1. \A u \in Units : held[u] \in Nat /\ held[u] <= Len(made)
      BY <2>1 DEF PresentInv, ServerTypes, Values, ValuesMade
    <3> QED
      BY <2>3, <3>1
  <2>6. \A r \in Rows : stamp[r] \in 0 .. sync_seq
    <3>1. \A r \in Rows : stamp[r] \in Nat /\ stamp[r] <= sync_seq
      BY <2>1 DEF PresentInv, ServerTypes, RequestsBy, Present
    <3> QED
      BY <2>3, <3>1
  <2> QED
    BY <2>1, <2>2, <2>4, <2>5, <2>6 DEF TypeOK, DeviceTypes
<1> QED
  BY <1>1, InvHolds, PTL

\* The four tests of seen_seq (ops.rs): a change that replaces another
\* device's, which its own device had not been sent, is the later one by the
\* clamped clocks.
THEOREM UnseenYields == Spec => []UnseenYieldsToTheLater
<1>1. IInv => UnseenYieldsToTheLater
  <2> SUFFICES ASSUME IInv, NEW i \in DOMAIN made, decided[i].verdict = "applied",
                      decided[i].met # 0, made[decided[i].met].device # made[i].device,
                      decided[i].met # made[i].known
      PROVE  decided[i].at > decided[decided[i].met].at
    BY DEF UnseenYieldsToTheLater
  <2>1. AllJudged(Present) /\ Present.decided = decided /\ DeviceTypes /\ Present \in Servers
    BY DEF IInv, PresentInv, ServerInv, ServerTypes, Present, Servers
  <2>2. Judged(Present, i)
    BY <2>1 DEF AllJudged
  <2>3. decided[i].met \in DOMAIN made /\ decided[decided[i].met].at < decided[i].at
    BY <2>1, <2>2 DEF Judged
  <2>4. i \in Ops /\ decided[i].met \in Ops
    BY <2>1, <2>3, MadeFields
  <2>5. decided[i].at \in Nat /\ decided[decided[i].met].at \in Nat
    BY <2>1, <2>4, ServerFields
  <2> QED
    BY <2>3, <2>5
<1> QED
  BY <1>1, InvHolds, PTL

\* A change of a grade or of options made over the very value the server still
\* holds is not turned away by any clock (ops.rs).
THEOREM KnownWins == Spec => []KnownChangesWin
<1>1. IInv => KnownChangesWin
  <2> SUFFICES ASSUME IInv, NEW i \in DOMAIN made, made[i].unit \in {"grade", "options", "defaults"},
                      TurnedAwayKnowing(i)
      PROVE  FALSE
    BY DEF KnownChangesWin
  <2>1. AllJudged(Present) /\ Present.decided = decided /\ DeviceTypes /\ Present \in Servers
    BY DEF IInv, PresentInv, ServerInv, ServerTypes, Present, Servers
  <2>2. decided[i].verdict = "rejected" /\ decided[decided[i].met].seq <= made[i].seen
    BY DEF TurnedAwayKnowing
  <2>3. Judged(Present, i)
    BY <2>1, <2>2 DEF AllJudged
  <2>4. decided[i].met \in DOMAIN made /\ made[i].seen < decided[decided[i].met].seq
    BY <2>1, <2>2, <2>3 DEF Judged
  <2>5. decided[decided[i].met].seq \in Nat /\ made[i].seen \in Nat
    BY <2>1, <2>4, MadeFields, ServerFields
  <2> QED
    BY <2>2, <2>4, <2>5
<1> QED
  BY <1>1, InvHolds, PTL

\* A change shows on its device until it is answered, through pulls, rebases
\* and interruptions (rebase.ts steps 3 and 4).
THEOREM PendingShows == Spec => []PendingStaysShown
<1>1. IInv => PendingStaysShown
  <2> SUFFICES ASSUME IInv, NEW d \in Devices, NEW u \in Units, PendingOn(d, u) # {}
      PROVE  View(d, u) = Highest(PendingOn(d, u))
    BY DEF PendingStaysShown
  <2>1. CASE u \notin CascadeUnits
    BY <2>1 DEF View
  <2>2. CASE u \in CascadeUnits
    <3> DEFINE S == PendingOn(d, u)
               o == Highest(S)
    <3>1. outbox[d] \in SUBSET Ops /\ PendingInv(d)
      BY DEF IInv, DeviceInv, DeviceTypes
    <3>2. S \in SUBSET Ops /\ S # {} /\ \A p : p \in S <=> p \in outbox[d] /\ made[p].unit = u
      BY <3>1 DEF PendingOn
    <3> HIDE DEF S
    <3>3. o \in S /\ \A p \in S : p <= o
      BY <3>2, HighestIsLast
    <3> HIDE DEF o
    <3>4. u \in DOMAIN overlay[d] /\ overlay[d][u] = o
      BY <3>1, <3>2, <3>3, <2>2 DEF PendingInv
    <3> QED
      BY <3>4, <2>2 DEF View, Shown, o, S
  <2> QED
    BY <2>1, <2>2
<1> QED
  BY <1>1, InvHolds, PTL

\* With nothing pending and nothing to pull, every device shows what the
\* server holds, unless an interruption lost it a rejection (rebase.ts).
THEOREM SettledAgree == Spec => []SettledDevicesAgree
<1>1. IInv => SettledDevicesAgree
  <2> SUFFICES ASSUME IInv, NEW d \in Devices, d \notin torn, cycle[d] = Idle, outbox[d] = {},
                      cursor[d] = sync_seq, NEW u \in Units
      PROVE  View(d, u) = held[u]
    BY DEF SettledDevicesAgree
  <2>1. /\ DeviceTypes /\ PresentInv /\ PendingInv(d) /\ BaseInv(d) /\ OverlayInv(d)
    BY DEF IInv, DeviceInv
  <2>2. base[d][u] = held[u]
    BY <2>1, SeqOfType DEF BaseInv
  <2>3. \A x \in Rows : ~(cursor[d] < stamp[x])
    <3>1. \A x \in Rows : stamp[x] \in Nat /\ stamp[x] <= sync_seq
      BY <2>1 DEF PresentInv, ServerTypes, RequestsBy, Present
    <3>2. sync_seq \in Nat
      BY <2>1 DEF PresentInv, ServerTypes
    <3> QED
      BY <3>1, <3>2
  <2>4. \A r : ~Due(r, {x \in Rows : cursor[d] < stamp[x]})
    BY <2>3 DEF Due
  <2>5. Left(d) = {}
    <3>1. cycle[d].stage = "idle"
      BY DEF Idle
    <3> QED
      BY <2>1, <2>4, <3>1 DEF OverlayInv
  <2>6. DOMAIN overlay[d] = {}
    <3> SUFFICES ASSUME NEW v \in DOMAIN overlay[d] PROVE FALSE
      OBVIOUS
    <3>1. v \in CascadeUnits
      BY <2>1 DEF PendingInv
    <3>2. RowOf(v) \in CascadeRows
      BY <3>1, UnitFacts
    <3> QED
      BY <2>5, <3>2 DEF Left
  <2> QED
    BY <2>2, <2>6 DEF View, Shown, PendingOn
<1> QED
  BY <1>1, InvHolds, PTL

================================================================================
