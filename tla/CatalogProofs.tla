---------------------------- MODULE CatalogProofs ----------------------------
(***************************************************************************)
(* Theorems of Catalog, for any number of instances and items and whatever *)
(* fails: what an instance lists every live instance serves, snapshots are *)
(* whole, and no startup, stop or failure hides a lexicon.                 *)
(*                                                                         *)
(* Theorems of what it serves, for every distribution and upload: an index *)
(* says of its entries what their definitions say, and whatever is let     *)
(* through is indexed, matched and searched exactly.                       *)
(***************************************************************************)
EXTENDS Catalog, SearchProofs

-----------------------------------------------------------------------------
(* The rows                                                                *)

RowsInv == rows \in Seq(Rows) /\ Len(rows) <= MaxItems /\ Consistent(rows)

\* Rows are added and deleted, and otherwise stay as they are.
Grows ==
  \A id \in DOMAIN rows :
    /\ id \in DOMAIN rows'
    /\ rows'[id].kind = rows[id].kind /\ rows'[id].name = rows[id].name
    /\ rows'[id].parent = rows[id].parent
    /\ rows[id].deleted => rows'[id].deleted

LEMMA RowFacts ==
  ASSUME RowsInv
  PROVE  /\ DOMAIN rows = 1 .. Len(rows) /\ Len(rows) \in Nat /\ DOMAIN rows \subseteq Ids
         /\ \A id \in DOMAIN rows : rows[id] \in Rows
BY CatalogAssumption DEF RowsInv, Ids

LEMMA SameRows == ASSUME RowsInv, UNCHANGED rows PROVE RowsInv' /\ Grows
BY DEF RowsInv, Grows, Consistent, Clash

\* An upload adds a row that meets the constraints.
LEMMA AddedRow ==
  ASSUME RowsInv, NEW row \in Rows, Len(rows) < MaxItems, rows' = Append(rows, row),
         ~row.deleted,
         row.kind # "distribution" => /\ row.parent \in DOMAIN rows
                                      /\ rows[row.parent].kind = ParentKind[row.kind]
                                      /\ ~rows[row.parent].deleted,
         \A id \in DOMAIN rows : Clash(rows[id], row) => rows[id].deleted
  PROVE  RowsInv' /\ Grows
<1> DEFINE n == Len(rows) + 1
<1>1. /\ rows' \in Seq(Rows) /\ Len(rows') = n
      /\ \A id \in 1 .. Len(rows) : rows'[id] = rows[id]
      /\ rows'[n] = row
  BY AppendProperties DEF RowsInv
<1>2. /\ DOMAIN rows = 1 .. Len(rows) /\ Len(rows) \in Nat
      /\ DOMAIN rows' = DOMAIN rows \cup {n} /\ n \notin DOMAIN rows
  BY <1>1, RowFacts
<1>3. \A id \in DOMAIN rows : rows'[id] = rows[id]
  BY <1>1, <1>2
<1>4. Len(rows') <= MaxItems
  BY <1>1, <1>2, CatalogAssumption
<1> HIDE DEF n
<1>5. ASSUME NEW id \in DOMAIN rows', rows'[id].kind # "distribution"
      PROVE  /\ rows'[id].parent \in DOMAIN rows'
             /\ rows'[rows'[id].parent].kind = ParentKind[rows'[id].kind]
             /\ rows'[rows'[id].parent].deleted => rows'[id].deleted
  <2>1. CASE id = n
    BY <1>1, <1>2, <1>3, <1>5, <2>1
  <2>2. CASE id \in DOMAIN rows
    <3>1. /\ rows[id].parent \in DOMAIN rows
          /\ rows[rows[id].parent].kind = ParentKind[rows[id].kind]
          /\ rows[rows[id].parent].deleted => rows[id].deleted
      BY <1>3, <1>5, <2>2 DEF RowsInv, Consistent
    <3> QED
      BY <1>2, <1>3, <2>2, <3>1
  <2> QED
    BY <1>2, <2>1, <2>2
<1>6. ASSUME NEW a \in DOMAIN rows', NEW b \in DOMAIN rows', a # b, Clash(rows'[a], rows'[b])
      PROVE  rows'[a].deleted \/ rows'[b].deleted
  <2>1. CASE a \in DOMAIN rows /\ b \in DOMAIN rows
    BY <1>3, <1>6, <2>1 DEF RowsInv, Consistent
  <2>2. CASE b = n /\ a \in DOMAIN rows
    BY <1>1, <1>3, <1>6, <2>2
  <2>3. CASE a = n /\ b \in DOMAIN rows
    BY <1>1, <1>3, <1>6, <2>3 DEF Clash
  <2> QED
    BY <1>2, <1>6, <2>1, <2>2, <2>3
<1> QED
  BY <1>1, <1>2, <1>3, <1>4, <1>5, <1>6 DEF RowsInv, Consistent, Grows

\* A deletion marks a row that nothing refers to.
LEMMA DeletedRow ==
  ASSUME RowsInv, NEW id \in DOMAIN rows, rows' = [rows EXCEPT ![id].deleted = TRUE],
         \A c \in DOMAIN rows : ~rows[c].deleted => rows[c].parent # id
  PROVE  RowsInv' /\ Grows
<1> DEFINE row == rows[id]
           new == [row EXCEPT !.deleted = TRUE]
<1>1. row \in Rows
  BY RowFacts
<1>2. rows' = [rows EXCEPT ![id] = new]
  OBVIOUS
<1>3. rows \in [1 .. Len(rows) -> Rows] /\ Len(rows) \in Nat /\ DOMAIN rows = 1 .. Len(rows)
  BY DEF RowsInv
<1> HIDE DEF row
<1>4. /\ new \in Rows /\ new.deleted /\ new.kind = row.kind
      /\ new.name = row.name /\ new.parent = row.parent
  BY <1>1 DEF Rows
<1> HIDE DEF new
<1>5. /\ rows' \in [1 .. Len(rows) -> Rows] /\ DOMAIN rows' = DOMAIN rows
      /\ rows'[id] = new /\ \A c \in DOMAIN rows : c # id => rows'[c] = rows[c]
  BY <1>2, <1>3, <1>4
<1>6. rows' \in Seq(Rows) /\ Len(rows') = Len(rows)
  BY <1>3, <1>5, SeqDef
<1>7. \A c \in DOMAIN rows :
        /\ rows'[c].kind = rows[c].kind /\ rows'[c].name = rows[c].name
        /\ rows'[c].parent = rows[c].parent
        /\ rows[c].deleted => rows'[c].deleted
        /\ rows'[c].deleted => rows[c].deleted \/ c = id
  BY <1>4, <1>5 DEF row
<1>8. ASSUME NEW c \in DOMAIN rows, rows[c].kind # "distribution"
      PROVE  /\ rows'[c].parent \in DOMAIN rows
             /\ rows'[rows'[c].parent].kind = ParentKind[rows'[c].kind]
             /\ rows'[rows'[c].parent].deleted => rows'[c].deleted
  <2>1. /\ rows[c].parent \in DOMAIN rows
        /\ rows[rows[c].parent].kind = ParentKind[rows[c].kind]
        /\ rows[rows[c].parent].deleted => rows[c].deleted
    BY <1>8 DEF RowsInv, Consistent
  <2> QED
    BY <1>7, <1>8, <2>1
<1>9. \A a, b \in DOMAIN rows : a # b /\ Clash(rows'[a], rows'[b]) =>
                                  rows'[a].deleted \/ rows'[b].deleted
  BY <1>7 DEF RowsInv, Consistent, Clash
<1> QED
  BY <1>5, <1>6, <1>7, <1>8, <1>9 DEF RowsInv, Consistent, Grows

-----------------------------------------------------------------------------
(* What an instance holds: its snapshot S, its reconcile w, its status rows *)
(* st, what its startup captured, and its phase                            *)

Steps == {"idle", "lexicons", "leave_sets", "drop", "drop_status", "build", "write_status"}
Works == [step : Steps, boot : BOOLEAN, items : SUBSET Ids, at : {0} \cup Ids]
Phases == {"new", "starting", "booted", "ready", "down"}

Known(S) == S \subseteq DOMAIN rows
Distinct(S) == \A a, b \in S : a # b => ~Clash(rows[a], rows[b])

\* The parents of S that are in T.
WithParents(S, T, U) ==
  \A id \in S : rows[id].kind # "distribution" /\ rows[id].parent \in T => rows[id].parent \in U

WholeSnapshot(S) ==
  /\ Known(S) /\ Distinct(S)
  /\ \A id \in S : rows[id].kind # "distribution" => rows[id].parent \in S

\* What the listings up to a step cover.
Covered(step) == IF step = "lexicons" THEN {"distribution"}
                 ELSE IF step = "leave_sets" THEN {"distribution", "lexicon"}
                 ELSE Kinds

\* What is indexed and was not listed is deleted; what was listed has its
\* parent listed too, where that is indexed.
Listings(S, w) ==
  /\ \A id \in w.items : rows[id].kind \in Covered(w.step)
  /\ \A id \in S : rows[id].kind \in Covered(w.step) => id \in w.items \/ rows[id].deleted
  /\ WithParents(w.items, S, w.items)

Working(S, w) ==
  /\ Known(w.items) /\ Distinct(w.items)
  /\ w.step \in {"lexicons", "leave_sets", "drop", "drop_status"} => Listings(S, w)
  /\ w.step \in {"build", "write_status"} => Distinct(S \cup w.items)
  /\ w.step = "write_status" => w.at \in S
  /\ w.step = "drop_status" => w.at \in DOMAIN rows /\ rows[w.at].deleted

\* What has a row, or will get one, is indexed or deleted.
Backed(S, id) == id \in S \/ (id \in DOMAIN rows /\ rows[id].deleted)

Ok(S, w, st, captured_, ph) ==
  /\ WholeSnapshot(S)
  /\ w.step # "idle" => Working(S, w)
  /\ ph # "down" => \A id \in Ids : st[id] # "none" => Backed(S, id)
  /\ \A id \in captured_ : Backed(S, id)

Types ==
  /\ snapshot \in [Instances -> SUBSET Ids]
  /\ captured \in [Instances -> SUBSET Ids]
  /\ status \in [Instances -> [Ids -> {"none", "fresh", "stale"}]]
  /\ phase \in [Instances -> Phases]
  /\ work \in [Instances -> Works]

Inv == /\ RowsInv /\ Types
       /\ \A i \in Instances : Ok(snapshot[i], work[i], status[i], captured[i], phase[i])

\* The rows of others go on.
LEMMA OkKept ==
  ASSUME RowsInv, RowsInv', Grows, NEW S, NEW w \in Works, NEW st, NEW cap, NEW ph,
         Ok(S, w, st, cap, ph)
  PROVE  Ok(S, w, st, cap, ph)'
<1>1. WholeSnapshot(S)'
  BY DEF Ok, WholeSnapshot, Known, Distinct, Clash, Grows
<1>2. ASSUME NEW T, Known(T), Distinct(T) PROVE Known(T)' /\ Distinct(T)'
  BY <1>2 DEF Known, Distinct, Clash, Grows
<1>3. ASSUME w.step # "idle" PROVE Working(S, w)'
  <2>1. Working(S, w) /\ Known(S)
    BY <1>3 DEF Ok, WholeSnapshot
  <2>2. Known(w.items)' /\ Distinct(w.items)'
    BY <1>2, <2>1 DEF Working
  <2>3. w.step \in {"build", "write_status"} => Distinct(S \cup w.items)'
    <3>1. Known(S \cup w.items)
      BY <2>1 DEF Known, Working
    <3> QED
      BY <1>2, <2>1, <3>1 DEF Working
  <2>4. Listings(S, w) => Listings(S, w)'
    BY <2>1 DEF Listings, WithParents, Known, Grows, Working
  <2>5. w.at \in DOMAIN rows /\ rows[w.at].deleted => w.at \in DOMAIN rows' /\ rows'[w.at].deleted
    BY DEF Grows
  <2> QED
    BY <2>1, <2>2, <2>3, <2>4, <2>5 DEF Working
<1>4. \A id : Backed(S, id) => Backed(S, id)'
  BY DEF Backed, Grows
<1> QED
  BY <1>1, <1>3, <1>4 DEF Ok

\* A step of one instance.
LEMMA StepOf ==
  ASSUME Inv, RowsInv', Grows, Types', NEW i \in Instances,
         \A j \in Instances \ {i} :
           /\ snapshot'[j] = snapshot[j] /\ work'[j] = work[j] /\ status'[j] = status[j]
           /\ captured'[j] = captured[j] /\ phase'[j] = phase[j],
         NEW S, NEW w, NEW st, NEW cap, NEW ph,
         snapshot'[i] = S, work'[i] = w, status'[i] = st, captured'[i] = cap, phase'[i] = ph,
         Ok(S, w, st, cap, ph)
  PROVE  Inv'
<1> SUFFICES ASSUME NEW j \in Instances
             PROVE  Ok(snapshot[j], work[j], status[j], captured[j], phase[j])'
  BY DEF Inv
<1>1. PICK T, v, su, dap, qh : T = snapshot'[j] /\ v = work'[j] /\ su = status'[j]
                               /\ dap = captured'[j] /\ qh = phase'[j]
  OBVIOUS
<1>2. Ok(T, v, su, dap, qh)
  <2>1. CASE j = i
    BY <1>1, <2>1
  <2>2. CASE j # i
    BY <1>1, <2>2 DEF Inv
  <2> QED
    BY <2>1, <2>2
<1>3. v \in Works
  BY <1>1 DEF Types
<1>4. Ok(T, v, su, dap, qh)'
  BY <1>2, <1>3, OkKept DEF Inv
<1> QED
  BY <1>1, <1>4 DEF Ok, WholeSnapshot, Known, Distinct, Clash, Working, Listings, WithParents,
     Covered, Backed

-----------------------------------------------------------------------------
(* Uploads and deletions                                                   *)

LEMMA RowsStep ==
  ASSUME Inv, RowsInv', Grows, UNCHANGED <<snapshot, status, phase, captured, work>>
  PROVE  Inv'
<1>1. Types'
  BY DEF Inv, Types
<1> SUFFICES ASSUME NEW j \in Instances
             PROVE  Ok(snapshot[j], work[j], status[j], captured[j], phase[j])'
  BY <1>1 DEF Inv
<1>2. PICK T, v, su, dap, qh : T = snapshot[j] /\ v = work[j] /\ su = status[j]
                               /\ dap = captured[j] /\ qh = phase[j]
  OBVIOUS
<1>3. v \in Works /\ Ok(T, v, su, dap, qh)
  BY <1>2 DEF Inv, Types
<1>4. Ok(T, v, su, dap, qh)'
  BY <1>3, OkKept DEF Inv
<1> QED
  BY <1>2, <1>4 DEF Ok, WholeSnapshot, Known, Distinct, Clash, Working, Listings, WithParents,
     Covered, Backed

LEMMA UploadStep ==
  ASSUME Inv, NEW i \in Instances, NEW name, NEW dist,
         \/ name \in Names /\ UploadDistribution(i, name)
         \/ name \in Names /\ UploadLexicon(i, name, dist)
         \/ UploadLeaves(i, dist)
  PROVE  Inv' /\ Grows
<1>1. UNCHANGED <<snapshot, status, phase, captured, work>>
  BY DEF UploadDistribution, UploadLexicon, UploadLeaves, Committed
<1>2. RowsInv /\ \A id \in DOMAIN rows : rows[id] \in Rows
  BY RowFacts DEF Inv
<1>3. CASE name \in Names /\ UploadDistribution(i, name)
  <2> DEFINE row == [kind |-> "distribution", name |-> name, parent |-> NoParent, deleted |-> FALSE]
  <2>1. row \in Rows /\ ~row.deleted /\ row.kind = "distribution"
    BY <1>3 DEF Rows, Kinds
  <2>2. \A id \in DOMAIN rows : Clash(rows[id], row) => rows[id].deleted
    BY <1>3 DEF UploadDistribution, NameTaken, InDb, Exists, Clash
  <2>3. Len(rows) < MaxItems /\ rows' = Append(rows, row)
    BY <1>3 DEF UploadDistribution, Insert
  <2> HIDE DEF row
  <2> QED
    BY <1>1, <1>2, <2>1, <2>2, <2>3, AddedRow, RowsStep
<1>4. CASE name \in Names /\ UploadLexicon(i, name, dist)
  <2> DEFINE row == [kind |-> "lexicon", name |-> name, parent |-> dist, deleted |-> FALSE]
  <2>1. row \in Rows /\ ~row.deleted /\ row.kind = "lexicon" /\ row.parent = dist
    BY <1>2, <1>4, RowFacts DEF Rows, Kinds, UploadLexicon, InDb, Exists
  <2>2. \A id \in DOMAIN rows : Clash(rows[id], row) => rows[id].deleted
    BY <1>4 DEF UploadLexicon, NameTaken, InDb, Exists, Clash
  <2>3. Len(rows) < MaxItems /\ rows' = Append(rows, row)
    BY <1>4 DEF UploadLexicon, Insert
  <2>4. dist \in DOMAIN rows /\ ~rows[dist].deleted /\ rows[dist].kind = ParentKind["lexicon"]
    BY <1>4 DEF UploadLexicon, InDb, Exists, ParentKind
  <2> HIDE DEF row
  <2> QED
    BY <1>1, <1>2, <2>1, <2>2, <2>3, <2>4, AddedRow, RowsStep
<1>5. CASE UploadLeaves(i, dist)
  <2>1. dist \in DOMAIN rows /\ ~rows[dist].deleted /\ rows[dist].kind = ParentKind["leave_set"]
    BY <1>5 DEF UploadLeaves, InDb, Exists, ParentKind
  <2> DEFINE row == [kind |-> "leave_set", name |-> rows[dist].name, parent |-> dist,
                     deleted |-> FALSE]
  <2>2. row \in Rows /\ ~row.deleted /\ row.kind = "leave_set" /\ row.parent = dist
    BY <1>2, <2>1, RowFacts DEF Rows, Kinds
  <2>3. \A id \in DOMAIN rows : Clash(rows[id], row) => rows[id].deleted
    BY <1>5 DEF UploadLeaves, InDb, Exists, Clash
  <2>4. Len(rows) < MaxItems /\ rows' = Append(rows, row)
    BY <1>5 DEF UploadLeaves, Insert
  <2> HIDE DEF row
  <2> QED
    BY <1>1, <1>2, <2>1, <2>2, <2>3, <2>4, AddedRow, RowsStep
<1> QED
  BY <1>3, <1>4, <1>5

LEMMA DeleteStep ==
  ASSUME Inv, NEW i \in Instances, NEW id \in Ids, Delete(i, id)
  PROVE  Inv' /\ Grows
<1>1. UNCHANGED <<snapshot, status, phase, captured, work>>
  BY DEF Delete, Committed
<1>2. id \in DOMAIN rows /\ rows' = [rows EXCEPT ![id].deleted = TRUE]
  BY DEF Delete, Exists
<1>3. \A c \in DOMAIN rows : ~rows[c].deleted => rows[c].parent # id
  BY DEF Delete, Exists
<1> QED
  BY <1>1, <1>2, <1>3, DeletedRow, RowsStep DEF Inv

-----------------------------------------------------------------------------
(* Reconcile                                                               *)

LEMMA Values ==
  ASSUME Inv, NEW i \in Instances
  PROVE  /\ snapshot[i] \subseteq Ids /\ captured[i] \subseteq Ids /\ phase[i] \in Phases
         /\ work[i] \in Works /\ status[i] \in [Ids -> {"none", "fresh", "stale"}]
         /\ Ok(snapshot[i], work[i], status[i], captured[i], phase[i])
BY DEF Inv, Types

\* Only the reconcile goes on.
LEMMA WorkStep ==
  ASSUME Inv, NEW i \in Instances, NEW w \in Works, To(i, w),
         UNCHANGED <<rows, snapshot, status, phase, captured>>,
         w.step # "idle" => Working(snapshot[i], w)
  PROVE  Inv'
<1>1. /\ work' \in [Instances -> Works] /\ work'[i] = w
      /\ \A j \in Instances \ {i} : work'[j] = work[j]
  BY DEF To, Inv, Types
<1>2. Types'
  BY <1>1 DEF Inv, Types
<1>3. RowsInv' /\ Grows
  BY SameRows DEF Inv
<1>4. PICK S, st, cap, ph : S = snapshot[i] /\ st = status[i] /\ cap = captured[i] /\ ph = phase[i]
  OBVIOUS
<1>5. Ok(S, w, st, cap, ph)
  BY <1>4, Values DEF Ok
<1>6. snapshot'[i] = S /\ status'[i] = st /\ captured'[i] = cap /\ phase'[i] = ph
  BY <1>4
<1> QED
  BY <1>1, <1>2, <1>3, <1>5, <1>6, StepOf

LEMMA InDbRows ==
  ASSUME RowsInv, NEW kind
  PROVE  /\ InDb(kind) \subseteq DOMAIN rows /\ InDb(kind) \subseteq Ids
         /\ Known(InDb(kind)) /\ Distinct(InDb(kind))
         /\ \A id \in InDb(kind) : rows[id].kind = kind /\ ~rows[id].deleted
BY RowFacts DEF InDb, Exists, Known, Distinct, RowsInv, Consistent

LEMMA StartReconcileStep ==
  ASSUME Inv, NEW i \in Instances, NEW why, StartReconcile(i, why)
  PROVE  Inv'
<1> DEFINE w == [step |-> "lexicons", boot |-> why = "boot", items |-> InDb("distribution"), at |-> 0]
<1>1. /\ InDb("distribution") \subseteq Ids
      /\ Known(InDb("distribution")) /\ Distinct(InDb("distribution"))
      /\ \A id \in InDb("distribution") : rows[id].kind = "distribution"
  BY InDbRows DEF Inv
<1>2. /\ w \in Works /\ w.step = "lexicons" /\ w.items = InDb("distribution")
  BY <1>1 DEF Works, Steps
<1>3. Known(snapshot[i])
  BY Values DEF Ok, WholeSnapshot
<1> HIDE DEF w
<1>4. Working(snapshot[i], w)
  <2>1. Listings(snapshot[i], w)
    BY <1>1, <1>2, <1>3 DEF Listings, Covered, WithParents, Known, InDb, Exists
  <2> QED
    BY <1>1, <1>2, <2>1 DEF Working
<1> QED
  BY <1>2, <1>4, WorkStep DEF StartReconcile, w

\* What a step has listed, and the next one.
LEMMA BuildingWorks ==
  ASSUME NEW S, NEW w \in Works, Known(w.items), Distinct(w.items), Distinct(S \cup w.items)
  PROVE  Building(w) \in Works /\ (Building(w).step # "idle" => Working(S, Building(w)))
<1>1. CASE Building(w) = Idle
  BY <1>1 DEF Idle, Works, Steps
<1>2. CASE Building(w) = [w EXCEPT !.step = "build", !.at = 0]
  <2> DEFINE v == [w EXCEPT !.step = "build", !.at = 0]
  <2>1. v \in Works /\ v.step = "build" /\ v.items = w.items
    BY DEF Works, Steps
  <2> HIDE DEF v
  <2>2. Working(S, v)
    BY <2>1 DEF Working
  <2> QED
    BY <1>2, <2>1, <2>2 DEF v
<1> QED
  BY <1>1, <1>2 DEF Building

LEMMA DroppingWorks ==
  ASSUME NEW i \in Instances, NEW w \in Works, Known(w.items), Distinct(w.items),
         Listings(snapshot[i], [w EXCEPT !.step = "drop"])
  PROVE  /\ Dropping(i, w) \in Works
         /\ Dropping(i, w).step # "idle" => Working(snapshot[i], Dropping(i, w))
<1>1. CASE snapshot[i] \subseteq w.items
  <2> DEFINE v == [w EXCEPT !.items = @ \ snapshot[i]]
  <2>1. v \in Works /\ v.items = w.items \ snapshot[i]
    BY DEF Works
  <2>2. Known(v.items) /\ Distinct(v.items) /\ Distinct(snapshot[i] \cup v.items)
    BY <1>1, <2>1 DEF Known, Distinct
  <2>3. Dropping(i, w) = Building(v)
    BY <1>1 DEF Dropping
  <2> HIDE DEF v
  <2> QED
    BY <2>1, <2>2, <2>3, BuildingWorks
<1>2. CASE ~(snapshot[i] \subseteq w.items)
  <2> DEFINE v == [w EXCEPT !.step = "drop", !.at = 0]
             u == [w EXCEPT !.step = "drop"]
  <2>1. /\ v \in Works /\ v.step = "drop" /\ v.items = w.items
        /\ u.step = "drop" /\ u.items = w.items
    BY DEF Works, Steps
  <2>2. Dropping(i, w) = v /\ Listings(snapshot[i], u)
    BY <1>2 DEF Dropping
  <2> HIDE DEF u, v
  <2>3. Listings(snapshot[i], v)
    BY <2>1, <2>2 DEF Listings
  <2> QED
    BY <2>1, <2>2, <2>3 DEF Working
<1> QED
  BY <1>1, <1>2

LEMMA ListStep ==
  ASSUME Inv, NEW i \in Instances, List(i)
  PROVE  Inv'
<1>1. PICK w : w = work[i]
  OBVIOUS
<1>2. PICK S : S = snapshot[i]
  OBVIOUS
<1>3. PICK K : K = InDb(Listing(w.step))
  OBVIOUS
<1>4. w \in Works /\ w.step \in {"lexicons", "leave_sets"} /\ Working(S, w) /\ Known(S)
  BY <1>1, <1>2, Values DEF List, Ok, WholeSnapshot
<1> DEFINE u == [w EXCEPT !.items = @ \cup K]
<1>5. /\ K \subseteq Ids /\ Known(K) /\ Distinct(K)
      /\ \A id \in K : rows[id].kind = Listing(w.step) /\ ~rows[id].deleted
  BY <1>3, InDbRows DEF Inv
<1>6. u \in Works /\ u.items = w.items \cup K /\ u.step = w.step
  BY <1>4, <1>5 DEF Works
<1>7. Listing(w.step) \notin Covered(w.step)
  BY <1>4 DEF Listing, Covered
<1>8. Known(u.items) /\ Distinct(u.items)
  <2>1. \A a \in w.items, b \in K : rows[a].kind # rows[b].kind
    BY <1>4, <1>5, <1>7 DEF Working, Listings
  <2> HIDE DEF u
  <2> QED
    BY <1>4, <1>5, <1>6, <2>1 DEF Working, Known, Distinct, Clash
<1> HIDE DEF u
\* Once this kind is listed too, the listings cover it.
<1> DEFINE next == IF w.step = "lexicons" THEN "leave_sets" ELSE "drop"
<1>9. ASSUME NEW v, v.step = next, v.items = u.items PROVE Listings(S, v)
  <2>1. /\ next = "leave_sets" \/ next = "drop"
        /\ Covered(next) = Covered(w.step) \cup {Listing(w.step)}
    BY <1>4 DEF Covered, Listing, Kinds
  <2>2. Listings(S, w)
    BY <1>4 DEF Working
  <2> HIDE DEF next
  <2>3. \A id \in v.items : rows[id].kind \in Covered(v.step)
    BY <1>5, <1>6, <1>9, <2>1, <2>2 DEF Listings
  <2>4. \A id \in S : rows[id].kind \in Covered(v.step) => id \in v.items \/ rows[id].deleted
    <3>1. \A id \in S : rows[id].kind = Listing(w.step) => id \in K \/ rows[id].deleted
      BY <1>3, <1>4 DEF InDb, Exists, Known
    <3> QED
      BY <1>6, <1>9, <2>1, <2>2, <3>1 DEF Listings
  <2>5. WithParents(v.items, S, v.items)
    <3>1. ASSUME NEW id \in K, rows[id].kind # "distribution", rows[id].parent \in S
          PROVE  rows[id].parent \in w.items
      <4>1. /\ rows[id].parent \in DOMAIN rows /\ ~rows[rows[id].parent].deleted
            /\ rows[rows[id].parent].kind = ParentKind[Listing(w.step)]
        BY <1>5, <3>1 DEF Inv, RowsInv, Consistent, Known
      <4>2. ParentKind[Listing(w.step)] \in Covered(w.step)
        BY <1>4 DEF ParentKind, Listing, Covered
      <4> QED
        BY <2>2, <3>1, <4>1, <4>2 DEF Listings
    <3> QED
      BY <1>6, <1>9, <2>2, <3>1 DEF Listings, WithParents
  <2> QED
    BY <2>3, <2>4, <2>5 DEF Listings
<1>10. UNCHANGED <<rows, snapshot, status, phase, captured>>
  BY DEF List
<1>11. CASE w.step = "lexicons"
  <2> DEFINE v == [u EXCEPT !.step = "leave_sets"]
  <2>1. v \in Works /\ v.step = "leave_sets" /\ v.items = u.items
    BY <1>6 DEF Works, Steps
  <2>2. To(i, v)
    BY <1>1, <1>3, <1>11 DEF List, Now, u
  <2> HIDE DEF v
  <2>3. Working(S, v)
    BY <1>8, <1>9, <1>11, <2>1 DEF Working
  <2> QED
    BY <1>2, <1>10, <2>1, <2>2, <2>3, WorkStep
<1>12. CASE w.step = "leave_sets"
  <2> DEFINE v == [u EXCEPT !.step = "drop"]
  <2>1. v.step = "drop" /\ v.items = u.items
    BY <1>6 DEF Works
  <2> HIDE DEF v
  <2>2. Listings(snapshot[i], v)
    BY <1>2, <1>9, <1>12, <2>1
  <2>3. To(i, Dropping(i, u))
    BY <1>1, <1>3, <1>12 DEF List, Now, u
  <2>4. /\ Dropping(i, u) \in Works
        /\ Dropping(i, u).step # "idle" => Working(snapshot[i], Dropping(i, u))
    BY <1>6, <1>8, <2>2, DroppingWorks DEF v
  <2> QED
    BY <1>10, <2>3, <2>4, WorkStep
<1> QED
  BY <1>4, <1>11, <1>12

\* What is dropped is deleted: all else was listed.
LEMMA StaleIsDeleted ==
  ASSUME Inv, NEW i \in Instances, Now(i, "drop"), NEW id \in Stale(i)
  PROVE  id \in DOMAIN rows /\ rows[id].deleted
<1>1. PICK S, w : S = snapshot[i] /\ w = work[i]
  OBVIOUS
<1>2. w.step = "drop" /\ id \in S /\ id \notin w.items /\ Working(S, w) /\ WholeSnapshot(S)
  BY <1>1, Values DEF Now, Stale, Ok
<1>3. rows[id] \in Rows /\ id \in DOMAIN rows /\ Listings(S, w)
  BY <1>2, RowFacts DEF WholeSnapshot, Known, Inv, Working
<1> QED
  BY <1>2, <1>3 DEF Listings, Covered, Rows

LEMMA DropStep ==
  ASSUME Inv, NEW i \in Instances, Drop(i)
  PROVE  Inv'
<1>1. PICK S, w, st, cap, ph : S = snapshot[i] /\ w = work[i] /\ st = status[i]
                                /\ cap = captured[i] /\ ph = phase[i]
  OBVIOUS
<1>2. PICK id \in DropNext(i) :
        /\ snapshot' = [snapshot EXCEPT ![i] = @ \ {id}]
        /\ To(i, [work[i] EXCEPT !.step = "drop_status", !.at = id])
  BY DEF Drop
<1>3. id \in S /\ id \notin w.items /\ \A o \in S \ w.items : Rank(id) >= Rank(o)
  BY <1>1, <1>2 DEF DropNext, Stale
<1>4. /\ w \in Works /\ S \subseteq Ids /\ w.step = "drop"
      /\ Ok(S, w, st, cap, ph)
  BY <1>1, Values DEF Drop, Now
<1>5. Working(S, w) /\ Listings(S, w) /\ WholeSnapshot(S)
  BY <1>4 DEF Ok, Working
<1>6. \A o \in S : rows[o] \in Rows /\ o \in DOMAIN rows
  BY <1>5, RowFacts DEF WholeSnapshot, Known, Inv
<1>7. rows[id].deleted
  BY <1>2, StaleIsDeleted DEF Drop, DropNext
<1> DEFINE v == [w EXCEPT !.step = "drop_status", !.at = id]
           T == S \ {id}
<1>8. v \in Works /\ v.step = "drop_status" /\ v.items = w.items /\ v.at = id
  BY <1>3, <1>4 DEF Works, Steps
<1>9. To(i, v)
  BY <1>1, <1>2
<1> HIDE DEF v
\* No child is left in the snapshot.
<1>10. ASSUME NEW o \in S, rows[o].kind # "distribution" PROVE rows[o].parent # id
  <2>1. SUFFICES ASSUME rows[o].parent = id PROVE FALSE
    OBVIOUS
  <2>2. rows[id].kind = ParentKind[rows[o].kind]
    BY <1>6, <1>10, <2>1 DEF Inv, RowsInv, Consistent
  <2>3. rows[o].kind \in Kinds /\ rows[id].kind \in Kinds
    BY <1>3, <1>6 DEF Rows
  <2>4. ~(Rank(id) >= Rank(o))
    BY <1>10, <2>2, <2>3 DEF Rank, ParentKind, Kinds
  <2>5. o \in w.items
    BY <1>3, <2>4
  <2> QED
    BY <1>3, <1>5, <1>10, <2>1, <2>5 DEF Listings, WithParents
<1>11. WholeSnapshot(T)
  BY <1>5, <1>10 DEF WholeSnapshot, Known, Distinct
<1>12. Listings(T, v)
  BY <1>4, <1>5, <1>8 DEF Listings, WithParents, Covered
<1>13. Working(T, v)
  BY <1>3, <1>5, <1>6, <1>7, <1>8, <1>12 DEF Working
<1>14. \A o : Backed(S, o) => Backed(T, o)
  BY <1>3, <1>6, <1>7 DEF Backed
<1>15. Ok(T, v, st, cap, ph)
  BY <1>4, <1>11, <1>13, <1>14 DEF Ok
<1>16. /\ snapshot'[i] = T /\ snapshot' \in [Instances -> SUBSET Ids]
       /\ work' \in [Instances -> Works] /\ work'[i] = v
       /\ \A j \in Instances \ {i} : work'[j] = work[j] /\ snapshot'[j] = snapshot[j]
  BY <1>1, <1>2, <1>4, <1>8, <1>9 DEF To, Inv, Types
<1>17. UNCHANGED <<rows, status, phase, captured>>
  BY DEF Drop
<1>18. Types' /\ RowsInv' /\ Grows
  BY <1>16, <1>17, SameRows DEF Inv, Types
<1>19. status'[i] = st /\ captured'[i] = cap /\ phase'[i] = ph
  BY <1>1, <1>17
<1> HIDE DEF T
<1> QED
  BY <1>15, <1>16, <1>17, <1>18, <1>19, StepOf

LEMMA DropStatusStep ==
  ASSUME Inv, NEW i \in Instances, DropStatus(i)
  PROVE  Inv'
<1>1. PICK S, w, cap, ph : S = snapshot[i] /\ w = work[i] /\ cap = captured[i] /\ ph = phase[i]
  OBVIOUS
<1>2. /\ w \in Works /\ w.step = "drop_status" /\ S \subseteq Ids
      /\ status[i] \in [Ids -> {"none", "fresh", "stale"}]
      /\ Ok(S, w, status[i], cap, ph)
  BY <1>1, Values DEF DropStatus, Now
<1>3. Working(S, w) /\ Listings(S, w)
  BY <1>2 DEF Ok, Working
<1>4. PICK v : v = Dropping(i, w)
  OBVIOUS
<1>5. v \in Works /\ (v.step # "idle" => Working(S, v))
  <2> DEFINE u == [w EXCEPT !.step = "drop"]
  <2>1. u.step = "drop" /\ u.items = w.items
    BY <1>2 DEF Works
  <2> HIDE DEF u
  <2>2. Listings(S, u)
    BY <1>2, <1>3, <2>1 DEF Listings, Covered
  <2>3. Listings(snapshot[i], [w EXCEPT !.step = "drop"])
    BY <1>1, <2>2 DEF u
  <2> QED
    BY <1>1, <1>2, <1>3, <1>4, <2>3, DroppingWorks DEF Working
<1>6. /\ status' = [status EXCEPT ![i][w.at] = "none"] /\ To(i, v)
      /\ UNCHANGED <<rows, snapshot, phase, captured>>
  BY <1>1, <1>4 DEF DropStatus
<1>7. PICK st : st = status'[i]
  OBVIOUS
<1>8. /\ status' \in [Instances -> [Ids -> {"none", "fresh", "stale"}]]
      /\ \A j \in Instances \ {i} : status'[j] = status[j]
      /\ \A id \in Ids : st[id] # "none" => status[i][id] # "none"
  BY <1>6, <1>7 DEF Inv, Types
<1>9. Ok(S, v, st, cap, ph)
  BY <1>2, <1>5, <1>8 DEF Ok
<1>10. /\ work' \in [Instances -> Works] /\ work'[i] = v
       /\ \A j \in Instances \ {i} : work'[j] = work[j]
  BY <1>5, <1>6 DEF To, Inv, Types
<1>11. Types' /\ RowsInv' /\ Grows
  BY <1>6, <1>8, <1>10, SameRows DEF Inv, Types
<1>12. snapshot'[i] = S /\ captured'[i] = cap /\ phase'[i] = ph
  BY <1>1, <1>6
<1> QED
  BY <1>6, <1>7, <1>8, <1>9, <1>10, <1>11, <1>12, StepOf

\* What a step builds keeps the snapshot whole.
LEMMA BuildStep ==
  ASSUME Inv, NEW i \in Instances, Build(i)
  PROVE  Inv'
<1>1. PICK S, v, st, cap, ph : S = snapshot[i] /\ v = work[i] /\ st = status[i]
                                /\ cap = captured[i] /\ ph = phase[i]
  OBVIOUS
<1>2. PICK id \in BuildNext(i) :
        LET w == [v EXCEPT !.items = @ \ {id}]
        IN IF ~Builds(i, id)
           THEN To(i, Building(w)) /\ UNCHANGED snapshot
           ELSE /\ snapshot' = [snapshot EXCEPT ![i] = @ \cup {id}]
                /\ To(i, IF WritesStatus(i) THEN [w EXCEPT !.step = "write_status", !.at = id]
                                            ELSE Building(w))
  BY <1>1 DEF Build
<1> DEFINE w == [v EXCEPT !.items = @ \ {id}]
           T == S \cup {id}
<1>3. /\ v \in Works /\ v.step = "build" /\ S \subseteq Ids /\ id \in v.items
      /\ Ok(S, v, st, cap, ph)
  BY <1>1, Values DEF Build, Now, BuildNext
<1>4. Working(S, v) /\ WholeSnapshot(S)
  BY <1>3 DEF Ok
<1>5. w \in Works /\ w.items = v.items \ {id} /\ w.step = "build" /\ id \in Ids
  BY <1>3 DEF Works
<1> HIDE DEF w
<1>6. /\ Known(w.items) /\ Distinct(w.items)
      /\ Distinct(S \cup w.items) /\ Distinct(T \cup w.items) /\ Distinct(T)
  BY <1>3, <1>4, <1>5 DEF Working, Known, Distinct
<1>7. UNCHANGED <<rows, status, phase, captured>>
  BY DEF Build
<1>8. CASE ~Builds(i, id)
  <2>1. To(i, Building(w)) /\ UNCHANGED snapshot
    BY <1>2, <1>8 DEF w
  <2>2. /\ Building(w) \in Works
        /\ Building(w).step # "idle" => Working(snapshot[i], Building(w))
    BY <1>1, <1>5, <1>6, BuildingWorks
  <2> QED
    BY <1>7, <2>1, <2>2, WorkStep
<1>9. CASE Builds(i, id)
  <2>1. PICK u : u = IF WritesStatus(i) THEN [w EXCEPT !.step = "write_status", !.at = id]
                                        ELSE Building(w)
    OBVIOUS
  <2>2. snapshot' = [snapshot EXCEPT ![i] = @ \cup {id}] /\ To(i, u)
    BY <1>2, <1>9, <2>1 DEF w
  <2>3. u \in Works /\ (u.step # "idle" => Working(T, u))
    <3>1. CASE WritesStatus(i)
      <4>1. u \in Works /\ u.step = "write_status" /\ u.at = id /\ u.items = w.items
        BY <1>5, <2>1, <3>1 DEF Works, Steps
      <4> QED
        BY <1>6, <4>1 DEF Working
    <3>2. CASE ~WritesStatus(i)
      <4>1. u = Building(w)
        BY <2>1, <3>2
      <4> HIDE DEF T
      <4> QED
        BY <1>5, <1>6, <4>1, BuildingWorks
    <3> QED
      BY <3>1, <3>2
  <2>4. id \in DOMAIN rows /\ (rows[id].kind # "distribution" => rows[id].parent \in S)
    BY <1>1, <1>9 DEF Builds, Exists
  <2>5. WholeSnapshot(T)
    BY <1>4, <1>6, <2>4 DEF WholeSnapshot, Known
  <2>6. Ok(T, u, st, cap, ph)
    BY <1>3, <2>3, <2>5 DEF Ok, Backed
  <2>7. /\ snapshot' \in [Instances -> SUBSET Ids] /\ snapshot'[i] = T
        /\ work' \in [Instances -> Works] /\ work'[i] = u
        /\ \A j \in Instances \ {i} : work'[j] = work[j] /\ snapshot'[j] = snapshot[j]
    BY <1>1, <1>5, <2>2, <2>3 DEF To, Inv, Types
  <2>8. Types' /\ RowsInv' /\ Grows
    BY <1>7, <2>7, SameRows DEF Inv, Types
  <2>9. status'[i] = st /\ captured'[i] = cap /\ phase'[i] = ph
    BY <1>1, <1>7
  <2> HIDE DEF T
  <2> QED
    BY <1>7, <2>6, <2>7, <2>8, <2>9, StepOf
<1> QED
  BY <1>8, <1>9

LEMMA WriteStatusStep ==
  ASSUME Inv, NEW i \in Instances, WriteStatus(i)
  PROVE  Inv'
<1>1. PICK S, w, cap, ph : S = snapshot[i] /\ w = work[i] /\ cap = captured[i] /\ ph = phase[i]
  OBVIOUS
<1>2. /\ w \in Works /\ w.step = "write_status"
      /\ status[i] \in [Ids -> {"none", "fresh", "stale"}]
      /\ Ok(S, w, status[i], cap, ph)
  BY <1>1, Values DEF WriteStatus, Now
<1>3. Working(S, w) /\ w.at \in S
  BY <1>2 DEF Ok, Working
<1>4. PICK v : v = Building(w)
  OBVIOUS
<1>5. v \in Works /\ (v.step # "idle" => Working(S, v))
  BY <1>2, <1>3, <1>4, BuildingWorks DEF Working
<1>6. /\ status' = [status EXCEPT ![i][w.at] = "fresh"] /\ To(i, v)
      /\ UNCHANGED <<rows, snapshot, phase, captured>>
  BY <1>1, <1>4 DEF WriteStatus
<1>7. PICK st : st = status'[i]
  OBVIOUS
<1>8. /\ status' \in [Instances -> [Ids -> {"none", "fresh", "stale"}]]
      /\ \A j \in Instances \ {i} : status'[j] = status[j]
      /\ \A id \in Ids : st[id] # "none" => status[i][id] # "none" \/ id = w.at
  BY <1>6, <1>7 DEF Inv, Types
<1>9. Ok(S, v, st, cap, ph)
  BY <1>2, <1>3, <1>5, <1>8 DEF Ok, Backed
<1>10. /\ work' \in [Instances -> Works] /\ work'[i] = v
       /\ \A j \in Instances \ {i} : work'[j] = work[j]
  BY <1>5, <1>6 DEF To, Inv, Types
<1>11. Types' /\ RowsInv' /\ Grows
  BY <1>6, <1>8, <1>10, SameRows DEF Inv, Types
<1>12. snapshot'[i] = S /\ captured'[i] = cap /\ phase'[i] = ph
  BY <1>1, <1>6
<1> QED
  BY <1>6, <1>7, <1>8, <1>9, <1>10, <1>11, <1>12, StepOf

\* An instance's life: its queue q, its reconcile w, its status rows st and its
\* phase.  The startup's reconcile is its first; the others write status rows
\* once it is ready; and none is left when it has stopped.
LifeOk(q, w, st, ph) ==
  /\ q \in SUBSET {"boot", "change"}
  /\ ph \in {"new", "down"} => q = {} /\ w.step = "idle"
  /\ "boot" \in q => ph = "starting"
  /\ w.boot => ph = "starting" /\ "boot" \notin q
  /\ w.step = "build" /\ w.items = {} => w.boot
  /\ w.step = "write_status" => ph = "ready"
  /\ \A id \in Ids : st[id] # "none" => ph \in {"ready", "down"}

Life == /\ queue \in [Instances -> SUBSET {"boot", "change"}]
        /\ errors \in 0 .. MaxErrors
        /\ \A i \in Instances : LifeOk(queue[i], work[i], status[i], phase[i])

LEMMA LoadedStep ==
  ASSUME Inv, Life, NEW i \in Instances, Loaded(i)
  PROVE  Inv'
<1>1. PICK S, st : S = snapshot[i] /\ st = status[i]
  OBVIOUS
<1>2. Idle \in Works /\ Idle.step = "idle"
  BY DEF Idle, Works, Steps
<1>3. phase[i] # "down" /\ Ok(S, work[i], st, captured[i], phase[i]) /\ S \subseteq Ids
  BY <1>1, Values DEF Life, LifeOk, Loaded, Now
<1>4. Ok(S, Idle, st, S, "booted")
  BY <1>2, <1>3 DEF Ok, Backed
<1>5. /\ work' = [work EXCEPT ![i] = Idle] /\ phase' = [phase EXCEPT ![i] = "booted"]
      /\ captured' = [captured EXCEPT ![i] = S] /\ UNCHANGED <<rows, snapshot, status>>
  BY <1>1 DEF Loaded, To
<1>6. Types' /\ RowsInv' /\ Grows
  BY <1>2, <1>3, <1>5, SameRows DEF Inv, Types, Phases
<1>7. /\ snapshot'[i] = S /\ work'[i] = Idle /\ status'[i] = st /\ captured'[i] = S
      /\ phase'[i] = "booted"
      /\ \A j \in Instances \ {i} :
           work'[j] = work[j] /\ captured'[j] = captured[j] /\ phase'[j] = phase[j]
  BY <1>1, <1>5 DEF Inv, Types
<1> QED
  BY <1>4, <1>5, <1>6, <1>7, StepOf

\* Nothing is required of the rows of an instance that has stopped.
LEMMA StoppedStep ==
  ASSUME Inv, NEW i \in Instances, To(i, Idle), Stopped(i), UNCHANGED <<rows, status>>
  PROVE  Inv'
<1>1. PICK st : st = status[i]
  OBVIOUS
<1>2. Idle \in Works /\ Idle.step = "idle"
  BY DEF Idle, Works, Steps
<1>3. Ok({}, Idle, st, {}, "down")
  BY <1>2 DEF Ok, WholeSnapshot, Known, Distinct
<1>4. Types' /\ RowsInv' /\ Grows
  BY <1>2, SameRows DEF Inv, Types, Phases, To, Stopped
<1>5. /\ snapshot'[i] = {} /\ work'[i] = Idle /\ status'[i] = st /\ captured'[i] = {}
      /\ phase'[i] = "down"
      /\ \A j \in Instances \ {i} :
           /\ snapshot'[j] = snapshot[j] /\ work'[j] = work[j] /\ status'[j] = status[j]
           /\ captured'[j] = captured[j] /\ phase'[j] = phase[j]
  BY <1>1 DEF Inv, Types, To, Stopped
<1> QED
  BY <1>3, <1>4, <1>5, StepOf

LEMMA FailStep ==
  ASSUME Inv, NEW i \in Instances, Fail(i)
  PROVE  Inv'
<1>1. Idle \in Works /\ Idle.step = "idle"
  BY DEF Idle, Works, Steps
<1>2. CASE work[i].boot
  BY <1>2, StoppedStep DEF Fail
<1>3. CASE ~work[i].boot
  BY <1>1, <1>3, WorkStep DEF Fail
<1> QED
  BY <1>2, <1>3

\* Only the status rows, the phase and what is captured change.
LEMMA StatusStep ==
  ASSUME Inv, UNCHANGED <<rows, snapshot, work>>, Types',
         \A j \in Instances :
           /\ \A id \in captured'[j] : Backed(snapshot[j], id)
           /\ phase'[j] # "down" =>
                \A id \in Ids : status'[j][id] # "none" => Backed(snapshot[j], id)
  PROVE  Inv'
<1>1. RowsInv' /\ Grows
  BY SameRows DEF Inv
<1> SUFFICES ASSUME NEW j \in Instances
             PROVE  Ok(snapshot[j], work[j], status[j], captured[j], phase[j])'
  BY <1>1 DEF Inv
<1>2. PICK T, v, su, dap, qh : T = snapshot[j] /\ v = work[j] /\ su = status'[j]
                               /\ dap = captured'[j] /\ qh = phase'[j]
  OBVIOUS
<1>3. v \in Works /\ Ok(T, v, su, dap, qh)
  BY <1>2, Values DEF Ok
<1>4. Ok(T, v, su, dap, qh)'
  BY <1>1, <1>3, OkKept DEF Inv
<1> QED
  BY <1>2, <1>4 DEF Ok, WholeSnapshot, Known, Distinct, Clash, Working, Listings, WithParents,
     Covered, Backed

LEMMA LifeStep ==
  ASSUME Inv, NEW i \in Instances, Start(i) \/ BecomeReady(i) \/ Tick(i)
  PROVE  Inv'
<1>1. \A j \in Instances : /\ \A id \in captured[j] : Backed(snapshot[j], id)
                           /\ phase[j] # "down" =>
                                \A id \in Ids : status[j][id] # "none" => Backed(snapshot[j], id)
  BY Values DEF Ok
<1>2. CASE Start(i)
  <2>1. Types' /\ \A j \in Instances : phase'[j] # "down" => phase[j] # "down"
    BY <1>2 DEF Start, Inv, Types, Phases
  <2> QED
    BY <1>1, <1>2, <2>1, StatusStep DEF Start
<1>3. CASE BecomeReady(i)
  <2>1. PICK ready : ready = [id \in Ids |-> IF id \in captured[i] THEN "fresh" ELSE status[i][id]]
    OBVIOUS
  <2>2. status' = [status EXCEPT ![i] = ready] /\ UNCHANGED <<rows, snapshot, work>>
    BY <1>3, <2>1 DEF BecomeReady, Inv, Types
  <2>3. ready \in [Ids -> {"none", "fresh", "stale"}]
    BY <2>1, Values
  <2>4. Types' /\ \A j \in Instances : phase'[j] # "down" => phase[j] # "down"
    BY <1>3, <2>2, <2>3 DEF BecomeReady, Inv, Types, Phases
  <2>5. \A j \in Instances : \A id \in captured'[j] : id \in captured[j]
    BY <1>3 DEF BecomeReady, Inv, Types
  <2>6. \A id \in Ids : ready[id] # "none" => status[i][id] # "none" \/ id \in captured[i]
    BY <2>1
  <2>7. \A j \in Instances : \A id \in Ids :
          status'[j][id] # "none" => status[j][id] # "none" \/ id \in captured[j]
    BY <2>2, <2>6 DEF Inv, Types
  <2> QED
    BY <1>1, <2>2, <2>4, <2>5, <2>7, StatusStep
<1>4. CASE Tick(i)
  <2>1. Types'
    BY <1>4 DEF Tick, Inv, Types
  <2> QED
    BY <1>1, <1>4, <2>1, StatusStep DEF Tick
<1> QED
  BY <1>2, <1>3, <1>4

\* No heartbeat, no ageing and no purge makes a row.
LEMMA HeartbeatStep ==
  ASSUME Inv, UNCHANGED <<rows, snapshot, phase, captured, work>>,
         status' \in [Instances -> [Ids -> {"none", "fresh", "stale"}]],
         \A j \in Instances : \A id \in Ids : status'[j][id] # "none" => status[j][id] # "none"
  PROVE  Inv'
<1>1. Types'
  BY DEF Inv, Types
<1>2. \A j \in Instances : /\ \A id \in captured[j] : Backed(snapshot[j], id)
                           /\ phase[j] # "down" =>
                                \A id \in Ids : status[j][id] # "none" => Backed(snapshot[j], id)
  BY Values DEF Ok
<1> QED
  BY <1>1, <1>2, StatusStep

LEMMA TurnedStep ==
  ASSUME Inv, NEW i \in Instances, NEW to \in {"fresh", "stale"}, NEW from \in {"fresh", "stale"},
         Turned(i, from, to)
  PROVE  Inv'
<1>1. PICK turned : turned = [id \in Ids |-> IF status[i][id] = from THEN to ELSE status[i][id]]
  OBVIOUS
<1>2. status' = [status EXCEPT ![i] = turned]
  BY <1>1 DEF Turned, Inv, Types
<1>3. /\ turned \in [Ids -> {"none", "fresh", "stale"}]
      /\ \A id \in Ids : turned[id] # "none" => status[i][id] # "none"
  BY <1>1, Values
<1> QED
  BY <1>2, <1>3, HeartbeatStep DEF Turned, Inv, Types

LEMMA PruneStep ==
  ASSUME Inv, Prune
  PROVE  Inv'
<1>1. status' \in [Instances -> [Ids -> {"none", "fresh", "stale"}]]
  BY DEF Prune, Inv, Types
<1>2. \A j \in Instances : \A id \in Ids : status'[j][id] # "none" => status[j][id] # "none"
  BY DEF Prune, Inv, Types
<1> QED
  BY <1>1, <1>2, HeartbeatStep DEF Prune

-----------------------------------------------------------------------------
(* The life of an instance                                                 *)

LEMMA LifeOf ==
  ASSUME Inv, Life, NEW i \in Instances, errors' \in 0 .. MaxErrors,
         queue' \in [Instances -> SUBSET {"boot", "change"}],
         \A j \in Instances \ {i} :
           /\ queue'[j] = queue[j] /\ work'[j] = work[j] /\ status'[j] = status[j]
           /\ phase'[j] = phase[j],
         LifeOk(queue'[i], work'[i], status'[i], phase'[i])
  PROVE  Life'
<1> SUFFICES ASSUME NEW j \in Instances
             PROVE  LifeOk(queue'[j], work'[j], status'[j], phase'[j])
  BY DEF Life, LifeOk
<1> QED
  BY DEF Life

LEMMA RowsLife ==
  ASSUME Inv, Life, NEW i \in Instances, Serves(i), Committed(i)
  PROVE  Life'
<1>1. PICK heard \in SUBSET {j \in Instances : phase[j] = "ready"} :
        queue' = [j \in Instances |-> IF j \in heard \cup {i} THEN queue[j] \cup {"change"}
                                                              ELSE queue[j]]
  BY DEF Committed
<1>2. UNCHANGED <<status, phase, work, errors>>
  BY DEF Committed
<1>3. queue' \in [Instances -> SUBSET {"boot", "change"}]
  BY <1>1 DEF Life
<1> SUFFICES ASSUME NEW j \in Instances PROVE LifeOk(queue'[j], work[j], status[j], phase[j])
  BY <1>2, <1>3 DEF Life, LifeOk
<1>4. LifeOk(queue[j], work[j], status[j], phase[j])
  BY DEF Life
<1>5. CASE j \in heard \cup {i}
  <2>1. queue'[j] = queue[j] \cup {"change"} /\ phase[j] \in {"starting", "booted", "ready"}
    BY <1>1, <1>5 DEF Serves, Running
  <2> QED
    BY <1>4, <2>1 DEF LifeOk
<1>6. CASE j \notin heard \cup {i}
  BY <1>1, <1>4, <1>6
<1> QED
  BY <1>5, <1>6

\* A reconcile that goes on keeps what it is.
GoesOn(w, v) ==
  /\ v.boot => w.boot
  /\ v.step = "build" /\ v.items = {} => v.boot

LEMMA BuildingGoesOn ==
  ASSUME NEW w \in Works
  PROVE  GoesOn(w, Building(w)) /\ Building(w).step # "write_status"
BY DEF GoesOn, Building, Works, Idle

LEMMA DroppingGoesOn ==
  ASSUME NEW i \in Instances, NEW w \in Works
  PROVE  GoesOn(w, Dropping(i, w)) /\ Dropping(i, w).step # "write_status"
<1> DEFINE v == [w EXCEPT !.items = @ \ snapshot[i]]
<1>1. v \in Works /\ v.boot = w.boot
  BY DEF Works
<1>2. CASE Dropping(i, w) = Building(v)
  <2> HIDE DEF v
  <2> QED
    BY <1>1, <1>2, BuildingGoesOn DEF GoesOn
<1>3. CASE Dropping(i, w) = [w EXCEPT !.step = "drop", !.at = 0]
  BY <1>3 DEF GoesOn, Works
<1> QED
  BY <1>2, <1>3 DEF Dropping

LEMMA WorkLife ==
  ASSUME Inv, Life, NEW i \in Instances, NEW v, To(i, v), UNCHANGED <<phase, queue, errors>>,
         work[i].step # "idle", GoesOn(work[i], v), v.step = "write_status" => phase[i] = "ready",
         \A j \in Instances \ {i} : status'[j] = status[j],
         \A id \in Ids : status'[i][id] # "none" => status[i][id] # "none" \/ phase[i] = "ready"
  PROVE  Life'
<1>1. work'[i] = v /\ \A j \in Instances \ {i} : work'[j] = work[j]
  BY DEF To, Inv, Types
<1>2. LifeOk(queue[i], work[i], status[i], phase[i])
  BY DEF Life
<1>3. LifeOk(queue[i], v, status'[i], phase[i])
  BY <1>2 DEF LifeOk, GoesOn
<1> QED
  BY <1>1, <1>3, LifeOf DEF Life

LEMMA ReconcileLife ==
  ASSUME Inv, Life, NEW i \in Instances, Reconcile(i)
  PROVE  Life'
<1>1. PICK w : w = work[i]
  OBVIOUS
<1>2. w \in Works
  BY <1>1, Values
<1>3. LifeOk(queue[i], w, status[i], phase[i])
  BY <1>1 DEF Life
<1>4. ASSUME NEW why \in queue[i], StartReconcile(i, why) PROVE Life'
  <2> DEFINE v == [step |-> "lexicons", boot |-> why = "boot", items |-> InDb("distribution"),
                   at |-> 0]
  <2>1. /\ queue' = [queue EXCEPT ![i] = @ \ {why}] /\ w.step = "idle"
        /\ work' = [work EXCEPT ![i] = v] /\ UNCHANGED <<status, phase, errors>>
    BY <1>1, <1>4 DEF StartReconcile, To, Now
  <2>2. /\ queue' \in [Instances -> SUBSET {"boot", "change"}] /\ queue'[i] = queue[i] \ {why}
        /\ work'[i] = v
        /\ \A j \in Instances \ {i} : queue'[j] = queue[j] /\ work'[j] = work[j]
    BY <2>1 DEF Life, Inv, Types
  <2>3. v.step = "lexicons" /\ (v.boot => why = "boot")
    OBVIOUS
  <2> HIDE DEF v
  <2>4. LifeOk(queue[i] \ {why}, v, status[i], phase[i])
    BY <1>3, <1>4, <2>3 DEF LifeOk
  <2> QED
    BY <2>1, <2>2, <2>4, LifeOf DEF Life
<1>5. CASE List(i)
  <2> DEFINE u == [w EXCEPT !.items = @ \cup InDb(Listing(w.step))]
             v == [u EXCEPT !.step = "leave_sets"]
  <2>1. u \in Works /\ u.boot = w.boot
    BY <1>2, InDbRows DEF Works, Inv
  <2>2. /\ w.step # "idle" /\ UNCHANGED <<phase, queue, errors, status>>
        /\ To(i, v) \/ To(i, Dropping(i, u))
    BY <1>1, <1>5 DEF List
  <2> HIDE DEF u
  <2>3. GoesOn(w, v) /\ v.step # "write_status"
    BY <2>1 DEF GoesOn, Works
  <2>4. GoesOn(w, Dropping(i, u)) /\ Dropping(i, u).step # "write_status"
    BY <2>1, DroppingGoesOn DEF GoesOn
  <2> HIDE DEF v
  <2> QED
    BY <1>1, <2>2, <2>3, <2>4, WorkLife
<1>6. CASE Drop(i)
  <2>1. PICK id \in Stale(i) : To(i, [w EXCEPT !.step = "drop_status", !.at = id])
    BY <1>1, <1>6 DEF Drop, DropNext
  <2> DEFINE v == [w EXCEPT !.step = "drop_status", !.at = id]
  <2>2. GoesOn(w, v) /\ v.step # "write_status"
    BY <1>2 DEF GoesOn, Works
  <2> HIDE DEF v
  <2>3. w.step # "idle" /\ UNCHANGED <<phase, queue, errors, status>>
    BY <1>1, <1>6 DEF Drop, Now
  <2> QED
    BY <1>1, <2>1, <2>2, <2>3, WorkLife DEF v
<1>7. CASE DropStatus(i)
  <2>1. /\ w.step # "idle" /\ UNCHANGED <<phase, queue, errors>> /\ To(i, Dropping(i, w))
        /\ status' = [status EXCEPT ![i][w.at] = "none"]
    BY <1>1, <1>7 DEF DropStatus, Now
  <2>2. /\ \A j \in Instances \ {i} : status'[j] = status[j]
        /\ \A id \in Ids : status'[i][id] # "none" => status[i][id] # "none"
    BY <2>1 DEF Inv, Types
  <2> QED
    BY <1>1, <1>2, <2>1, <2>2, DroppingGoesOn, WorkLife
<1>8. CASE Build(i)
  <2>1. PICK id : LET u == [w EXCEPT !.items = @ \ {id}]
                  IN To(i, Building(u)) \/ (/\ WritesStatus(i)
                                            /\ To(i, [u EXCEPT !.step = "write_status", !.at = id]))
    BY <1>1, <1>8 DEF Build
  <2> DEFINE u == [w EXCEPT !.items = @ \ {id}]
             v == [u EXCEPT !.step = "write_status", !.at = id]
  <2>2. To(i, Building(u)) \/ (WritesStatus(i) /\ To(i, v))
    BY <2>1
  <2>3. u \in Works /\ u.boot = w.boot
    BY <1>2 DEF Works
  <2> HIDE DEF u
  <2>4. GoesOn(w, v)
    BY <2>3 DEF GoesOn, Works
  <2>5. GoesOn(w, Building(u)) /\ Building(u).step # "write_status"
    BY <2>3, BuildingGoesOn DEF GoesOn
  <2>6. w.step # "idle" /\ UNCHANGED <<phase, queue, errors, status>>
    BY <1>1, <1>8 DEF Build, Now
  <2> HIDE DEF v
  <2> QED
    BY <1>1, <2>2, <2>4, <2>5, <2>6, WorkLife DEF WritesStatus
<1>9. CASE WriteStatus(i)
  <2>1. /\ w.step = "write_status" /\ UNCHANGED <<phase, queue, errors>> /\ To(i, Building(w))
        /\ status' = [status EXCEPT ![i][w.at] = "fresh"]
    BY <1>1, <1>9 DEF WriteStatus, Now
  <2>2. \A j \in Instances \ {i} : status'[j] = status[j]
    BY <2>1 DEF Inv, Types
  <2>3. phase[i] = "ready"
    BY <1>3, <2>1 DEF LifeOk
  <2> QED
    BY <1>1, <1>2, <2>1, <2>2, <2>3, BuildingGoesOn, WorkLife
<1>10. CASE Loaded(i)
  <2>1. /\ work' = [work EXCEPT ![i] = Idle] /\ phase' = [phase EXCEPT ![i] = "booted"]
        /\ UNCHANGED <<queue, status, errors>> /\ w.step = "build" /\ w.items = {}
    BY <1>1, <1>10 DEF Loaded, To, Now
  <2>2. /\ work'[i] = Idle /\ phase'[i] = "booted"
        /\ \A j \in Instances \ {i} : work'[j] = work[j] /\ phase'[j] = phase[j]
    BY <2>1 DEF Inv, Types
  <2>3. LifeOk(queue[i], Idle, status[i], "booted")
    BY <1>3, <2>1 DEF LifeOk, Idle
  <2> QED
    BY <2>1, <2>2, <2>3, LifeOf DEF Life
<1> QED
  BY <1>4, <1>5, <1>6, <1>7, <1>8, <1>9, <1>10 DEF Reconcile

LEMMA StoppedLife ==
  ASSUME Inv, Life, NEW i \in Instances, To(i, Idle), Stopped(i), UNCHANGED status,
         errors' \in 0 .. MaxErrors
  PROVE  Life'
<1>1. /\ queue' \in [Instances -> SUBSET {"boot", "change"}] /\ queue'[i] = {}
      /\ \A j \in Instances \ {i} : queue'[j] = queue[j]
  BY DEF Stopped, Life
<1>2. /\ work'[i] = Idle /\ phase'[i] = "down"
      /\ \A j \in Instances \ {i} : work'[j] = work[j] /\ phase'[j] = phase[j]
  BY DEF Stopped, To, Inv, Types
<1>3. LifeOk({}, Idle, status[i], "down")
  BY DEF LifeOk, Idle
<1> QED
  BY <1>1, <1>2, <1>3, LifeOf

LEMMA FailLife ==
  ASSUME Inv, Life, NEW i \in Instances, Fail(i)
  PROVE  Life'
<1>1. errors' \in 0 .. MaxErrors
  BY CatalogAssumption DEF Fail, Life
<1>2. CASE work[i].boot
  BY <1>1, <1>2, StoppedLife DEF Fail
<1>3. CASE ~work[i].boot
  <2>1. work'[i] = Idle /\ \A j \in Instances \ {i} : work'[j] = work[j]
    BY DEF Fail, To, Inv, Types
  <2>2. LifeOk(queue[i], Idle, status[i], phase[i])
    BY DEF Life, LifeOk, Idle
  <2> QED
    BY <1>1, <1>3, <2>1, <2>2, LifeOf DEF Fail, Life
<1> QED
  BY <1>2, <1>3

LEMMA StartupLife ==
  ASSUME Inv, Life, NEW i \in Instances, Start(i) \/ BecomeReady(i) \/ Tick(i)
  PROVE  Life'
<1>1. LifeOk(queue[i], work[i], status[i], phase[i]) /\ UNCHANGED <<work, errors>>
  BY DEF Life, Start, BecomeReady, Tick
<1>2. /\ queue' \in [Instances -> SUBSET {"boot", "change"}]
      /\ \A j \in Instances \ {i} : queue'[j] = queue[j]
  BY DEF Start, BecomeReady, Tick, Life
<1>3. \A j \in Instances \ {i} : phase'[j] = phase[j] /\ status'[j] = status[j]
  BY DEF Start, BecomeReady, Tick, Inv, Types
<1>4. CASE Start(i)
  <2>1. queue'[i] = {"boot"} /\ phase'[i] = "starting" /\ status' = status /\ phase[i] = "new"
    BY <1>4 DEF Start, Life, Inv, Types
  <2>2. LifeOk({"boot"}, work[i], status[i], "starting")
    BY <1>1, <2>1 DEF LifeOk
  <2> QED
    BY <1>1, <1>2, <1>3, <2>1, <2>2, LifeOf DEF Life
<1>5. CASE BecomeReady(i) \/ Tick(i)
  <2>1. /\ queue'[i] = queue[i] \cup {"change"} /\ phase'[i] = "ready"
        /\ phase[i] \in {"booted", "ready"}
    BY <1>5 DEF BecomeReady, Tick, Life, Inv, Types
  <2>2. LifeOk(queue[i] \cup {"change"}, work[i], status'[i], "ready")
    BY <1>1, <2>1 DEF LifeOk
  <2> QED
    BY <1>1, <1>2, <1>3, <2>1, <2>2, LifeOf DEF Life
<1> QED
  BY <1>4, <1>5

LEMMA HeartbeatLife ==
  ASSUME Inv, Life, UNCHANGED <<phase, queue, work>>, errors' \in 0 .. MaxErrors,
         \A j \in Instances : \A id \in Ids : status'[j][id] # "none" => status[j][id] # "none"
  PROVE  Life'
BY DEF Life, LifeOk

LEMMA TurnedLife ==
  ASSUME Inv, Life, NEW i \in Instances, Age(i) \/ Stall(i) \/ Heartbeat(i)
  PROVE  Life'
<1>1. errors' \in 0 .. MaxErrors /\ UNCHANGED <<phase, queue, work>>
  BY CatalogAssumption DEF Age, Stall, Heartbeat, Turned, Life
<1>2. PICK from \in {"fresh", "stale"}, to \in {"fresh", "stale"} :
        status' = [status EXCEPT ![i] = [id \in Ids |-> IF @[id] = from THEN to ELSE @[id]]]
  BY DEF Age, Stall, Heartbeat, Turned
<1>3. \A j \in Instances : \A id \in Ids : status'[j][id] # "none" => status[j][id] # "none"
  BY <1>2 DEF Inv, Types
<1> QED
  BY <1>1, <1>3, HeartbeatLife

LEMMA PruneLife ==
  ASSUME Inv, Life, Prune
  PROVE  Life'
<1>1. \A j \in Instances : \A id \in Ids : status'[j][id] # "none" => status[j][id] # "none"
  BY DEF Prune, Inv, Types
<1> QED
  BY <1>1, HeartbeatLife DEF Prune, Life

LEMMA NextLife ==
  ASSUME Inv, Life, [Next]_vars
  PROVE  Life'
<1>1. CASE UNCHANGED vars
  BY <1>1, HeartbeatLife DEF vars, Life
<1>2. ASSUME NEW i \in Instances, NEW name, NEW id,
             \/ UploadDistribution(i, name) \/ UploadLexicon(i, name, id) \/ UploadLeaves(i, id)
             \/ DeleteDistribution(i, id) \/ DeleteLexicon(i, id) \/ DeleteLeaveSet(i, id)
      PROVE  Life'
  BY <1>2, RowsLife DEF UploadDistribution, UploadLexicon, UploadLeaves, DeleteDistribution,
     DeleteLexicon, DeleteLeaveSet, Delete
<1>3. ASSUME NEW i \in Instances, Reconcile(i) \/ Fail(i) PROVE Life'
  BY <1>3, ReconcileLife, FailLife
<1>4. ASSUME NEW i \in Instances, Crash(i) PROVE Life'
  BY <1>4, StoppedLife DEF Crash, Life
<1>5. ASSUME NEW i \in Instances, Start(i) \/ BecomeReady(i) \/ Tick(i) PROVE Life'
  BY <1>5, StartupLife
<1>6. ASSUME NEW i \in Instances, Age(i) \/ Stall(i) \/ Heartbeat(i) PROVE Life'
  BY <1>6, TurnedLife
<1>7. CASE Prune
  BY <1>7, PruneLife
<1> QED
  BY <1>1, <1>2, <1>3, <1>4, <1>5, <1>6, <1>7 DEF Next

-----------------------------------------------------------------------------
(* The invariant                                                           *)

LEMMA NextInv ==
  ASSUME Inv, Life, [Next]_vars
  PROVE  Inv'
<1>1. CASE UNCHANGED vars
  BY <1>1, SameRows, RowsStep DEF vars, Inv
<1>2. ASSUME NEW i \in Instances, NEW name, NEW id,
             \/ name \in Names /\ UploadDistribution(i, name)
             \/ name \in Names /\ UploadLexicon(i, name, id)
             \/ UploadLeaves(i, id)
      PROVE  Inv'
  BY <1>2, UploadStep
<1>3. ASSUME NEW i \in Instances, NEW id \in Ids,
             DeleteDistribution(i, id) \/ DeleteLexicon(i, id) \/ DeleteLeaveSet(i, id)
      PROVE  Inv'
  BY <1>3, DeleteStep DEF DeleteDistribution, DeleteLexicon, DeleteLeaveSet
<1>4. ASSUME NEW i \in Instances, Reconcile(i) PROVE Inv'
  BY <1>4, StartReconcileStep, ListStep, DropStep, DropStatusStep, BuildStep, WriteStatusStep,
     LoadedStep DEF Reconcile
<1>5. ASSUME NEW i \in Instances, Fail(i) \/ Crash(i) PROVE Inv'
  BY <1>5, FailStep, StoppedStep DEF Crash
<1>6. ASSUME NEW i \in Instances, Start(i) \/ BecomeReady(i) \/ Tick(i) PROVE Inv'
  BY <1>6, LifeStep
<1>7. ASSUME NEW i \in Instances, Age(i) \/ Stall(i) \/ Heartbeat(i) PROVE Inv'
  BY <1>7, TurnedStep DEF Age, Stall, Heartbeat
<1>8. CASE Prune
  BY <1>8, PruneStep
<1> QED
  BY <1>1, <1>2, <1>3, <1>4, <1>5, <1>6, <1>7, <1>8 DEF Next

LEMMA InitInv == Init => Inv /\ Life
<1> SUFFICES ASSUME Init PROVE Inv /\ Life
  OBVIOUS
<1>1. RowsInv
  BY CatalogAssumption DEF Init, RowsInv
<1>2. Idle \in Works /\ Idle.step = "idle"
  BY DEF Idle, Works, Steps
<1>3. Types /\ Life
  BY <1>2, CatalogAssumption DEF Init, Types, Phases, Life, LifeOk, Idle
<1>4. ASSUME NEW i \in Instances
      PROVE  Ok(snapshot[i], work[i], status[i], captured[i], phase[i])
  BY <1>2 DEF Init, Ok, WholeSnapshot, Known, Distinct
<1> QED
  BY <1>1, <1>3, <1>4 DEF Inv

LEMMA Invariant == Spec => [](Inv /\ Life)
<1>1. Inv /\ Life /\ [Next]_vars => (Inv /\ Life)'
  BY NextInv, NextLife
<1> QED
  BY <1>1, InitInv, PTL DEF Spec

-----------------------------------------------------------------------------
(* What a step may hide                                                    *)

\* Nothing an instance has indexed is lost while it runs, unless deleted.
Indexed ==
  \A j \in Instances : phase'[j] = phase[j] =>
    \A id \in snapshot[j] : id \in snapshot'[j] \/ (id \in DOMAIN rows /\ rows[id].deleted)

\* Only an instance that is ready begins to count as live, and a live one keeps
\* its rows, but those of what is deleted.
Counted ==
  \A i \in Instances : i \in LiveInstances' =>
    /\ i \in LiveInstances \/ phase'[i] = "ready"
    /\ \A id \in Ids : status[i][id] = "fresh" =>
         status'[i][id] = "fresh" \/ (id \in DOMAIN rows /\ rows[id].deleted)

\* What a step hides, by what it does to snapshots and status rows.
HidesNothing ==
  \A j \in Instances : phase'[j] = phase[j] =>
    \A id \in Lexicons(j) :
      \/ id \in Lexicons(j)'
      \/ ~Exists(id)'
      \/ \E i \in LiveInstances' \ LiveInstances : phase'[i] = "ready"

LEMMA NothingHidden ==
  ASSUME Inv, Grows, Indexed, Counted
  PROVE  HidesNothing
<1> SUFFICES ASSUME NEW j \in Instances, phase'[j] = phase[j], NEW id \in Lexicons(j), Exists(id)',
                    \A i \in LiveInstances' \ LiveInstances : phase'[i] # "ready"
             PROVE  id \in Lexicons(j)'
  BY DEF HidesNothing
<1>1. /\ id \in DOMAIN rows /\ rows[id].kind = "lexicon" /\ ~rows[id].deleted
      /\ id \in snapshot[j] /\ \A i \in LiveInstances : status[i][id] = "fresh"
  BY DEF Lexicons, InDb, Exists, LoadedByAll
<1>2. id \in Ids
  BY <1>1, RowFacts DEF Inv
<1>3. id \in InDb("lexicon")'
  BY <1>1 DEF InDb, Exists, Grows
<1>4. id \in snapshot'[j]
  BY <1>1 DEF Indexed
<1>5. \A i \in LiveInstances' : status'[i][id] = "fresh"
  <2> SUFFICES ASSUME NEW i \in LiveInstances' PROVE status'[i][id] = "fresh"
    OBVIOUS
  <2>1. i \in Instances
    BY DEF LiveInstances
  <2>2. i \in LiveInstances
    BY <2>1 DEF Counted
  <2> QED
    BY <1>1, <1>2, <2>1, <2>2 DEF Counted
<1> QED
  BY <1>3, <1>4, <1>5 DEF Lexicons, LoadedByAll

LEMMA NextGrows ==
  ASSUME Inv, [Next]_vars
  PROVE  Grows
<1>1. CASE UNCHANGED rows
  BY <1>1, SameRows DEF Inv
<1>2. ASSUME NEW i \in Instances, NEW name, NEW id,
             \/ name \in Names /\ UploadDistribution(i, name)
             \/ name \in Names /\ UploadLexicon(i, name, id)
             \/ UploadLeaves(i, id)
      PROVE  Grows
  BY <1>2, UploadStep
<1>3. ASSUME NEW i \in Instances, NEW id \in Ids,
             DeleteDistribution(i, id) \/ DeleteLexicon(i, id) \/ DeleteLeaveSet(i, id)
      PROVE  Grows
  BY <1>3, DeleteStep DEF DeleteDistribution, DeleteLexicon, DeleteLeaveSet
<1>4. ASSUME NEW i \in Instances, Reconcile(i) \/ Fail(i) PROVE UNCHANGED rows
  BY <1>4 DEF Reconcile, StartReconcile, List, Drop, DropStatus, Build, WriteStatus, Loaded, Fail
<1>5. ASSUME NEW i \in Instances,
             \/ Start(i) \/ BecomeReady(i) \/ Tick(i) \/ Crash(i)
             \/ Age(i) \/ Stall(i) \/ Heartbeat(i)
      PROVE  UNCHANGED rows
  BY <1>5 DEF Start, BecomeReady, Tick, Crash, Age, Stall, Heartbeat, Turned
<1>6. Prune \/ UNCHANGED vars => UNCHANGED rows
  BY DEF Prune, vars
<1> QED
  BY <1>1, <1>2, <1>3, <1>4, <1>5, <1>6 DEF Next

LEMMA SameCounted ==
  ASSUME Inv, UNCHANGED status
  PROVE  Counted
BY DEF Counted, LiveInstances

LEMMA SameIndexed ==
  ASSUME Inv, UNCHANGED snapshot
  PROVE  Indexed
BY DEF Indexed

\* The status rows of one instance change.
LEMMA CountedOf ==
  ASSUME Inv, NEW i \in Instances, \A j \in Instances \ {i} : status'[j] = status[j],
         i \in LiveInstances' =>
           /\ i \in LiveInstances \/ phase'[i] = "ready"
           /\ \A id \in Ids : status[i][id] = "fresh" =>
                status'[i][id] = "fresh" \/ (id \in DOMAIN rows /\ rows[id].deleted)
  PROVE  Counted
BY DEF Counted, LiveInstances

LEMMA ReconcileHides ==
  ASSUME Inv, Life, NEW i \in Instances, Reconcile(i)
  PROVE  Indexed /\ Counted
<1>1. ASSUME NEW why, StartReconcile(i, why) PROVE Indexed /\ Counted
  BY <1>1, SameIndexed, SameCounted DEF StartReconcile
<1>2. CASE List(i) \/ Loaded(i)
  BY <1>2, SameIndexed, SameCounted DEF List, Loaded
<1>3. CASE Drop(i)
  <2>1. PICK id \in Stale(i) : snapshot' = [snapshot EXCEPT ![i] = @ \ {id}]
    BY <1>3 DEF Drop, DropNext
  <2>2. id \in DOMAIN rows /\ rows[id].deleted
    BY <1>3, StaleIsDeleted DEF Drop
  <2>3. \A j \in Instances : \A o \in snapshot[j] : o \in snapshot'[j] \/ o = id
    BY <2>1 DEF Inv, Types
  <2>4. Indexed
    BY <2>2, <2>3 DEF Indexed
  <2> QED
    BY <1>3, <2>4, SameCounted DEF Drop
<1>4. CASE DropStatus(i)
  <2>1. PICK at : at = work[i].at
    OBVIOUS
  <2>2. at \in DOMAIN rows /\ rows[at].deleted
    BY <1>4, <2>1, Values DEF DropStatus, Now, Ok, Working
  <2>3. status' = [status EXCEPT ![i][at] = "none"] /\ UNCHANGED snapshot
    BY <1>4, <2>1 DEF DropStatus
  <2>4. /\ \A j \in Instances \ {i} : status'[j] = status[j]
        /\ \A id \in Ids : status'[i][id] = IF id = at THEN "none" ELSE status[i][id]
    BY <2>3 DEF Inv, Types
  <2>5. i \in LiveInstances' => i \in LiveInstances
    BY <2>4 DEF LiveInstances
  <2> QED
    BY <2>2, <2>3, <2>4, <2>5, SameIndexed, CountedOf
<1>5. CASE Build(i)
  <2>1. \A j \in Instances : snapshot[j] \subseteq snapshot'[j]
    BY <1>5 DEF Build, Inv, Types
  <2>2. Indexed
    BY <2>1 DEF Indexed
  <2> QED
    BY <1>5, <2>2, SameCounted DEF Build
<1>6. CASE WriteStatus(i)
  <2>1. PICK at : at = work[i].at
    OBVIOUS
  <2>2. status' = [status EXCEPT ![i][at] = "fresh"] /\ UNCHANGED <<snapshot, phase>>
    BY <1>6, <2>1 DEF WriteStatus
  <2>3. phase'[i] = "ready"
    BY <1>6, <2>2 DEF WriteStatus, Now, Life, LifeOk
  <2>4. /\ \A j \in Instances \ {i} : status'[j] = status[j]
        /\ \A id \in Ids : status[i][id] = "fresh" => status'[i][id] = "fresh"
    BY <2>2 DEF Inv, Types
  <2> QED
    BY <2>2, <2>3, <2>4, SameIndexed, CountedOf
<1> QED
  BY <1>1, <1>2, <1>3, <1>4, <1>5, <1>6 DEF Reconcile

LEMMA LifeHides ==
  ASSUME Inv, Life, NEW i \in Instances,
         Fail(i) \/ Crash(i) \/ Start(i) \/ BecomeReady(i) \/ Tick(i)
  PROVE  Indexed /\ Counted
\* The snapshot is emptied by a stop only.
<1>1. ASSUME Stopped(i), Running(i), UNCHANGED status PROVE Indexed /\ Counted
  <2>1. phase'[i] # phase[i] /\ \A j \in Instances \ {i} : snapshot'[j] = snapshot[j]
    BY <1>1 DEF Stopped, Running, Inv, Types
  <2> QED
    BY <1>1, <2>1, SameCounted DEF Indexed
<1>2. CASE Fail(i)
  <2>1. work[i].boot => Running(i)
    BY DEF Life, LifeOk, Running
  <2> QED
    BY <1>1, <1>2, <2>1, SameIndexed, SameCounted DEF Fail
<1>3. CASE Crash(i)
  BY <1>1, <1>3 DEF Crash
<1>4. CASE Start(i) \/ Tick(i)
  BY <1>4, SameIndexed, SameCounted DEF Start, Tick
<1>5. CASE BecomeReady(i)
  <2>1. phase'[i] = "ready" /\ UNCHANGED snapshot
    BY <1>5 DEF BecomeReady, Inv, Types
  <2>2. /\ \A j \in Instances \ {i} : status'[j] = status[j]
        /\ \A id \in Ids : status[i][id] = "fresh" => status'[i][id] = "fresh"
    BY <1>5 DEF BecomeReady, Inv, Types
  <2> QED
    BY <2>1, <2>2, SameIndexed, CountedOf
<1> QED
  BY <1>2, <1>3, <1>4, <1>5

LEMMA HeartbeatHides ==
  ASSUME Inv, NEW i \in Instances, Age(i) \/ Stall(i) \/ Heartbeat(i)
  PROVE  Indexed /\ Counted
<1>1. UNCHANGED <<snapshot, phase>>
  BY DEF Age, Stall, Heartbeat, Turned
<1>2. CASE Age(i) \/ Stall(i)
  <2>1. status' = [status EXCEPT ![i] = [id \in Ids |-> IF @[id] = "fresh" THEN "stale" ELSE @[id]]]
    BY <1>2 DEF Age, Stall, Turned
  <2>2. /\ \A j \in Instances \ {i} : status'[j] = status[j]
        /\ \A id \in Ids : status'[i][id] # "fresh"
    BY <2>1 DEF Inv, Types
  <2>3. i \notin LiveInstances'
    BY <2>2 DEF LiveInstances
  <2> QED
    BY <1>1, <2>2, <2>3, SameIndexed, CountedOf
<1>3. CASE Heartbeat(i)
  <2>1. status' = [status EXCEPT ![i] = [id \in Ids |-> IF @[id] = "stale" THEN "fresh" ELSE @[id]]]
    BY <1>3 DEF Heartbeat, Turned
  <2>2. /\ \A j \in Instances \ {i} : status'[j] = status[j]
        /\ \A id \in Ids : status[i][id] = "fresh" => status'[i][id] = "fresh"
    BY <2>1 DEF Inv, Types
  <2>3. phase'[i] = "ready"
    BY <1>1, <1>3 DEF Heartbeat
  <2> QED
    BY <1>1, <2>2, <2>3, SameIndexed, CountedOf
<1> QED
  BY <1>2, <1>3

LEMMA PruneHides ==
  ASSUME Inv, Prune
  PROVE  Indexed /\ Counted
<1>1. \A i \in Instances : \A id \in Ids : status'[i][id] = "fresh" <=> status[i][id] = "fresh"
  BY DEF Prune, Inv, Types
<1>2. Counted
  BY <1>1 DEF Counted, LiveInstances
<1> QED
  BY <1>2, SameIndexed DEF Prune

LEMMA NextHides ==
  ASSUME Inv, Life, [Next]_vars
  PROVE  Indexed /\ Counted
<1>1. CASE UNCHANGED <<snapshot, status>>
  BY <1>1, SameIndexed, SameCounted
<1>2. ASSUME NEW i \in Instances, NEW name, NEW id,
             \/ UploadDistribution(i, name) \/ UploadLexicon(i, name, id) \/ UploadLeaves(i, id)
             \/ DeleteDistribution(i, id) \/ DeleteLexicon(i, id) \/ DeleteLeaveSet(i, id)
      PROVE  UNCHANGED <<snapshot, status>>
  BY <1>2 DEF UploadDistribution, UploadLexicon, UploadLeaves, DeleteDistribution,
     DeleteLexicon, DeleteLeaveSet, Delete, Committed
<1>3. UNCHANGED vars => UNCHANGED <<snapshot, status>>
  BY DEF vars
<1> QED
  BY <1>1, <1>2, <1>3, ReconcileHides, LifeHides, HeartbeatHides, PruneHides DEF Next

-----------------------------------------------------------------------------
(* Theorems                                                                *)

\* The types, and that an instance writes no status row before its startup
\* load is complete (catalog/mod.rs write_status).
THEOREM CatalogTypes == Spec => []TypeOK
<1>1. Inv /\ Life => TypeOK
  BY DEF Inv, RowsInv, Types, Phases, Works, Steps, Life, LifeOk, TypeOK
<1> QED
  BY <1>1, Invariant, PTL

\* What an instance lists is in the snapshot of every running instance that
\* counts as live, at whatever step its reconcile is or has failed: a status
\* row stands only for what is indexed or deleted (catalog/routes.rs lexicons).
THEOREM EveryListedIsServed == Spec => []ListedIsServed
<1>1. Inv => ListedIsServed
  <2> SUFFICES ASSUME Inv, NEW i \in Instances, NEW j \in Instances,
                      j \in LiveInstances, Running(j), NEW id \in Lexicons(i) \cup Leaves(i)
               PROVE  id \in snapshot[j]
    BY DEF ListedIsServed
  <2>1. Exists(id) /\ status[j][id] = "fresh"
    BY DEF Lexicons, Leaves, InDb, LoadedByAll
  <2>2. id \in Ids
    BY <2>1, RowFacts DEF Exists, Inv
  <2>3. Backed(snapshot[j], id)
    BY <2>1, <2>2, Values DEF Ok, Running
  <2> QED
    BY <2>1, <2>3 DEF Backed, Exists
<1> QED
  BY <1>1, Invariant, PTL

\* A snapshot has no lexicon without its distribution, no leave values without
\* their lexicon, and never two lists a lookup could take for each other, as
\* lists are deleted and uploaded again while the three kinds are listed by
\* three statements and dropped one by one (catalog/mod.rs reconcile).
THEOREM SnapshotsWhole == Spec => []SnapshotsAreWhole
<1>1. Inv => SnapshotsAreWhole
  BY Values DEF SnapshotsAreWhole, Ok, WholeSnapshot, Distinct
<1> QED
  BY <1>1, Invariant, PTL

\* A lexicon that is listed and not deleted stays listed while its instance
\* runs, until an instance that is ready begins to count as live: reconciles
\* drop only what is deleted, and neither a startup nor a stop, a failed
\* statement, a missed heartbeat or a purge hides it (catalog/mod.rs
\* write_status, catalog/routes.rs lexicons).
THEOREM NoStartupHides == Spec => StartupHidesNothing
<1>1. Inv /\ Life /\ [Next]_vars => HidesNothing
  BY NextGrows, NextHides, NothingHidden
<1> QED
  BY <1>1, Invariant, PTL DEF Spec, StartupHidesNothing, HidesNothing

-----------------------------------------------------------------------------
(* Ranks                                                                   *)

\* Places up to one of them are as many as there are.
LEMMA FirstPlaces ==
  ASSUME NEW n \in Nat, NEW P, P \subseteq 1 .. n,
         \A i \in P : \A j \in 1 .. i : j \in P
  PROVE  /\ Cardinality(P) \in 0 .. n
         /\ \A i \in 1 .. n : i \in P <=> i <= Cardinality(P)
<1> DEFINE a == Cardinality(P)
<1>1. IsFiniteSet(P) /\ a \in Nat /\ a <= n
  BY PartOfInterval
<1>2. \A i \in Nat : IsFiniteSet(1 .. i) /\ Cardinality(1 .. i) = i
  BY FS_Interval
<1>3. ASSUME NEW i \in 1 .. n, i \in P PROVE i <= a
  <2> DEFINE T == 1 .. i
  <2>1. T \subseteq P
    BY <1>3
  <2>2. Cardinality(T) = i
    BY <1>2
  <2> HIDE DEF T
  <2> QED
    BY <1>1, <2>1, <2>2, Part
<1>4. ASSUME NEW i \in 1 .. n, i \notin P PROVE ~ (i <= a)
  <2>1. P \subseteq 1 .. i - 1
    <3>1. ASSUME NEW j \in P PROVE j < i
      BY <1>4
    <3> QED
      BY <3>1
  <2> DEFINE m == i - 1
  <2>2. m \in Nat /\ P \subseteq 1 .. m
    BY <2>1
  <2> HIDE DEF m
  <2>3. a <= m
    BY <2>2, PartOfInterval
  <2> QED
    BY <1>1, <2>3 DEF m
<1> QED
  BY <1>1, <1>3, <1>4

\* Entries by value, the highest first, ties in an order of their own.
Higher(value, R, a, b) == \/ value[a] > value[b]
                          \/ value[a] = value[b] /\ <<a, b>> \in R
HigherIn(ids, value, R) == {p \in ids \X ids : Higher(value, R, p[1], p[2])}
IsRanking(s, ids, value, R) ==
  /\ s \in [1 .. Cardinality(ids) -> ids]
  /\ \A i \in 1 .. Cardinality(ids) :
       Cardinality(Under(HigherIn(ids, value, R), ids, s[i])) = i - 1

\* Higher values first, ties by an order, is an order.
LEMMA HigherOrders ==
  ASSUME NEW ids, NEW value, \A i \in ids : value[i] \in Int, NEW R, Orders(R, ids)
  PROVE  Orders(HigherIn(ids, value, R), ids)
<1> DEFINE H == HigherIn(ids, value, R)
<1>1. \A a, b \in ids : <<a, b>> \in H <=> Higher(value, R, a, b)
  BY DEF HigherIn
<1> HIDE DEF H
<1>2. ASSUME NEW a \in ids PROVE ~ Higher(value, R, a, a)
  BY DEF Higher, Orders
<1>3. ASSUME NEW a \in ids, NEW b \in ids, NEW c \in ids, Higher(value, R, a, b), Higher(value, R, b, c)
      PROVE  Higher(value, R, a, c)
  BY <1>3 DEF Higher, Orders
<1>4. ASSUME NEW a \in ids, NEW b \in ids, a # b PROVE Higher(value, R, a, b) \/ Higher(value, R, b, a)
  BY <1>4 DEF Higher, Orders
<1> QED
  BY <1>1, <1>2, <1>3, <1>4 DEF Orders, H

\* The entries above one, those that tie with it, and those of them before it.
Above(ids, value, id) == {i \in ids : value[i] > value[id]}
Tied(ids, value, id)  == {i \in ids : value[i] = value[id]}
Earlier(ids, value, R, id) == {i \in Tied(ids, value, id) : <<i, id>> \in R}

\* In a ranking, the entries above one come first, then those that tie with it.
LEMMA PlacesByValue ==
  ASSUME NEW ids, IsFiniteSet(ids), NEW value, \A i \in ids : value[i] \in Int,
         NEW R, Orders(R, ids), NEW s, IsRanking(s, ids, value, R), NEW id \in ids
  PROVE  LET a == Cardinality(Above(ids, value, id))
             t == Cardinality(Tied(ids, value, id))
         IN  /\ a \in Nat /\ t \in Nat
             /\ \A i \in DOMAIN s : /\ value[s[i]] > value[id] <=> i <= a
                                    /\ value[s[i]] >= value[id] <=> i <= a + t
<1> DEFINE n == Cardinality(ids)
           H == HigherIn(ids, value, R)
           A == Above(ids, value, id)
           T == Tied(ids, value, id)
           B == {i \in ids : value[i] >= value[id]}
           P == {i \in 1 .. n : s[i] \in A}
           Q == {i \in 1 .. n : s[i] \in B}
<1>1. n \in Nat /\ DOMAIN s = 1 .. n /\ \A i \in 1 .. n : s[i] \in ids
  BY FS_CardinalityType DEF IsRanking
<1>2. /\ \A i, j \in 1 .. n : s[i] = s[j] => i = j
      /\ \A i, j \in 1 .. n : i < j <=> <<s[i], s[j]>> \in H
      /\ \A x \in ids : \E i \in 1 .. n : s[i] = x
  <2>1. Orders(H, ids)
    BY HigherOrders
  <2>2. \A i \in 1 .. n : s[i] \in ids /\ Cardinality(Under(H, ids, s[i])) = i - 1
    BY DEF IsRanking
  <2> HIDE DEF H
  <2>3. /\ \A i, j \in DOMAIN s : s[i] = s[j] => i = j
        /\ \A i, j \in DOMAIN s : i < j <=> <<s[i], s[j]>> \in H
        /\ \A x \in ids : /\ Cardinality(Under(H, ids, x)) + 1 \in DOMAIN s
                          /\ s[Cardinality(Under(H, ids, x)) + 1] = x
    BY <1>1, <2>1, <2>2, InOrderOnce
  <2> QED
    BY <1>1, <2>3
<1>3. ASSUME NEW i \in 1 .. n, NEW j \in 1 .. i PROVE value[s[j]] >= value[s[i]]
  <2>1. j \in 1 .. n /\ s[i] \in ids /\ s[j] \in ids
    BY <1>1
  <2>2. CASE j = i
    BY <2>1, <2>2
  <2>3. CASE j < i
    <3>1. <<s[j], s[i]>> \in H
      BY <1>2, <2>1, <2>3
    <3> QED
      BY <2>1, <3>1 DEF HigherIn, Higher
  <2> QED
    BY <2>2, <2>3
<1>4. /\ Cardinality(P) \in 0 .. n /\ \A i \in 1 .. n : i \in P <=> i <= Cardinality(P)
  <2>1. \A i \in P : \A j \in 1 .. i : j \in P
    BY <1>1, <1>3 DEF Above
  <2>2. P \subseteq 1 .. n
    OBVIOUS
  <2> HIDE DEF P, n
  <2> QED
    BY <1>1, <2>1, <2>2, FirstPlaces
<1>5. /\ Cardinality(Q) \in 0 .. n /\ \A i \in 1 .. n : i \in Q <=> i <= Cardinality(Q)
  <2>1. \A i \in Q : \A j \in 1 .. i : j \in Q
    BY <1>1, <1>3
  <2>2. Q \subseteq 1 .. n
    OBVIOUS
  <2> HIDE DEF Q, n
  <2> QED
    BY <1>1, <2>1, <2>2, FirstPlaces
<1>6. ASSUME NEW S, S \subseteq ids
      PROVE  Cardinality({i \in 1 .. n : s[i] \in S}) = Cardinality(S)
  <2> DEFINE I == {i \in 1 .. n : s[i] \in S}
             f == [i \in I |-> s[i]]
  <2>1. IsFiniteSet(I)
    <3>1. I \subseteq 1 .. n
      OBVIOUS
    <3> HIDE DEF I, n
    <3> QED
      BY <1>1, <3>1, PartOfInterval
  <2>2. /\ f \in [I -> S] /\ \A x, y \in I : f[x] = f[y] => x = y
        /\ \A y \in S : \E x \in I : f[x] = y
    BY <1>2, <1>6
  <2> HIDE DEF f, I
  <2> QED
    BY <2>1, <2>2, SameCount DEF I
<1>7. IsFiniteSet(B) /\ A \subseteq B /\ T = B \ A /\ B \subseteq ids
  <2>1. A \subseteq B /\ T = B \ A /\ B \subseteq ids
    BY DEF Above, Tied
  <2> QED
    BY <2>1, Part
<1>8. Cardinality(B) = Cardinality(A) + Cardinality(T) /\ Cardinality(A) \in Nat /\ Cardinality(T) \in Nat
  <2> HIDE DEF A, B, T
  <2>1. B \cap A = A /\ B \cap T = T /\ B \subseteq A \cup T /\ A \cap T = {}
    BY <1>7
  <2>2. /\ Cardinality(B \cap A) \in Nat /\ Cardinality(B \cap T) \in Nat
        /\ Cardinality(B) = Cardinality(B \cap A) + Cardinality(B \cap T)
    BY <1>7, <2>1, TwoParts
  <2> QED
    BY <2>1, <2>2
<1>9. Cardinality(P) = Cardinality(A) /\ Cardinality(Q) = Cardinality(B)
  BY <1>6, <1>7
<1>10. ASSUME NEW i \in 1 .. n
       PROVE  /\ value[s[i]] > value[id] <=> i \in P
              /\ value[s[i]] >= value[id] <=> i \in Q
  BY <1>1 DEF Above
<1> HIDE DEF P, Q, A, B, T, n
<1> QED
  BY <1>1, <1>4, <1>5, <1>8, <1>9, <1>10 DEF A, T

\* The rank of an entry, and the ranks its ties share.
RankOf(s, value, id) ==
  LET k == CHOOSE i \in DOMAIN s : s[i] = id
      run == RunAround(s, value, k)
  IN  [rank |-> k, min |-> run.lo, max |-> run.hi]

\* The rank in a ranking counts what is above and what ties earlier, and the run
\* of ties spans what ties.
LEMMA RankMeans ==
  ASSUME NEW ids, IsFiniteSet(ids), NEW value, \A i \in ids : value[i] \in Int,
         NEW R, Orders(R, ids), NEW s, IsRanking(s, ids, value, R), NEW id \in ids
  PROVE  RankOf(s, value, id) =
           [rank |-> Cardinality(Above(ids, value, id)) + Cardinality(Earlier(ids, value, R, id)) + 1,
            min  |-> Cardinality(Above(ids, value, id)) + 1,
            max  |-> Cardinality(Above(ids, value, id)) + Cardinality(Tied(ids, value, id))]
<1> DEFINE n == Cardinality(ids)
           H == HigherIn(ids, value, R)
           A == Above(ids, value, id)
           T == Tied(ids, value, id)
           E == Earlier(ids, value, R, id)
           a == Cardinality(A)
           t == Cardinality(T)
           k == CHOOSE i \in DOMAIN s : s[i] = id
           Level(i, j) == \A x \in i .. j : value[s[x]] = value[s[k]]
           Lows  == {i \in 1 .. k : Level(i, k)}
           Highs == {j \in k .. Len(s) : Level(k, j)}
<1>1. n \in Nat /\ s \in [1 .. n -> ids] /\ DOMAIN s = 1 .. n /\ Len(s) = n
  <2>1. n \in Nat /\ s \in [1 .. n -> ids]
    BY FS_CardinalityType DEF IsRanking
  <2> HIDE DEF n
  <2>2. Len(s) = n
    BY <2>1, LenOf
  <2> QED
    BY <2>1, <2>2
<1>2. /\ a \in Nat /\ t \in Nat
      /\ \A i \in 1 .. n : /\ value[s[i]] > value[id] <=> i <= a
                           /\ value[s[i]] >= value[id] <=> i <= a + t
  BY <1>1, PlacesByValue
<1>3. /\ Cardinality(Under(H, ids, id)) + 1 \in 1 .. n
      /\ s[Cardinality(Under(H, ids, id)) + 1] = id
      /\ \A i, j \in 1 .. n : s[i] = s[j] => i = j
  <2>1. Orders(H, ids)
    BY HigherOrders
  <2>2. \A i \in 1 .. n : s[i] \in ids /\ Cardinality(Under(H, ids, s[i])) = i - 1
    BY <1>1 DEF IsRanking
  <2> HIDE DEF H
  <2> QED
    BY <1>1, <2>1, <2>2, InOrderOnce
<1>4. k \in 1 .. n /\ s[k] = id /\ k = Cardinality(Under(H, ids, id)) + 1
  <2> HIDE DEF H, n
  <2>1. \E i \in DOMAIN s : s[i] = id
    BY <1>1, <1>3
  <2>2. k \in DOMAIN s /\ s[k] = id
    BY <2>1
  <2> HIDE DEF k
  <2> QED
    BY <1>1, <1>3, <2>2
<1>5. k = a + Cardinality(E) + 1
  <2> DEFINE U == Under(H, ids, id)
  <2>1. U \subseteq ids /\ U \cap A = A /\ U \cap E = E /\ U \subseteq A \cup E /\ A \cap E = {}
    BY DEF Under, HigherIn, Higher, Above, Earlier, Tied
  <2>2. IsFiniteSet(U)
    BY <2>1, Part
  <2> HIDE DEF U, A, E
  <2>3. /\ Cardinality(U \cap A) \in Nat /\ Cardinality(U \cap E) \in Nat
        /\ Cardinality(U) = Cardinality(U \cap A) + Cardinality(U \cap E)
    BY <2>1, <2>2, TwoParts
  <2> QED
    BY <1>4, <2>1, <2>3 DEF U
<1> HIDE DEF k, a, t, n, A, T, E, H
<1>6. a + 1 <= k /\ k <= a + t
  <2>1. value[s[k]] = value[id] /\ value[id] \in Int
    BY <1>4
  <2> QED
    BY <1>1, <1>2, <1>4, <2>1
<1>7. ASSUME NEW x \in 1 .. n PROVE value[s[x]] = value[s[k]] <=> a + 1 <= x /\ x <= a + t
  <2>1. value[s[x]] \in Int /\ value[id] \in Int /\ value[s[k]] = value[id]
    BY <1>1, <1>4
  <2>2. value[s[x]] = value[id] <=> value[s[x]] >= value[id] /\ ~ (value[s[x]] > value[id])
    BY <2>1
  <2> QED
    BY <1>1, <1>2, <2>1, <2>2
<1>8. Lows = a + 1 .. k
  <2>1. ASSUME NEW i \in 1 .. k PROVE Level(i, k) <=> a + 1 <= i
    <3>1. i .. k \subseteq 1 .. n /\ i \in i .. k
      BY <1>1, <1>4
    <3> QED
      BY <1>1, <1>2, <1>4, <1>6, <1>7, <3>1
  <2> HIDE DEF Level
  <2> QED
    BY <1>1, <1>2, <1>4, <2>1
<1>9. Highs = k .. a + t
  <2>0. a + t <= n
    <3>1. A \subseteq ids /\ T \subseteq ids /\ A \cap T = {}
      BY DEF A, T, Above, Tied
    <3> DEFINE U == A \cup T
    <3>2. U \subseteq ids /\ U \cap A = A /\ U \cap T = T
      BY <3>1
    <3>3. IsFiniteSet(U) /\ Cardinality(U) <= n
      BY <3>2, Part DEF n
    <3>4. Cardinality(U) = Cardinality(U \cap A) + Cardinality(U \cap T)
      <4>1. U \subseteq A \cup T
        OBVIOUS
      <4> HIDE DEF U
      <4> QED
        BY <3>1, <3>3, <4>1, TwoParts
    <3> QED
      BY <3>2, <3>3, <3>4 DEF a, t
  <2>1. ASSUME NEW j \in k .. n PROVE Level(k, j) <=> j <= a + t
    <3>1. k .. j \subseteq 1 .. n /\ j \in k .. j
      BY <1>1, <1>4
    <3> QED
      BY <1>1, <1>2, <1>4, <1>6, <1>7, <3>1
  <2> HIDE DEF Level
  <2> QED
    BY <1>1, <1>2, <1>4, <2>0, <2>1
<1>10. Min(Lows) = a + 1
  <2>1. a + 1 \in Int /\ a + 1 <= k /\ k \in Int
    BY <1>2, <1>4, <1>6
  <2> DEFINE b == a + 1
             S == b .. k
  <2>2. IsFiniteSet(S) /\ b \in S /\ S \subseteq Int
    BY <2>1, FS_Interval
  <2>3. \A y \in S : b <= y
    OBVIOUS
  <2> HIDE DEF S
  <2>4. Min(S) \in S /\ \A y \in S : Min(S) <= y
    BY <2>2, Least
  <2> DEFINE m == Min(S)
  <2>5. m = b
    <3>1. b \in Int /\ m \in Int
      BY <2>1, <2>2, <2>4
    <3>2. m <= b /\ b <= m
      BY <2>2, <2>3, <2>4
    <3> HIDE DEF m, b
    <3> QED
      BY <3>1, <3>2
  <2> QED
    BY <1>8, <2>5 DEF S
<1>11. Max(Highs) = a + t
  <2>1. a + t \in Int /\ k <= a + t /\ k \in Int
    BY <1>2, <1>4, <1>6
  <2> DEFINE b == a + t
             S == k .. b
  <2>2. IsFiniteSet(S) /\ b \in S /\ S \subseteq Int
    BY <2>1, FS_Interval
  <2>3. \A y \in S : y <= b
    OBVIOUS
  <2> HIDE DEF S
  <2>4. Max(S) \in S /\ \A y \in S : y <= Max(S)
    BY <2>2, Greatest
  <2> DEFINE m == Max(S)
  <2>5. m = b
    <3>1. b \in Int /\ m \in Int
      BY <2>1, <2>2, <2>4
    <3>2. m <= b /\ b <= m
      BY <2>2, <2>3, <2>4
    <3> HIDE DEF m, b
    <3> QED
      BY <3>1, <3>2
  <2> QED
    BY <1>9, <2>5 DEF S
<1>12. RankOf(s, value, id) = [rank |-> k, min |-> Min(Lows), max |-> Max(Highs)]
  BY Zenon DEF RankOf, RunAround, k
<1> HIDE DEF Lows, Highs
<1> QED
  BY <1>5, <1>10, <1>11, <1>12 DEF a, t, A, T, E

\* Entries of the same length.
Peers(w, id) == {i \in DOMAIN w : Len(w[i]) = Len(w[id])}

\* An entry's rank `order` among its peers, by value and then by their keys: the
\* entries' tiles are w, and s holds the peers in their order.
RankedAmong(index, w, n, id, v, value, key, R, s, order) ==
  /\ n \in Nat /\ EntryIds(index) = 1 .. n /\ DOMAIN w = 1 .. n /\ id \in 1 .. n
  /\ \A i \in 1 .. n : TilesOf(index, i) = w[i]
  /\ \A i \in 1 .. n : v[i] \in Int /\ v[i] = value[i]
  /\ \A i \in 1 .. n : key[i] = IF index.kind = "words" THEN Canonical(w[i]) ELSE w[i]
  /\ Orders(R, Peers(w, id))
  /\ \A i, j \in Peers(w, id) : <<i, j>> \in R <=>
       \/ Before(key[i], key[j])
       \/ key[i] = key[j] /\ Before(w[i], w[j])
  /\ IsRanking(s, Peers(w, id), v, R)
  /\ order[id] = RankOf(s, v, id)

\* What ranks are of entries that tie in alphabetical order.
LEMMA RanksInPeers ==
  ASSUME NEW index, NEW w, NEW n, NEW id, NEW v, NEW value, NEW key, NEW R, NEW s, NEW order,
         RankedAmong(index, w, n, id, v, value, key, R, s, order)
  PROVE  RanksAre(index, id, order, value)
<1> DEFINE ids == Peers(w, id)
           others == {i \in EntryIds(index) : Len(TilesOf(index, i)) = Len(TilesOf(index, id))}
           above  == {i \in others : value[i] > value[id]}
           tied   == {i \in others : value[i] = value[id]}
           named(i) == IF index.kind = "words" THEN Canonical(TilesOf(index, i))
                       ELSE TilesOf(index, i)
           earlier == {i \in tied : \/ Before(named(i), named(id))
                                    \/ /\ named(i) = named(id)
                                       /\ Before(TilesOf(index, i), TilesOf(index, id))}
<1>0. /\ n \in Nat /\ EntryIds(index) = 1 .. n /\ DOMAIN w = 1 .. n /\ id \in 1 .. n
      /\ \A i \in 1 .. n : TilesOf(index, i) = w[i]
      /\ \A i \in 1 .. n : v[i] \in Int /\ v[i] = value[i]
      /\ \A i \in 1 .. n : key[i] = IF index.kind = "words" THEN Canonical(w[i]) ELSE w[i]
      /\ Orders(R, ids)
      /\ \A i, j \in ids : <<i, j>> \in R <=>
           \/ Before(key[i], key[j])
           \/ key[i] = key[j] /\ Before(w[i], w[j])
      /\ IsRanking(s, ids, v, R)
      /\ order[id] = RankOf(s, v, id)
  BY DEF RankedAmong
<1>1. others = ids /\ id \in ids /\ ids \subseteq 1 .. n
  BY <1>0 DEF Peers
<1>2. IsFiniteSet(ids) /\ \A i \in ids : v[i] \in Int /\ v[i] = value[i] /\ value[i] \in Int
  <2>1. IsFiniteSet(ids)
    <3> HIDE DEF ids
    <3> QED
      BY <1>0, <1>1, PartOfInterval
  <2> QED
    BY <1>0, <1>1, <2>1
<1>3. \A i \in ids : named(i) = key[i] /\ TilesOf(index, i) = w[i]
  BY <1>0, <1>1
<1> HIDE DEF ids, others, named
<1>4. above = Above(ids, v, id) /\ tied = Tied(ids, v, id)
  BY <1>1, <1>2 DEF Above, Tied
<1>5. earlier = Earlier(ids, v, R, id)
  <2>1. ASSUME NEW i \in ids
        PROVE  <<i, id>> \in R <=> \/ Before(named(i), named(id))
                                   \/ /\ named(i) = named(id)
                                      /\ Before(TilesOf(index, i), TilesOf(index, id))
    BY <1>0, <1>1, <1>3
  <2>2. tied \subseteq ids
    BY <1>1
  <2> HIDE DEF tied
  <2> QED
    BY <1>4, <2>1, <2>2 DEF Earlier
<1>6. order[id] = [rank |-> Cardinality(above) + Cardinality(earlier) + 1,
                   min  |-> Cardinality(above) + 1,
                   max  |-> Cardinality(above) + Cardinality(tied)]
  <2>1. Orders(R, ids) /\ IsRanking(s, ids, v, R)
    BY <1>0
  <2>2. RankOf(s, v, id) =
          [rank |-> Cardinality(Above(ids, v, id)) + Cardinality(Earlier(ids, v, R, id)) + 1,
           min  |-> Cardinality(Above(ids, v, id)) + 1,
           max  |-> Cardinality(Above(ids, v, id)) + Cardinality(Tied(ids, v, id))]
    <3>1. IsFiniteSet(ids) /\ id \in ids /\ \A i \in ids : v[i] \in Int
      BY <1>1, <1>2
    <3> QED
      BY ONLY <2>1, <3>1, RankMeans
  <2> QED
    BY <1>0, <1>4, <1>5, <2>2
<1> QED
  BY <1>6, Zenon DEF RanksAre, others, named

\* Words of a length by value, ties by their alphagrams and then by their tiles.
WordOrder(ids, value, alphagram, words) ==
  InSequence(ids, LAMBDA a, b :
    \/ value[a] > value[b]
    \/ /\ value[a] = value[b]
       /\ \/ alphagram[a] < alphagram[b]
          \/ alphagram[a] = alphagram[b] /\ Before(words[a], words[b]))

CombinationsOf(d, words) == [i \in DOMAIN words |-> WordCombinations(d, Counts(d, words[i]))]
PlayabilityOf(raw) == [i \in DOMAIN WordsOf(raw) |-> ByTiles(raw)[i].playability]
AlphagramOf(words, alphagrams) == [i \in DOMAIN words |-> IdOf(alphagrams, Canonical(words[i]))]
AnagramsIn(words, alphagrams) ==
  [a \in DOMAIN alphagrams |-> {i \in DOMAIN words : AlphagramOf(words, alphagrams)[i] = a}]

\* What the index of a lexicon derives from all of its words.
LEMMA LexiconDerives ==
  ASSUME NEW d, NEW raw, NEW id \in DOMAIN WordsOf(raw)
  PROVE  LET w == WordsOf(raw)
             a == AlphagramOf(w, AlphagramsOf(raw))
             e == BuildLexicon(d, raw).entries[id]
             c == CombinationsOf(d, w)
             p == PlayabilityOf(raw)
         IN  /\ e.probability_order = RankOf(WordOrder(Peers(w, id), c, a, w), c, id)
             /\ e.playability_order = RankOf(WordOrder(Peers(w, id), p, a, w), p, id)
             /\ e.combinations = c[id] /\ e.playability = p[id]
             /\ e.num_anagrams = Cardinality(AnagramsIn(w, AlphagramsOf(raw))[a[id]])
             /\ e.front_hooks = FrontHooks(w, w[id]) /\ e.back_hooks = BackHooks(w, w[id])
             /\ e.has_front_inner_hook = HasFrontInnerHook(w, w[id])
             /\ e.has_back_inner_hook = HasBackInnerHook(w, w[id])
<1> DEFINE sorted == ByTiles(raw)
           words == [i \in DOMAIN sorted |-> sorted[i].tiles]
           alphagrams == Alphabetical({Canonical(words[i]) : i \in DOMAIN words})
           alphagram == [i \in DOMAIN words |-> IdOf(alphagrams, Canonical(words[i]))]
           alphagram_words == [a \in DOMAIN alphagrams |-> {i \in DOMAIN words : alphagram[i] = a}]
           combinations == [i \in DOMAIN words |-> WordCombinations(d, Counts(d, words[i]))]
           playability == [i \in DOMAIN words |-> sorted[i].playability]
           Tie(a, b) == \/ alphagram[a] < alphagram[b]
                        \/ alphagram[a] = alphagram[b] /\ Before(words[a], words[b])
           prob == RanksByLength(words, combinations, Tie)
           play == RanksByLength(words, playability, Tie)
           front(i) == FrontHooks(words, words[i])
           back(i) == BackHooks(words, words[i])
           inFront(i) == HasFrontInnerHook(words, words[i])
           inBack(i) == HasBackInnerHook(words, words[i])
           pos(i) == PartsOfSpeech(sorted[i].definition)
           own(i) == OwnAttributes(d, words[i])
           built == BuildLexicon(d, raw)
<1>1. built =
        [kind |-> "words",
         distribution |-> d,
         alphagrams |-> alphagrams,
         alphagram_words |-> alphagram_words,
         entries |-> [i \in DOMAIN words |->
           [own |-> own(i),
            alphagram |-> alphagram[i],
            num_anagrams |-> Cardinality(alphagram_words[alphagram[i]]),
            front_hooks |-> front(i),
            back_hooks |-> back(i),
            has_front_inner_hook |-> inFront(i),
            has_back_inner_hook |-> inBack(i),
            combinations |-> combinations[i],
            playability |-> playability[i],
            probability_order |-> prob[i],
            playability_order |-> play[i],
            pos |-> pos(i),
            definition |-> sorted[i].definition]]]
  BY Zenon DEF BuildLexicon, ByTiles, Alphabetical
<1>2. words = WordsOf(raw) /\ alphagrams = AlphagramsOf(raw)
  BY Zenon DEF WordsOf, AlphagramsOf
<1>3. alphagram = AlphagramOf(words, alphagrams) /\ combinations = CombinationsOf(d, words)
      /\ alphagram_words = AnagramsIn(words, alphagrams)
  <2> HIDE DEF words, alphagrams, sorted
  <2>1. alphagram = AlphagramOf(words, alphagrams)
    BY Zenon DEF AlphagramOf
  <2>2. alphagram_words = AnagramsIn(words, alphagrams)
    BY <2>1, Zenon DEF AnagramsIn
  <2> QED
    BY <2>1, <2>2, Zenon DEF CombinationsOf
<1>4. playability = PlayabilityOf(raw)
  BY <1>2, Zenon DEF PlayabilityOf
<1>5. /\ prob[id] = RankOf(WordOrder(Peers(words, id), combinations, alphagram, words), combinations, id)
      /\ play[id] = RankOf(WordOrder(Peers(words, id), playability, alphagram, words), playability, id)
  <2>1. id \in DOMAIN words
    BY <1>2
  <2> HIDE DEF words, combinations, playability, alphagram
  <2>2. id \in {i \in DOMAIN words : Len(words[i]) = Len(words[id])}
    BY <2>1
  <2>3. prob[id] = RankOf(WordOrder(Peers(words, id), combinations, alphagram, words), combinations, id)
    BY <2>1, <2>2, Zenon DEF RanksByLength, Ranks, Ranked, WordOrder, RankOf, Peers
  <2>4. play[id] = RankOf(WordOrder(Peers(words, id), playability, alphagram, words), playability, id)
    BY <2>1, <2>2, Zenon DEF RanksByLength, Ranks, Ranked, WordOrder, RankOf, Peers
  <2> QED
    BY <2>3, <2>4
<1>6. /\ front(id) = FrontHooks(words, words[id]) /\ back(id) = BackHooks(words, words[id])
      /\ inFront(id) = HasFrontInnerHook(words, words[id])
      /\ inBack(id) = HasBackInnerHook(words, words[id])
  OBVIOUS
<1> HIDE DEF prob, play, front, back, inFront, inBack, pos, own, built, sorted, words, alphagrams,
             alphagram, alphagram_words, combinations, playability
<1>7. id \in DOMAIN words
  BY <1>2
<1>8. /\ built.entries[id].probability_order = prob[id]
      /\ built.entries[id].playability_order = play[id]
      /\ built.entries[id].combinations = combinations[id]
      /\ built.entries[id].playability = playability[id]
      /\ built.entries[id].num_anagrams = Cardinality(alphagram_words[alphagram[id]])
      /\ built.entries[id].front_hooks = front(id)
      /\ built.entries[id].back_hooks = back(id)
      /\ built.entries[id].has_front_inner_hook = inFront(id)
      /\ built.entries[id].has_back_inner_hook = inBack(id)
  BY <1>1, <1>7
<1> QED
  BY <1>2, <1>3, <1>4, <1>5, <1>6, <1>8 DEF built

\* How words of a length tie.
TieOfWords(ids, alphagram, words) ==
  {p \in ids \X ids : \/ alphagram[p[1]] < alphagram[p[2]]
                      \/ alphagram[p[1]] = alphagram[p[2]] /\ Before(words[p[1]], words[p[2]])}

\* The words of a length are ranked by value, ties by alphagram and then by word.
LEMMA WordsInRanks ==
  ASSUME NEW ids, IsFiniteSet(ids), NEW value, \A i \in ids : value[i] \in Int,
         NEW alphagram, NEW words, Orders(TieOfWords(ids, alphagram, words), ids)
  PROVE  IsRanking(WordOrder(ids, value, alphagram, words), ids, value,
                 TieOfWords(ids, alphagram, words))
<1> DEFINE n == Cardinality(ids)
           R == TieOfWords(ids, alphagram, words)
           H == HigherIn(ids, value, R)
           s == WordOrder(ids, value, alphagram, words)
           L(a, b) == \/ value[a] > value[b]
                      \/ /\ value[a] = value[b]
                         /\ \/ alphagram[a] < alphagram[b]
                            \/ alphagram[a] = alphagram[b] /\ Before(words[a], words[b])
           Fits(x, i) == Cardinality({y \in ids : L(y, x)}) = i - 1
<1>1. s = [i \in 1 .. n |-> CHOOSE x \in ids : Fits(x, i)]
  BY Zenon DEF WordOrder, InSequence
<1>2. ASSUME NEW x \in ids PROVE {y \in ids : L(y, x)} = Under(H, ids, x)
  <2>1. ASSUME NEW y \in ids PROVE L(y, x) <=> <<y, x>> \in H
    <3>1. <<y, x>> \in R <=> \/ alphagram[y] < alphagram[x]
                             \/ alphagram[y] = alphagram[x] /\ Before(words[y], words[x])
      BY DEF TieOfWords
    <3> HIDE DEF R
    <3> QED
      BY <3>1 DEF HigherIn, Higher
  <2> HIDE DEF L, H
  <2> QED
    BY <2>1 DEF Under
<1>3. \A x \in ids : \A i \in 1 .. n : Fits(x, i) <=> Cardinality(Under(H, ids, x)) = i - 1
  BY <1>2
<1>4. \A i \in 1 .. n : \E x \in ids : Cardinality(Under(H, ids, x)) = i - 1
  <2>1. Orders(H, ids)
    BY HigherOrders
  <2> HIDE DEF H
  <2> QED
    BY <2>1, Positions
<1> HIDE DEF Fits, H, s, R, n
<1>5. ASSUME NEW i \in 1 .. n
      PROVE  s[i] \in ids /\ Cardinality(Under(H, ids, s[i])) = i - 1
  <2>1. s[i] = CHOOSE x \in ids : Fits(x, i)
    BY <1>1
  <2>2. \E x \in ids : Fits(x, i)
    BY <1>3, <1>4
  <2>3. s[i] \in ids /\ Fits(s[i], i)
    BY <2>1, <2>2
  <2> QED
    BY <1>3, <2>3
<1>6. s \in [1 .. n -> ids]
  BY <1>1, <1>5
<1> QED
  BY <1>5, <1>6 DEF IsRanking, s, R, H, n

\* A lexicon's ranks are those of its words within a length.
LEMMA LexiconRanks ==
  ASSUME NEW d, HasTiles(d), NEW raw, IsWords(d, raw)
  PROVE  RanksAreSound(BuildLexicon(d, raw))
<1> DEFINE index == BuildLexicon(d, raw)
           w == WordsOf(raw)
           al == AlphagramsOf(raw)
           n == Cardinality(raw)
           s == ByTiles(raw)
           alphagram == AlphagramOf(w, al)
           c == CombinationsOf(d, w)
           p == PlayabilityOf(raw)
           prob == Attribute(index, LAMBDA x : x.probability_order)
           play == Attribute(index, LAMBDA x : x.playability_order)
           draws == Attribute(index, LAMBDA x : x.combinations)
           points == Attribute(index, LAMBDA x : x.playability)
<1>0. IsDistribution(d)
  BY DEF HasTiles
<1>1. Listed(w, s, n, raw, d)
  BY <1>0, WordsListed DEF IsWords
<1>2. /\ n \in Nat /\ DOMAIN w = 1 .. n
      /\ \A i \in 1 .. n : s[i] \in raw /\ w[i] = s[i].tiles /\ w[i] \in Seq(DOMAIN d) /\ w[i] \in Seq(Nat)
      /\ \A i, j \in 1 .. n : w[i] = w[j] => i = j
  BY <1>1 DEF Listed
<1>3. /\ index.kind = "words" /\ EntryIds(index) = DOMAIN w
      /\ \A i \in DOMAIN w : index.entries[i].own = OwnAttributes(d, w[i])
  BY LexiconFields
<1>4. ASSUME NEW i \in DOMAIN w PROVE TilesOf(index, i) = w[i]
  <2> DEFINE own == OwnAttributes(d, w[i])
  <2>1. index.entries[i].own = own
    BY <1>3
  <2>2. own.tiles = w[i]
    BY DEF OwnAttributes
  <2> HIDE DEF own, index, w
  <2> QED
    BY <2>1, <2>2 DEF TilesOf
<1>5. ASSUME NEW i \in DOMAIN w
      PROVE  /\ prob[i] = RankOf(WordOrder(Peers(w, i), c, alphagram, w), c, i)
             /\ play[i] = RankOf(WordOrder(Peers(w, i), p, alphagram, w), p, i)
             /\ c[i] = draws[i] /\ p[i] = points[i]
  <2>1. LET e == index.entries[i]
        IN  /\ e.probability_order = RankOf(WordOrder(Peers(w, i), c, alphagram, w), c, i)
            /\ e.playability_order = RankOf(WordOrder(Peers(w, i), p, alphagram, w), p, i)
            /\ e.combinations = c[i] /\ e.playability = p[i]
    BY LexiconDerives
  <2>2. /\ prob[i] = index.entries[i].probability_order
        /\ play[i] = index.entries[i].playability_order
        /\ draws[i] = index.entries[i].combinations
        /\ points[i] = index.entries[i].playability
    BY <1>3, Zenon DEF Attribute
  <2> HIDE DEF prob, play, draws, points, index, c, p, alphagram, w
  <2> QED
    BY <2>1, <2>2
<1>6. Keyed(al, w, n)
  BY <1>2, AlphagramsKeyed
<1>7. ASSUME NEW i \in DOMAIN w PROVE c[i] \in Int /\ p[i] \in Int
  <2>1. s[i] \in raw /\ w[i] \in Seq(DOMAIN d)
    BY <1>2
  <2>2. WordCombinations(d, Counts(d, w[i])) \in Int
    BY <1>0, <2>1, CountsAreCounts, WordCombinationsAreWhole
  <2>3. p[i] = s[i].playability
    BY DEF PlayabilityOf
  <2> QED
    BY <2>1, <2>2, <2>3 DEF CombinationsOf, IsWords
<1>8. \A i \in 1 .. n : alphagram[i] = IdOf(al, Canonical(w[i]))
  BY <1>2 DEF AlphagramOf
<1> HIDE DEF index, w, al, n, s, alphagram, c, p, prob, play, draws, points
<1> DEFINE key == [i \in 1 .. n |-> Canonical(w[i])]
<1>9. \A i \in 1 .. n : key[i] \in Seq(Nat) /\ key[i] = Canonical(w[i])
  <2>1. \A x \in Seq(Nat) : Canonical(x) \in Seq(Nat)
    <3>1. ASSUME NEW x \in Seq(Nat) PROVE Canonical(x) \in Seq(Nat)
      <4> DEFINE m == Len(x)
                 y == Canonical(x)
      <4>1. m \in Nat /\ TileOrder(y, x)
        BY CanonicalFacts
      <4>2. y \in [1 .. m -> Nat]
        BY <4>1 DEF TileOrder
      <4> HIDE DEF m, y
      <4>3. y \in Seq(Nat)
        BY <4>1, <4>2, LenOf
      <4> QED
        BY <4>3 DEF y
    <3> QED
      BY <3>1
  <2> QED
    BY <1>2, <2>1
<1>10. ASSUME NEW id \in 1 .. n
       PROVE  LET R == TieOfWords(Peers(w, id), alphagram, w)
              IN  /\ IsFiniteSet(Peers(w, id)) /\ Peers(w, id) \subseteq 1 .. n
                  /\ Orders(R, Peers(w, id))
                  /\ \A i, j \in Peers(w, id) : <<i, j>> \in R <=>
                       \/ Before(key[i], key[j])
                       \/ key[i] = key[j] /\ Before(w[i], w[j])
  <2> DEFINE ids == Peers(w, id)
             R == TieOfWords(ids, alphagram, w)
             T(i, j) == \/ Before(key[i], key[j])
                        \/ key[i] = key[j] /\ Before(w[i], w[j])
  <2>1. ids \subseteq 1 .. n /\ IsFiniteSet(ids)
    <3>1. ids \subseteq 1 .. n
      BY <1>2 DEF Peers
    <3> HIDE DEF ids
    <3> QED
      BY <1>2, <3>1, PartOfInterval
  <2>2. /\ \A a, b \in Seq(Nat) : a # b => Before(a, b) \/ Before(b, a)
        /\ \A a \in Seq(Nat) : ~ Before(a, a)
        /\ \A a, b, e \in Seq(Nat) : Before(a, b) /\ Before(b, e) => Before(a, e)
    BY BeforeOrders
  <2> HIDE DEF ids, key
  <2>3. ASSUME NEW i \in ids, NEW j \in ids PROVE <<i, j>> \in R <=> T(i, j)
    <3>1. /\ alphagram[i] \in Int /\ alphagram[j] \in Int
          /\ al[alphagram[i]] = key[i] /\ al[alphagram[j]] = key[j]
          /\ alphagram[i] < alphagram[j] => Before(key[i], key[j])
          /\ alphagram[j] < alphagram[i] => Before(key[j], key[i])
      BY <1>6, <1>8, <1>9, <2>1 DEF Keyed
    <3>2. <<i, j>> \in R <=> \/ alphagram[i] < alphagram[j]
                             \/ alphagram[i] = alphagram[j] /\ Before(w[i], w[j])
      BY DEF TieOfWords
    <3>3. key[i] \in Seq(Nat) /\ key[j] \in Seq(Nat)
      BY <1>9, <2>1
    <3>4. Before(key[i], key[j]) => key[i] # key[j] /\ ~ Before(key[j], key[i])
      BY <2>2, <3>3
    <3> HIDE DEF R
    <3> QED
      BY <3>1, <3>2, <3>4
  <2>4. ASSUME NEW i \in ids
        PROVE  key[i] \in Seq(Nat) /\ w[i] \in Seq(Nat)
    BY <1>2, <1>9, <2>1
  <2>5. \A i, j \in ids : w[i] = w[j] => i = j
    BY <1>2, <2>1
  <2> HIDE DEF R
  <2>6. Orders(R, ids)
    <3>1. \A x \in ids : ~ T(x, x)
      BY <2>2, <2>4
    <3>2. ASSUME NEW x \in ids, NEW y \in ids, NEW z \in ids, T(x, y), T(y, z) PROVE T(x, z)
      <4>1. /\ key[x] \in Seq(Nat) /\ key[y] \in Seq(Nat) /\ key[z] \in Seq(Nat)
            /\ w[x] \in Seq(Nat) /\ w[y] \in Seq(Nat) /\ w[z] \in Seq(Nat)
        BY <2>4
      <4>2. /\ Before(key[x], key[y]) /\ Before(key[y], key[z]) => Before(key[x], key[z])
            /\ Before(w[x], w[y]) /\ Before(w[y], w[z]) => Before(w[x], w[z])
        BY <2>2, <4>1
      <4> QED
        BY <3>2, <4>2
    <3>3. ASSUME NEW x \in ids, NEW y \in ids, x # y PROVE T(x, y) \/ T(y, x)
      BY <2>2, <2>4, <2>5, <3>3
    <3> HIDE DEF T
    <3> QED
      BY <2>3, <3>1, <3>2, <3>3 DEF Orders
  <2> QED
    BY <2>1, <2>3, <2>6 DEF R, ids
<1>11. ASSUME NEW id \in 1 .. n
       PROVE  RanksAre(index, id, prob, draws) /\ RanksAre(index, id, play, points)
  <2> DEFINE ids == Peers(w, id)
             R == TieOfWords(ids, alphagram, w)
  <2>1. /\ IsFiniteSet(ids) /\ ids \subseteq 1 .. n /\ Orders(R, ids)
        /\ \A i, j \in ids : <<i, j>> \in R <=>
             \/ Before(key[i], key[j])
             \/ key[i] = key[j] /\ Before(w[i], w[j])
    BY <1>10
  <2>2. \A i \in 1 .. n : /\ c[i] \in Int /\ c[i] = draws[i]
                          /\ p[i] \in Int /\ p[i] = points[i]
                          /\ TilesOf(index, i) = w[i]
    BY <1>2, <1>4, <1>5, <1>7
  <2>3. /\ prob[id] = RankOf(WordOrder(ids, c, alphagram, w), c, id)
        /\ play[id] = RankOf(WordOrder(ids, p, alphagram, w), p, id)
    BY <1>2, <1>5
  <2>4. \A i \in ids : c[i] \in Int /\ p[i] \in Int
    BY <2>1, <2>2
  <2>5. IsRanking(WordOrder(ids, c, alphagram, w), ids, c, R)
    BY <2>1, <2>4, WordsInRanks
  <2>6. IsRanking(WordOrder(ids, p, alphagram, w), ids, p, R)
    BY <2>1, <2>4, WordsInRanks
  <2>7. /\ n \in Nat /\ EntryIds(index) = 1 .. n /\ DOMAIN w = 1 .. n
        /\ \A i \in 1 .. n : key[i] = IF index.kind = "words" THEN Canonical(w[i]) ELSE w[i]
        /\ \A i \in 1 .. n : TilesOf(index, i) = w[i]
        /\ \A i \in 1 .. n : c[i] \in Int /\ c[i] = draws[i]
        /\ \A i \in 1 .. n : p[i] \in Int /\ p[i] = points[i]
    BY <1>2, <1>3, <1>9, <2>2
  <2> HIDE DEF key, R
  <2>8. RanksAre(index, id, prob, draws)
    <3> DEFINE t == WordOrder(ids, c, alphagram, w)
    <3>1. /\ Orders(R, Peers(w, id)) /\ IsRanking(t, Peers(w, id), c, R)
          /\ prob[id] = RankOf(t, c, id)
          /\ \A i, j \in Peers(w, id) : <<i, j>> \in R <=>
               \/ Before(key[i], key[j])
               \/ key[i] = key[j] /\ Before(w[i], w[j])
      BY <2>1, <2>3, <2>5
    <3>2. /\ n \in Nat /\ EntryIds(index) = 1 .. n /\ DOMAIN w = 1 .. n /\ id \in 1 .. n
          /\ \A i \in 1 .. n : TilesOf(index, i) = w[i]
          /\ \A i \in 1 .. n : c[i] \in Int /\ c[i] = draws[i]
          /\ \A i \in 1 .. n : key[i] = IF index.kind = "words" THEN Canonical(w[i]) ELSE w[i]
      BY <2>7
    <3> HIDE DEF t
    <3>3. RankedAmong(index, w, n, id, c, draws, key, R, t, prob)
      BY ONLY <3>1, <3>2, Zenon DEF RankedAmong
    <3> QED
      BY ONLY <3>3, RanksInPeers
  <2>9. RanksAre(index, id, play, points)
    <3> DEFINE t == WordOrder(ids, p, alphagram, w)
    <3>1. /\ Orders(R, Peers(w, id)) /\ IsRanking(t, Peers(w, id), p, R)
          /\ play[id] = RankOf(t, p, id)
          /\ \A i, j \in Peers(w, id) : <<i, j>> \in R <=>
               \/ Before(key[i], key[j])
               \/ key[i] = key[j] /\ Before(w[i], w[j])
      BY <2>1, <2>3, <2>6
    <3>2. /\ n \in Nat /\ EntryIds(index) = 1 .. n /\ DOMAIN w = 1 .. n /\ id \in 1 .. n
          /\ \A i \in 1 .. n : TilesOf(index, i) = w[i]
          /\ \A i \in 1 .. n : p[i] \in Int /\ p[i] = points[i]
          /\ \A i \in 1 .. n : key[i] = IF index.kind = "words" THEN Canonical(w[i]) ELSE w[i]
      BY <2>7
    <3> HIDE DEF t
    <3>3. RankedAmong(index, w, n, id, p, points, key, R, t, play)
      BY ONLY <3>1, <3>2, Zenon DEF RankedAmong
    <3> QED
      BY ONLY <3>3, RanksInPeers
  <2> QED
    BY <2>8, <2>9
<1> QED
  BY <1>2, <1>3, <1>11, Zenon DEF RanksAreSound, index, prob, play, draws, points

\* Leaves of a length by value, ties by their places in the index.
LeaveOrder(ids, value) ==
  InSequence(ids, LAMBDA a, b : \/ value[a] > value[b]
                                \/ value[a] = value[b] /\ a < b)
LeaveCombinationsOf(d, leaves) ==
  [i \in DOMAIN leaves |-> LeaveCombinations(d, Counts(d, leaves[i]))]

\* What the index of leaves derives from all of them.
LEMMA LeavesDerive ==
  ASSUME NEW lexicon, NEW raw, NEW id \in DOMAIN WordsOf(Sorted(raw))
  PROVE  LET w == WordsOf(Sorted(raw))
             e == BuildLeaves(lexicon, raw).entries[id]
             c == LeaveCombinationsOf(lexicon.distribution, w)
         IN  /\ e.probability_order = RankOf(LeaveOrder(Peers(w, id), c), c, id)
             /\ e.combinations = c[id]
<1> DEFINE d == lexicon.distribution
           sorted == ByTiles(Sorted(raw))
           leaves == [i \in DOMAIN sorted |-> sorted[i].tiles]
           combinations == [i \in DOMAIN leaves |-> LeaveCombinations(d, Counts(d, leaves[i]))]
           prob == RanksByLength(leaves, combinations, LAMBDA a, b : a < b)
           anagrams(l) ==
             IF BLANK \in ToSet(l) \/ ~ HasKey(lexicon.alphagrams, l) THEN 0
             ELSE Cardinality(lexicon.alphagram_words[IdOf(lexicon.alphagrams, l)])
           own(i) == OwnAttributes(d, leaves[i])
           built == BuildLeaves(lexicon, raw)
<1>1. built =
        [kind |-> "leaves",
         distribution |-> d,
         entries |-> [i \in DOMAIN leaves |->
           [own |-> own(i),
            num_anagrams |-> anagrams(leaves[i]),
            combinations |-> combinations[i],
            probability_order |-> prob[i],
            value |-> sorted[i].value]]]
  BY Zenon DEF BuildLeaves, ByTiles, Sorted
<1>2. leaves = WordsOf(Sorted(raw))
  BY Zenon DEF WordsOf
<1>3. combinations = LeaveCombinationsOf(d, leaves)
  <2> HIDE DEF leaves
  <2> QED
    BY Zenon DEF LeaveCombinationsOf
<1>4. prob[id] = RankOf(LeaveOrder(Peers(leaves, id), combinations), combinations, id)
  <2>1. id \in DOMAIN leaves
    BY <1>2
  <2> HIDE DEF leaves, combinations
  <2>2. id \in {i \in DOMAIN leaves : Len(leaves[i]) = Len(leaves[id])}
    BY <2>1
  <2> QED
    BY <2>1, <2>2, Zenon DEF RanksByLength, Ranks, Ranked, LeaveOrder, RankOf, Peers
<1> HIDE DEF prob, anagrams, own, built, sorted, leaves, combinations, d
<1>5. id \in DOMAIN leaves
  BY <1>2
<1>6. /\ built.entries[id].probability_order = prob[id]
      /\ built.entries[id].combinations = combinations[id]
  BY <1>1, <1>5
<1> QED
  BY <1>2, <1>3, <1>4, <1>6 DEF built, d

\* Leaves of a length tie by their places.
TieOfLeaves(ids) == {p \in ids \X ids : p[1] < p[2]}

\* The leaves of a length are ranked by value, ties by place.
LEMMA LeavesInRanks ==
  ASSUME NEW ids, IsFiniteSet(ids), \A i \in ids : i \in Int,
         NEW value, \A i \in ids : value[i] \in Int, Orders(TieOfLeaves(ids), ids)
  PROVE  IsRanking(LeaveOrder(ids, value), ids, value, TieOfLeaves(ids))
<1> DEFINE n == Cardinality(ids)
           R == TieOfLeaves(ids)
           H == HigherIn(ids, value, R)
           s == LeaveOrder(ids, value)
           L(a, b) == \/ value[a] > value[b]
                      \/ value[a] = value[b] /\ a < b
           Fits(x, i) == Cardinality({y \in ids : L(y, x)}) = i - 1
<1>1. s = [i \in 1 .. n |-> CHOOSE x \in ids : Fits(x, i)]
  BY Zenon DEF LeaveOrder, InSequence
<1>2. ASSUME NEW x \in ids PROVE {y \in ids : L(y, x)} = Under(H, ids, x)
  <2>1. ASSUME NEW y \in ids PROVE L(y, x) <=> <<y, x>> \in H
    <3>1. <<y, x>> \in R <=> y < x
      BY DEF TieOfLeaves
    <3>2. x \in Int /\ y \in Int
      OBVIOUS
    <3> HIDE DEF R
    <3> QED
      BY <3>1, <3>2 DEF HigherIn, Higher
  <2> HIDE DEF L, H
  <2> QED
    BY <2>1 DEF Under
<1>3. \A x \in ids : \A i \in 1 .. n : Fits(x, i) <=> Cardinality(Under(H, ids, x)) = i - 1
  BY <1>2
<1>4. \A i \in 1 .. n : \E x \in ids : Cardinality(Under(H, ids, x)) = i - 1
  <2>1. Orders(H, ids)
    BY HigherOrders
  <2> HIDE DEF H
  <2> QED
    BY <2>1, Positions
<1> HIDE DEF Fits, H, s, R, n
<1>5. ASSUME NEW i \in 1 .. n
      PROVE  s[i] \in ids /\ Cardinality(Under(H, ids, s[i])) = i - 1
  <2>1. s[i] = CHOOSE x \in ids : Fits(x, i)
    BY <1>1
  <2>2. \E x \in ids : Fits(x, i)
    BY <1>3, <1>4
  <2>3. s[i] \in ids /\ Fits(s[i], i)
    BY <2>1, <2>2
  <2> QED
    BY <1>3, <2>3
<1>6. s \in [1 .. n -> ids]
  BY <1>1, <1>5
<1> QED
  BY <1>5, <1>6 DEF IsRanking, s, R, H, n

\* The leaves of an index are alphabetical sequences of tiles of their own.
LEMMA LeavesAreListed ==
  ASSUME NEW lexicon, HasTiles(lexicon.distribution), NEW raw,
         IsLeaves(lexicon.distribution, raw)
  PROVE  LET index == BuildLeaves(lexicon, raw)
             w == WordsOf(Sorted(raw))
         IN  \E n \in Nat :
               /\ DOMAIN w = 1 .. n /\ EntryIds(index) = 1 .. n
               /\ \A i \in 1 .. n : /\ TilesOf(index, i) = w[i] /\ w[i] \in Seq(Nat)
                                    /\ LeaveCombinationsOf(lexicon.distribution, w)[i] \in Int
               /\ \A i, j \in 1 .. n : i < j => Before(w[i], w[j])
<1> DEFINE d == lexicon.distribution
           index == BuildLeaves(lexicon, raw)
           S == Sorted(raw)
           w == WordsOf(S)
           s == ByTiles(S)
           n == Cardinality(S)
           c == LeaveCombinationsOf(d, w)
<1>0. HasTiles(d) /\ IsDistribution(d)
  BY DEF HasTiles
<1>1. IsRaw(d, S)
  BY <1>0, StoredIsRaw
<1>2. /\ EntryIds(index) = DOMAIN w
      /\ \A i \in DOMAIN w : index.entries[i].own = OwnAttributes(d, w[i])
  BY LeavesFields
<1> HIDE DEF index, d, S
<1>3. Listed(w, s, n, S, d)
  BY <1>0, <1>1, WordsListed
<1> HIDE DEF s, n
<1>4. /\ n \in Nat /\ DOMAIN w = 1 .. n
      /\ \A i \in 1 .. n : w[i] \in Seq(DOMAIN d) /\ w[i] \in Seq(Nat)
      /\ \A i, j \in 1 .. n : i < j => Before(w[i], w[j])
  BY <1>3 DEF Listed
<1> HIDE DEF w
<1>5. ASSUME NEW i \in 1 .. n PROVE TilesOf(index, i) = w[i] /\ c[i] \in Int
  <2> DEFINE own == OwnAttributes(d, w[i])
  <2>1. index.entries[i].own = own /\ own.tiles = w[i]
    BY <1>2, <1>4 DEF OwnAttributes
  <2> HIDE DEF own
  <2>2. LeaveCombinations(d, Counts(d, w[i])) \in Int
    BY <1>0, <1>4, CountsAreCounts, ProductIsWhole DEF LeaveCombinations
  <2>3. c[i] = LeaveCombinations(d, Counts(d, w[i]))
    BY <1>4, Zenon DEF LeaveCombinationsOf
  <2> QED
    BY <2>1, <2>2, <2>3 DEF TilesOf
<1> HIDE DEF c
<1>6. \E m \in Nat :
        /\ DOMAIN w = 1 .. m /\ EntryIds(index) = 1 .. m
        /\ \A i \in 1 .. m : TilesOf(index, i) = w[i] /\ w[i] \in Seq(Nat) /\ c[i] \in Int
        /\ \A i, j \in 1 .. m : i < j => Before(w[i], w[j])
  BY <1>2, <1>4, <1>5
<1> QED
  BY <1>6, Zenon DEF index, w, S, c, d

\* The ranks of leaves are those among the leaves of a length.
LEMMA LeaveRanks ==
  ASSUME NEW lexicon, HasTiles(lexicon.distribution), NEW raw,
         IsLeaves(lexicon.distribution, raw)
  PROVE  RanksAreSound(BuildLeaves(lexicon, raw)) /\ IdsAreAlphabetical(BuildLeaves(lexicon, raw))
<1> DEFINE index == BuildLeaves(lexicon, raw)
           w == WordsOf(Sorted(raw))
           c == LeaveCombinationsOf(lexicon.distribution, w)
           prob == Attribute(index, LAMBDA x : x.probability_order)
           draws == Attribute(index, LAMBDA x : x.combinations)
           play == Attribute(index, LAMBDA x : x.playability_order)
           points == Attribute(index, LAMBDA x : x.playability)
<1>1. index.kind = "leaves"
  BY LeavesFields
<1>2. PICK n \in Nat :
        /\ DOMAIN w = 1 .. n /\ EntryIds(index) = 1 .. n
        /\ \A i \in 1 .. n : TilesOf(index, i) = w[i] /\ w[i] \in Seq(Nat) /\ c[i] \in Int
        /\ \A i, j \in 1 .. n : i < j => Before(w[i], w[j])
  BY LeavesAreListed, Zenon
<1>3. ASSUME NEW i \in 1 .. n
      PROVE  prob[i] = RankOf(LeaveOrder(Peers(w, i), c), c, i) /\ draws[i] = c[i]
  <2>1. LET e == index.entries[i]
        IN  e.probability_order = RankOf(LeaveOrder(Peers(w, i), c), c, i) /\ e.combinations = c[i]
    BY <1>2, LeavesDerive
  <2>2. prob[i] = index.entries[i].probability_order /\ draws[i] = index.entries[i].combinations
    BY <1>2, Zenon DEF Attribute
  <2> HIDE DEF prob, draws, index, c, w
  <2> QED
    BY <2>1, <2>2
<1> HIDE DEF index, w, c, prob, draws, play, points
<1>4. /\ \A a, b \in Seq(Nat) : a # b => Before(a, b) \/ Before(b, a)
      /\ \A a \in Seq(Nat) : ~ Before(a, a)
      /\ \A a, b, e \in Seq(Nat) : Before(a, b) /\ Before(b, e) => Before(a, e)
  BY BeforeOrders
<1>5. ASSUME NEW id \in 1 .. n PROVE RanksAre(index, id, prob, draws)
  <2> DEFINE ids == Peers(w, id)
             R == TieOfLeaves(ids)
             key == w
             t == LeaveOrder(ids, c)
  <2>1. ids \subseteq 1 .. n /\ IsFiniteSet(ids)
    <3>1. ids \subseteq 1 .. n
      BY <1>2 DEF Peers
    <3> HIDE DEF ids
    <3> QED
      BY <3>1, PartOfInterval
  <2> HIDE DEF ids
  <2>2. \A i, j \in ids : <<i, j>> \in R <=> i < j
    BY DEF TieOfLeaves
  <2>3. Orders(R, ids)
    <3> HIDE DEF R
    <3> QED
      BY <2>1, <2>2 DEF Orders
  <2>4. ASSUME NEW i \in ids, NEW j \in ids
        PROVE  <<i, j>> \in R <=> \/ Before(w[i], w[j])
                                  \/ w[i] = w[j] /\ Before(w[i], w[j])
    <3>1. /\ i \in 1 .. n /\ j \in 1 .. n /\ w[i] \in Seq(Nat) /\ w[j] \in Seq(Nat)
          /\ i < j => Before(w[i], w[j])
          /\ j < i => Before(w[j], w[i])
      BY <1>2, <2>1
    <3>2. Before(w[i], w[j]) => ~ Before(w[j], w[i]) /\ w[i] # w[j]
      BY <1>4, <3>1
    <3> HIDE DEF R
    <3> QED
      BY <2>2, <3>1, <3>2
  <2>5. IsRanking(t, ids, c, R)
    <3>1. \A i \in ids : i \in Int /\ c[i] \in Int
      BY <1>2, <2>1
    <3> QED
      BY <2>1, <2>3, <3>1, LeavesInRanks
  <2>6. prob[id] = RankOf(t, c, id)
    BY <1>3 DEF ids
  <2>7. /\ \A i \in 1 .. n : c[i] \in Int /\ c[i] = draws[i]
        /\ \A i \in 1 .. n : TilesOf(index, i) = w[i]
        /\ \A i \in 1 .. n : w[i] = IF index.kind = "words" THEN Canonical(w[i]) ELSE w[i]
        /\ n \in Nat /\ EntryIds(index) = 1 .. n /\ DOMAIN w = 1 .. n /\ id \in 1 .. n
    BY <1>1, <1>2, <1>3
  <2> HIDE DEF R, t
  <2>8. /\ \A i, j \in Peers(w, id) : <<i, j>> \in R <=>
             \/ Before(w[i], w[j])
             \/ w[i] = w[j] /\ Before(w[i], w[j])
        /\ Orders(R, Peers(w, id)) /\ IsRanking(t, Peers(w, id), c, R)
    BY <2>3, <2>4, <2>5 DEF ids
  <2>9. RankedAmong(index, w, n, id, c, draws, w, R, t, prob)
    BY ONLY <2>6, <2>7, <2>8, Zenon DEF RankedAmong
  <2> QED
    BY ONLY <2>9, RanksInPeers
<1>6. RanksAreSound(index)
  <2>1. ASSUME NEW id \in EntryIds(index) PROVE RanksAre(index, id, prob, draws)
    BY <1>2, <1>5
  <2>2. index.kind # "words"
    BY <1>1
  <2> QED
    BY <2>1, <2>2, Zenon DEF RanksAreSound, prob, draws
<1>7. IdsAreAlphabetical(index)
  BY <1>2 DEF IdsAreAlphabetical
<1> QED
  BY <1>6, <1>7 DEF index

\* Whatever the leaves, the ranks of an index have no gap and no leave twice,
\* ties share the ranks of all of them, and the ids are alphabetical (index.rs
\* build_leaves, ranked, place_by_length).
THEOREM LeaveIndexIsSound ==
  ASSUME NEW lexicon, HasTiles(lexicon.distribution), NEW raw,
         IsLeaves(lexicon.distribution, raw)
  PROVE  IndexIsSound(BuildLeaves(lexicon, raw))
<1> DEFINE index == BuildLeaves(lexicon, raw)
<1>1. index.kind # "words"
  BY LeavesFields
<1>2. RanksAreSound(index) /\ IdsAreAlphabetical(index)
  BY LeaveRanks
<1> HIDE DEF index
<1>3. IndexIsSound(index)
  BY <1>1, <1>2 DEF IndexIsSound
<1> QED
  BY <1>3 DEF index

-----------------------------------------------------------------------------
(* Anagrams and hooks                                                      *)

\* Sets of as many elements are matched one to one.
Pairs(h, S, T) ==
  /\ h \in [S -> T]
  /\ \A x, y \in S : h[x] = h[y] => x = y
  /\ \A y \in T : \E x \in S : h[x] = y

\* Finite sets of as many elements can be paired off.
LEMMA Matched ==
  ASSUME NEW S, NEW T, IsFiniteSet(S), IsFiniteSet(T), Cardinality(S) = Cardinality(T)
  PROVE  \E h : Pairs(h, S, T)
<1>1. PICK h : h \in Bijection(S, T)
  BY FS_SameCardinalityBij DEF ExistsBijection
<1>2. h \in Injection(S, T) /\ h \in Surjection(S, T)
  BY <1>1 DEF Bijection
<1>3. h \in [S -> T] /\ \A x, y \in S : h[x] = h[y] => x = y
  BY <1>2, InjectionMeans
<1> QED
  BY <1>2, <1>3 DEF Surjection, Pairs

\* Two sequences hold each tile as often.
PlacesWith(s, n, t) == {i \in 1 .. n : s[i] = t}
AsOften(D, a, n, b, m) ==
  /\ n \in Nat /\ m \in Nat /\ a \in [1 .. n -> D] /\ b \in [1 .. m -> D]
  /\ \A t \in D : Cardinality(PlacesWith(a, n, t)) = Cardinality(PlacesWith(b, m, t))

\* Then they are rearrangements of each other.
LEMMA CountsRearrange ==
  ASSUME NEW D, NEW a, NEW n, NEW b, NEW m, AsOften(D, a, n, b, m)
  PROVE  n = m /\ \E f : Rearranges(f, n, a, b)
<1> DEFINE A(t) == PlacesWith(a, n, t)
           B(t) == PlacesWith(b, m, t)
           H == [t \in D |-> CHOOSE h : Pairs(h, A(t), B(t))]
           f == [i \in 1 .. n |-> H[a[i]][i]]
<1>0. /\ n \in Nat /\ m \in Nat /\ a \in [1 .. n -> D] /\ b \in [1 .. m -> D]
      /\ \A t \in D : Cardinality(A(t)) = Cardinality(B(t))
  BY DEF AsOften
<1>1. ASSUME NEW t \in D PROVE Pairs(H[t], A(t), B(t))
  <2>1. IsFiniteSet(A(t)) /\ IsFiniteSet(B(t)) /\ Cardinality(A(t)) = Cardinality(B(t))
    <3>1. A(t) \subseteq 1 .. n /\ B(t) \subseteq 1 .. m
      BY DEF PlacesWith
    <3> HIDE DEF A, B
    <3> QED
      BY <1>0, <3>1, PartOfInterval
  <2> DEFINE S == A(t)
             T == B(t)
  <2>2. H[t] = CHOOSE h : Pairs(h, S, T)
    <3> HIDE DEF A, B
    <3> QED
      OBVIOUS
  <2> HIDE DEF S, T, H
  <2>3. \E h : Pairs(h, S, T)
    BY <2>1, Matched DEF S, T
  <2>4. Pairs(H[t], S, T)
    BY <2>2, <2>3
  <2> QED
    BY <2>4 DEF S, T
<1>2. \A i \in 1 .. n : f[i] = H[a[i]][i]
  OBVIOUS
<1> HIDE DEF H, f
<1>3. ASSUME NEW i \in 1 .. n
      PROVE  a[i] \in D /\ i \in A(a[i]) /\ f[i] \in B(a[i]) /\ f[i] \in 1 .. m /\ b[f[i]] = a[i]
  <2>1. a[i] \in D /\ i \in A(a[i])
    BY <1>0 DEF PlacesWith
  <2>2. H[a[i]] \in [A(a[i]) -> B(a[i])]
    BY <1>1, <2>1 DEF Pairs
  <2> HIDE DEF A, B
  <2>3. f[i] \in B(a[i])
    BY <1>2, <2>1, <2>2
  <2>4. f[i] \in 1 .. m /\ b[f[i]] = a[i]
    BY <2>3 DEF B, PlacesWith
  <2> QED
    BY <2>1, <2>3, <2>4
<1>4. ASSUME NEW i \in 1 .. n, NEW j \in 1 .. n, f[i] = f[j] PROVE i = j
  <2> DEFINE t == a[i]
  <2>1. t \in D /\ a[j] = t /\ i \in A(t) /\ j \in A(t)
    BY <1>3, <1>4
  <2>2. H[t][i] = H[t][j]
    BY <1>2, <1>4, <2>1
  <2> HIDE DEF t, A, B
  <2>3. \A x, y \in A(t) : H[t][x] = H[t][y] => x = y
    BY <1>1, <2>1 DEF Pairs
  <2> QED
    BY <2>1, <2>2, <2>3
<1>5. ASSUME NEW y \in 1 .. m PROVE \E i \in 1 .. n : f[i] = y
  <2> DEFINE t == b[y]
  <2>1. t \in D /\ y \in B(t)
    BY <1>0 DEF PlacesWith
  <2>2. \E x \in A(t) : H[t][x] = y
    BY <1>1, <2>1 DEF Pairs
  <2> HIDE DEF t
  <2>3. PICK x \in A(t) : H[t][x] = y
    BY <2>2
  <2>4. x \in 1 .. n /\ a[x] = t
    BY DEF PlacesWith
  <2> QED
    BY <1>2, <2>3, <2>4
<1>6. f \in [1 .. n -> 1 .. m]
  <2>1. DOMAIN f = 1 .. n /\ f = [i \in 1 .. n |-> H[a[i]][i]]
    BY DEF f
  <2> QED
    BY <1>2, <1>3, <2>1
<1>7. n = m
  <2> DEFINE I == 1 .. n
             J == 1 .. m
  <2>1. IsFiniteSet(I) /\ Cardinality(I) = n /\ Cardinality(J) = m
    BY <1>0, FS_Interval
  <2>2. f \in [I -> J] /\ (\A i, j \in I : f[i] = f[j] => i = j) /\ \A y \in J : \E i \in I : f[i] = y
    BY <1>4, <1>5, <1>6
  <2> HIDE DEF I, J
  <2>3. Cardinality(J) = Cardinality(I)
    BY <2>1, <2>2, SameCount
  <2> QED
    BY <2>1, <2>3
<1>8. Rearranges(f, n, a, b)
  BY <1>3, <1>4, <1>5, <1>6, <1>7 DEF Rearranges
<1> QED
  BY <1>7, <1>8

\* Rearrangements hold each tile as often.
LEMMA RearrangedCounts ==
  ASSUME NEW n \in Nat, NEW a, NEW b, NEW f, Rearranges(f, n, a, b), NEW t
  PROVE  Cardinality(PlacesWith(a, n, t)) = Cardinality(PlacesWith(b, n, t))
<1> DEFINE A == PlacesWith(a, n, t)
           B == PlacesWith(b, n, t)
           g == [i \in A |-> f[i]]
<1>1. /\ f \in [1 .. n -> 1 .. n]
      /\ \A i, j \in 1 .. n : f[i] = f[j] => i = j
      /\ \A i \in 1 .. n : \E j \in 1 .. n : f[j] = i
      /\ \A i \in 1 .. n : a[i] = b[f[i]]
  BY DEF Rearranges
<1>2. IsFiniteSet(A)
  <2>1. A \subseteq 1 .. n
    BY DEF PlacesWith
  <2> HIDE DEF A
  <2> QED
    BY <2>1, PartOfInterval
<1>3. \A i : i \in A <=> i \in 1 .. n /\ a[i] = t
  BY DEF PlacesWith
<1>4. \A i : i \in B <=> i \in 1 .. n /\ b[i] = t
  BY DEF PlacesWith
<1>5. \A i \in A : g[i] = f[i] /\ f[i] \in B
  BY <1>1, <1>3, <1>4
<1>6. g \in [A -> B]
  BY <1>5
<1> HIDE DEF g, A, B
<1>7. \A x, y \in A : g[x] = g[y] => x = y
  BY <1>1, <1>3, <1>5
<1>8. ASSUME NEW y \in B PROVE \E x \in A : g[x] = y
  <2>1. y \in 1 .. n /\ b[y] = t
    BY <1>4
  <2>2. PICK j \in 1 .. n : f[j] = y
    BY <1>1, <2>1
  <2>3. a[j] = t
    BY <1>1, <2>1, <2>2
  <2>4. j \in A
    BY <1>3, <2>3
  <2> QED
    BY <1>5, <2>2, <2>4
<1>9. Cardinality(B) = Cardinality(A)
  BY ONLY <1>2, <1>6, <1>7, <1>8, SameCount
<1> QED
  BY <1>9 DEF A, B

\* Two words have one alphagram exactly if they hold each tile as often.
LEMMA LettersCounted ==
  ASSUME NEW D, D \subseteq Nat, NEW a \in Seq(D), NEW b \in Seq(D)
  PROVE  Canonical(a) = Canonical(b) <=> \A t \in D : Occurrences(a, t) = Occurrences(b, t)
<1> DEFINE n == Len(a)
           m == Len(b)
           x == Canonical(a)
           y == Canonical(b)
<1>1. /\ n \in Nat /\ m \in Nat /\ DOMAIN a = 1 .. n /\ DOMAIN b = 1 .. m
      /\ a \in [1 .. n -> D] /\ b \in [1 .. m -> D]
      /\ a \in Seq(Nat) /\ b \in Seq(Nat)
  <2>1. /\ n \in Nat /\ m \in Nat /\ DOMAIN a = 1 .. n /\ DOMAIN b = 1 .. m
        /\ a \in [1 .. n -> D] /\ b \in [1 .. m -> D]
    BY LenProperties
  <2> HIDE DEF n, m
  <2>2. a \in [1 .. n -> Nat] /\ b \in [1 .. m -> Nat]
    BY <2>1
  <2>3. a \in Seq(Nat)
    BY <2>1, <2>2, LenOf
  <2>4. b \in Seq(Nat)
    BY <2>1, <2>2, LenOf
  <2> QED
    BY <2>1, <2>3, <2>4
<1>2. TileOrder(x, a) /\ TileOrder(y, b)
  BY <1>1, CanonicalFacts
<1>3. \A t : /\ Occurrences(a, t) = Cardinality(PlacesWith(a, n, t))
             /\ Occurrences(b, t) = Cardinality(PlacesWith(b, m, t))
  BY <1>1 DEF Occurrences, PlacesWith
<1> HIDE DEF x, y, n, m
<1>4. Len(x) = n /\ Len(y) = m /\ (\E g : Rearranges(g, n, x, a)) /\ \E g : Rearranges(g, m, y, b)
  BY <1>2 DEF TileOrder, n, m
<1>5. ASSUME x = y, NEW t \in D PROVE Occurrences(a, t) = Occurrences(b, t)
  <2>1. n = m
    BY <1>4, <1>5
  <2>2. Cardinality(PlacesWith(x, n, t)) = Cardinality(PlacesWith(a, n, t))
    BY <1>1, <1>4, RearrangedCounts
  <2>3. Cardinality(PlacesWith(y, m, t)) = Cardinality(PlacesWith(b, m, t))
    BY <1>1, <1>4, RearrangedCounts
  <2> QED
    BY <1>3, <1>5, <2>1, <2>2, <2>3
<1>6. ASSUME \A t \in D : Occurrences(a, t) = Occurrences(b, t) PROVE x = y
  <2>1. \A t \in D : Cardinality(PlacesWith(a, n, t)) = Cardinality(PlacesWith(b, m, t))
    BY <1>3, <1>6
  <2>2. n = m /\ \E f : Rearranges(f, n, a, b)
    <3>1. AsOften(D, a, n, b, m)
      BY <1>1, <2>1 DEF AsOften
    <3> QED
      BY <3>1, CountsRearrange
  <2>3. PICK f : Rearranges(f, n, a, b)
    BY <2>2
  <2> QED
    BY <1>1, <2>2, <2>3, SameLetters DEF x, y, n, m
<1> QED
  BY <1>5, <1>6 DEF x, y

\* A word with a tile in front, or behind.
LEMMA InFrontOf ==
  ASSUME NEW S, NEW s \in Seq(S), NEW v \in Seq(S), NEW a
  PROVE  <<a>> \o v = s <=> Len(s) >= 1 /\ s[1] = a /\ Tail(s) = v
<1> DEFINE T == S \cup {a}
           c == <<a>> \o v
           n == Len(s)
           m == Len(v)
<1>1. /\ n \in Nat /\ DOMAIN s = 1 .. n /\ s \in [1 .. n -> T] /\ s \in Seq(T)
      /\ m \in Nat /\ DOMAIN v = 1 .. m /\ v \in [1 .. m -> T] /\ v \in Seq(T)
  <2>1. /\ n \in Nat /\ DOMAIN s = 1 .. n /\ s \in [1 .. n -> S]
        /\ m \in Nat /\ DOMAIN v = 1 .. m /\ v \in [1 .. m -> S]
    BY LenProperties
  <2>2. S \subseteq T
    OBVIOUS
  <2> HIDE DEF T, n, m
  <2>3. s \in [1 .. n -> T] /\ v \in [1 .. m -> T]
    BY <2>1, <2>2
  <2>4. s \in Seq(T)
    BY <2>1, <2>3, LenOf
  <2>5. v \in Seq(T)
    BY <2>1, <2>3, LenOf
  <2> QED
    BY <2>1, <2>3, <2>4, <2>5
<1>2. <<a>> \in Seq(T) /\ Len(<<a>>) = 1 /\ <<a>>[1] = a
  OBVIOUS
<1> HIDE DEF T
<1>3. c \in Seq(T) /\ Len(c) = m + 1 /\ c[1] = a /\ \A i \in 1 .. m : c[i + 1] = v[i]
  <2>1. /\ c \in Seq(T) /\ Len(c) = 1 + m
        /\ \A i \in 1 .. 1 + m : c[i] = IF i <= 1 THEN <<a>>[i] ELSE v[i - 1]
    BY <1>1, <1>2, ConcatProperties
  <2> HIDE DEF c
  <2>2. c[1] = a
    BY <1>1, <1>2, <2>1
  <2>3. ASSUME NEW i \in 1 .. m PROVE c[i + 1] = v[i]
    <3> DEFINE j == i + 1
    <3>1. j \in 1 .. 1 + m /\ ~ (j <= 1) /\ j - 1 = i
      BY <1>1
    <3> HIDE DEF j
    <3>2. c[j] = v[j - 1]
      BY <2>1, <3>1
    <3> QED
      BY <3>1, <3>2 DEF j
  <2> QED
    BY <1>1, <2>1, <2>2, <2>3
<1> HIDE DEF c, n, m
<1>4. ASSUME n >= 1
      PROVE  Tail(s) \in Seq(T) /\ Len(Tail(s)) = n - 1 /\ \A i \in 1 .. n - 1 : Tail(s)[i] = s[i + 1]
  <2>1. s # << >>
    BY <1>1, <1>4 DEF n
  <2> QED
    BY <1>1, <2>1, HeadTailProperties DEF n
<1>5. ASSUME c = s PROVE n >= 1 /\ s[1] = a /\ Tail(s) = v
  <2>0. Len(s) = m + 1
    BY <1>3, <1>5
  <2>1. n = m + 1 /\ n >= 1 /\ s[1] = a /\ \A i \in 1 .. m : s[i + 1] = v[i]
    BY <1>1, <1>3, <1>5, <2>0 DEF n
  <2> DEFINE t == Tail(s)
  <2>2. t \in Seq(T) /\ Len(t) = m /\ \A i \in 1 .. m : t[i] = s[i + 1]
    BY <1>1, <1>4, <2>1
  <2> HIDE DEF t
  <2>3. t = v
    BY <1>1, <2>1, <2>2, SeqEqual DEF m
  <2> QED
    BY <2>1, <2>3 DEF t
<1>6. ASSUME n >= 1, s[1] = a, Tail(s) = v PROVE c = s
  <2>1. m = n - 1 /\ \A i \in 1 .. m : v[i] = s[i + 1]
    BY <1>4, <1>6 DEF m
  <2>2. ASSUME NEW i \in 1 .. n PROVE c[i] = s[i]
    <3>1. CASE i = 1
      BY <1>3, <1>6, <3>1
    <3>2. CASE i # 1
      <4> DEFINE j == i - 1
      <4>1. j \in 1 .. m /\ j + 1 = i
        BY <1>1, <2>1, <3>2
      <4> HIDE DEF j
      <4> QED
        BY <1>3, <2>1, <4>1
    <3> QED
      BY <3>1, <3>2
  <2>3. Len(c) = n
    BY <1>1, <1>3, <2>1
  <2> QED
    BY <1>1, <1>3, <2>2, <2>3, SeqEqual DEF n
<1> QED
  BY <1>5, <1>6 DEF c, n

\* The hooks behind a word and the inner hooks of longer words.
LEMMA BehindOf ==
  ASSUME NEW S, NEW s \in Seq(S), NEW v \in Seq(S), NEW a
  PROVE  v \o <<a>> = s <=> Len(s) >= 1 /\ Last(s) = a /\ Front(s) = v
<1> DEFINE T == S \cup {a}
           c == v \o <<a>>
           n == Len(s)
           m == Len(v)
           f == SubSeq(s, 1, n - 1)
<1>1. /\ n \in Nat /\ DOMAIN s = 1 .. n /\ s \in [1 .. n -> T] /\ s \in Seq(T)
      /\ m \in Nat /\ DOMAIN v = 1 .. m /\ v \in [1 .. m -> T] /\ v \in Seq(T)
  <2>1. /\ n \in Nat /\ DOMAIN s = 1 .. n /\ s \in [1 .. n -> S]
        /\ m \in Nat /\ DOMAIN v = 1 .. m /\ v \in [1 .. m -> S]
    BY LenProperties
  <2>2. S \subseteq T
    OBVIOUS
  <2> HIDE DEF T, n, m
  <2>3. s \in [1 .. n -> T] /\ v \in [1 .. m -> T]
    BY <2>1, <2>2
  <2>4. s \in Seq(T)
    BY <2>1, <2>3, LenOf
  <2>5. v \in Seq(T)
    BY <2>1, <2>3, LenOf
  <2> QED
    BY <2>1, <2>3, <2>4, <2>5
<1>2. <<a>> \in Seq(T) /\ Len(<<a>>) = 1 /\ <<a>>[1] = a
  OBVIOUS
<1>3. Last(s) = s[n] /\ Front(s) = f
  BY DEF Last, Front
<1> HIDE DEF T, n, m
<1>4. c \in Seq(T) /\ Len(c) = m + 1 /\ c[m + 1] = a /\ \A i \in 1 .. m : c[i] = v[i]
  <2>1. /\ c \in Seq(T) /\ Len(c) = m + 1
        /\ \A i \in 1 .. m + 1 : c[i] = IF i <= m THEN v[i] ELSE <<a>>[i - m]
    BY <1>1, <1>2, ConcatProperties DEF m
  <2> HIDE DEF c
  <2>2. c[m + 1] = a
    <3> DEFINE j == m + 1
    <3>1. j \in 1 .. m + 1 /\ ~ (j <= m) /\ j - m = 1
      BY <1>1
    <3> HIDE DEF j
    <3>2. c[j] = <<a>>[j - m]
      BY <2>1, <3>1
    <3> QED
      BY <1>2, <3>1, <3>2 DEF j
  <2>3. \A i \in 1 .. m : c[i] = v[i]
    BY <1>1, <2>1
  <2> QED
    BY <2>1, <2>2, <2>3
<1> HIDE DEF c
<1>5. ASSUME n >= 1
      PROVE  f \in Seq(T) /\ Len(f) = n - 1 /\ \A i \in 1 .. n - 1 : f[i] = s[i]
  <2> DEFINE e == n - 1
  <2>1. e \in Int /\ 1 \in Int /\ e \in Nat /\ \A i \in 1 .. e : s[i] \in T
    BY <1>1, <1>5
  <2>2. e - 1 + 1 = e /\ (IF 1 <= e THEN e - 1 + 1 ELSE 0) = e
    BY <2>1
  <2> HIDE DEF e
  <2>3. /\ SubSeq(s, 1, e) \in Seq(T)
        /\ Len(SubSeq(s, 1, e)) = IF 1 <= e THEN e - 1 + 1 ELSE 0
        /\ \A i \in 1 .. e - 1 + 1 : SubSeq(s, 1, e)[i] = s[1 + i - 1]
    BY <2>1, SubSeqProperties
  <2> DEFINE g == SubSeq(s, 1, e)
  <2> HIDE DEF g
  <2>4. \A i \in 1 .. e : g[i] = s[i]
    BY <2>1, <2>2, <2>3 DEF g
  <2> QED
    BY <2>2, <2>3, <2>4 DEF g, e
<1> HIDE DEF f
<1>6. ASSUME c = s PROVE n >= 1 /\ s[n] = a /\ f = v
  <2>0. Len(s) = m + 1
    BY <1>4, <1>6
  <2>1. n = m + 1 /\ n >= 1
    BY <1>1, <2>0 DEF n
  <2>2. s[n] = a /\ \A i \in 1 .. m : s[i] = v[i]
    BY <1>4, <1>6, <2>1
  <2>3. f \in Seq(T) /\ Len(f) = m /\ \A i \in 1 .. m : f[i] = v[i]
    BY <1>1, <1>5, <2>1, <2>2
  <2>4. f = v
    BY <1>1, <2>3, SeqEqual DEF m
  <2> QED
    BY <2>1, <2>2, <2>4
<1>7. ASSUME n >= 1, s[n] = a, f = v PROVE c = s
  <2>1. m = n - 1 /\ \A i \in 1 .. m : v[i] = s[i]
    BY <1>5, <1>7 DEF m
  <2>2. ASSUME NEW i \in 1 .. n PROVE c[i] = s[i]
    <3>1. CASE i = n
      <4>1. i = m + 1
        BY <1>1, <2>1, <3>1
      <4> QED
        BY <1>4, <1>7, <3>1, <4>1
    <3>2. CASE i # n
      <4>1. i \in 1 .. m
        BY <1>1, <2>1, <3>2
      <4> QED
        BY <1>4, <2>1, <4>1
    <3> QED
      BY <3>1, <3>2
  <2>3. Len(c) = n
    BY <1>1, <1>4, <2>1
  <2> QED
    BY <1>1, <1>4, <2>2, <2>3, SeqEqual DEF n
<1> QED
  BY <1>3, <1>6, <1>7 DEF c, n

\* What the index of a lexicon holds of its words: w and its alphagrams al.
WordsIn(index, d, w, al, n) ==
  /\ n \in Nat /\ index.kind = "words" /\ index.distribution = d
  /\ DOMAIN w = 1 .. n /\ EntryIds(index) = 1 .. n
  /\ \A i \in 1 .. n : TilesOf(index, i) = w[i] /\ w[i] \in Seq(DOMAIN d)
  /\ \A i, j \in 1 .. n : i < j => Before(w[i], w[j])
  /\ Keyed(al, w, n)

\* The words of an upload are in its index as WordsIn says.
LEMMA WordsAreIn ==
  ASSUME NEW d, HasTiles(d), NEW raw, IsWords(d, raw)
  PROVE  WordsIn(BuildLexicon(d, raw), d, WordsOf(raw), AlphagramsOf(raw), Cardinality(raw))
<1> DEFINE index == BuildLexicon(d, raw)
           w == WordsOf(raw)
           al == AlphagramsOf(raw)
           n == Cardinality(raw)
           s == ByTiles(raw)
<1>1. Listed(w, s, n, raw, d)
  BY WordsListed DEF IsWords, HasTiles
<1>2. /\ n \in Nat /\ DOMAIN w = 1 .. n
      /\ \A i \in 1 .. n : w[i] \in Seq(DOMAIN d) /\ w[i] \in Seq(Nat)
      /\ \A i, j \in 1 .. n : i < j => Before(w[i], w[j])
  BY <1>1 DEF Listed
<1>3. Keyed(al, w, n)
  BY <1>2, AlphagramsKeyed
<1>4. /\ index.kind = "words" /\ index.distribution = d /\ EntryIds(index) = DOMAIN w
      /\ \A i \in DOMAIN w : index.entries[i].own = OwnAttributes(d, w[i])
  BY LexiconFields
<1> HIDE DEF index, w, al, n, s
<1>5. ASSUME NEW i \in 1 .. n PROVE TilesOf(index, i) = w[i]
  <2> DEFINE own == OwnAttributes(d, w[i])
  <2>1. index.entries[i].own = own /\ own.tiles = w[i]
    BY <1>2, <1>4 DEF OwnAttributes
  <2> HIDE DEF own
  <2> QED
    BY <2>1 DEF TilesOf
<1>6. WordsIn(index, d, w, al, n)
  BY <1>2, <1>3, <1>4, <1>5 DEF WordsIn
<1> QED
  BY <1>6 DEF index, w, al, n

\* A lexicon counts as anagrams the words of the same tiles.
LEMMA LexiconAnagrams ==
  ASSUME NEW d, HasTiles(d), NEW raw, IsWords(d, raw)
  PROVE  AnagramsAreCounted(BuildLexicon(d, raw))
<1> DEFINE index == BuildLexicon(d, raw)
           w == WordsOf(raw)
           al == AlphagramsOf(raw)
           n == Cardinality(raw)
           a == AlphagramOf(w, al)
           Same(id) == {i \in EntryIds(index) : \A t \in DOMAIN index.distribution :
                          Occurrences(TilesOf(index, i), t) = Occurrences(TilesOf(index, id), t)}
<1>1. WordsIn(index, d, w, al, n)
  BY WordsAreIn
<1>2. DOMAIN d \subseteq Nat
  BY DEF HasTiles, IsDistribution
<1>3. ASSUME NEW id \in DOMAIN w
      PROVE  index.entries[id].num_anagrams = Cardinality(AnagramsIn(w, al)[a[id]])
  <2>1. LET e == index.entries[id]
        IN  e.num_anagrams = Cardinality(AnagramsIn(w, al)[a[id]])
    BY LexiconDerives
  <2> QED
    BY <2>1, Zenon
<1>4. \A i \in DOMAIN w : a[i] = IdOf(al, Canonical(w[i]))
  BY Zenon DEF AlphagramOf
<1>5. AnagramsIn(w, al) = [k \in DOMAIN al |-> {i \in DOMAIN w : a[i] = k}]
  BY Zenon DEF AnagramsIn
<1> HIDE DEF index, w, al, n, a
<1>6. ASSUME NEW id \in 1 .. n PROVE AnagramsIn(w, al)[a[id]] = Same(id)
  <2>1. /\ DOMAIN w = 1 .. n /\ EntryIds(index) = 1 .. n /\ index.distribution = d
        /\ \A i \in 1 .. n : TilesOf(index, i) = w[i] /\ w[i] \in Seq(DOMAIN d)
    BY <1>1 DEF WordsIn
  <2>2. /\ a[id] \in DOMAIN al
        /\ \A i \in 1 .. n : a[i] = IdOf(al, Canonical(w[i])) /\ al[a[i]] = Canonical(w[i])
    BY <1>1, <1>4, <2>1 DEF WordsIn, Keyed
  <2>3. AnagramsIn(w, al)[a[id]] = {i \in 1 .. n : a[i] = a[id]}
    BY <1>5, <2>1, <2>2
  <2>4. ASSUME NEW i \in 1 .. n
        PROVE  a[i] = a[id] <=> \A t \in DOMAIN d : Occurrences(w[i], t) = Occurrences(w[id], t)
    <3>1. a[i] = a[id] <=> Canonical(w[i]) = Canonical(w[id])
      BY <2>2
    <3> DEFINE D == DOMAIN d
               x == w[i]
               y == w[id]
    <3>2. D \subseteq Nat /\ x \in Seq(D) /\ y \in Seq(D)
      BY <1>2, <2>1
    <3> HIDE DEF D, x, y
    <3>3. Canonical(x) = Canonical(y) <=> \A t \in D : Occurrences(x, t) = Occurrences(y, t)
      BY <3>2, LettersCounted
    <3> QED
      BY <3>1, <3>3 DEF D, x, y
  <2>5. ASSUME NEW i \in 1 .. n
        PROVE  (\A t \in DOMAIN index.distribution :
                  Occurrences(TilesOf(index, i), t) = Occurrences(TilesOf(index, id), t))
               <=> a[i] = a[id]
    <3>1. TilesOf(index, i) = w[i] /\ TilesOf(index, id) = w[id] /\ index.distribution = d
      BY <2>1
    <3> QED
      BY <2>4, <3>1, Zenon
  <2> QED
    BY <2>1, <2>3, <2>5
<1>7. ASSUME NEW id \in EntryIds(index)
      PROVE  index.entries[id].num_anagrams = Cardinality(Same(id))
  <2>1. id \in 1 .. n /\ id \in DOMAIN w
    BY <1>1 DEF WordsIn
  <2>2. AnagramsIn(w, al)[a[id]] = Same(id)
    BY <1>6, <2>1
  <2> HIDE DEF Same
  <2> QED
    BY <1>3, <2>1, <2>2
<1>8. AnagramsAreCounted(index)
  BY <1>7, Zenon DEF AnagramsAreCounted
<1> QED
  BY <1>8 DEF index

\* A word has an inner hook exactly if what it is the hook of says so.
LEMMA LexiconHooks ==
  ASSUME NEW d, HasTiles(d), NEW raw, IsWords(d, raw)
  PROVE  HooksAreInner(BuildLexicon(d, raw))
<1> DEFINE index == BuildLexicon(d, raw)
           w == WordsOf(raw)
           al == AlphagramsOf(raw)
           n == Cardinality(raw)
<1>1. WordsIn(index, d, w, al, n)
  BY WordsAreIn
<1>2. ASSUME NEW i \in DOMAIN w
      PROVE  /\ index.entries[i].front_hooks = FrontHooks(w, w[i])
             /\ index.entries[i].back_hooks = BackHooks(w, w[i])
             /\ index.entries[i].has_front_inner_hook = HasFrontInnerHook(w, w[i])
             /\ index.entries[i].has_back_inner_hook = HasBackInnerHook(w, w[i])
  <2>1. LET e == index.entries[i]
        IN  /\ e.front_hooks = FrontHooks(w, w[i]) /\ e.back_hooks = BackHooks(w, w[i])
            /\ e.has_front_inner_hook = HasFrontInnerHook(w, w[i])
            /\ e.has_back_inner_hook = HasBackInnerHook(w, w[i])
    BY LexiconDerives
  <2> QED
    BY <2>1, Zenon
<1> HIDE DEF index, w, al, n
<1>3. /\ n \in Nat /\ DOMAIN w = 1 .. n /\ EntryIds(index) = 1 .. n
      /\ \A i \in 1 .. n : TilesOf(index, i) = w[i] /\ w[i] \in Seq(DOMAIN d)
  BY <1>1 DEF WordsIn
<1>4. \A i \in 1 .. n : Len(w[i]) \in Nat
  BY <1>3, LenProperties
<1>5. ASSUME NEW id \in 1 .. n
      PROVE  HasFrontInnerHook(w, w[id]) <=>
               \E i \in 1 .. n : w[id][1] \in FrontHooks(w, w[i]) /\ <<w[id][1]>> \o w[i] = w[id]
  <2>1. \A i \in 1 .. n : <<w[id][1]>> \o w[i] = w[id] <=> Len(w[id]) >= 1 /\ Tail(w[id]) = w[i]
    <3>1. ASSUME NEW i \in 1 .. n
          PROVE  <<w[id][1]>> \o w[i] = w[id] <=> Len(w[id]) >= 1 /\ Tail(w[id]) = w[i]
      <4> DEFINE S == DOMAIN d
                 s == w[id]
                 v == w[i]
                 x == s[1]
      <4>1. s \in Seq(S) /\ v \in Seq(S)
        BY <1>3
      <4> HIDE DEF S, s, v, x
      <4>2. <<x>> \o v = s <=> Len(s) >= 1 /\ s[1] = x /\ Tail(s) = v
        BY <4>1, InFrontOf
      <4> QED
        BY <4>2 DEF s, v, x
    <3> QED
      BY <3>1
  <2>2. ASSUME HasFrontInnerHook(w, w[id])
        PROVE  \E i \in 1 .. n : w[id][1] \in FrontHooks(w, w[i]) /\ <<w[id][1]>> \o w[i] = w[id]
    <3>1. Len(w[id]) >= 2 /\ \E i \in 1 .. n : w[i] = Tail(w[id])
      BY <1>3, <2>2 DEF HasFrontInnerHook, HasKey
    <3>2. PICK i \in 1 .. n : w[i] = Tail(w[id])
      BY <3>1
    <3>3. w[id][1] \in FrontHooks(w, w[i])
      BY <1>3, <3>1, <3>2 DEF FrontHooks
    <3>4. Len(w[id]) >= 1
      BY <1>4, <3>1
    <3> QED
      BY <2>1, <3>2, <3>3, <3>4
  <2>3. ASSUME NEW i \in 1 .. n, w[id][1] \in FrontHooks(w, w[i]), <<w[id][1]>> \o w[i] = w[id]
        PROVE  HasFrontInnerHook(w, w[id])
    <3>1. Len(w[id]) >= 1 /\ Tail(w[id]) = w[i]
      BY <2>1, <2>3
    <3>2. PICK j \in 1 .. n : Len(w[j]) >= 2 /\ Tail(w[j]) = w[i]
      BY <1>3, <2>3 DEF FrontHooks
    <3>3. ASSUME NEW k \in 1 .. n, Len(w[k]) >= 1 PROVE Len(Tail(w[k])) = Len(w[k]) - 1
      <4>1. w[k] \in Seq(DOMAIN d) /\ w[k] # << >>
        BY <1>3, <3>3
      <4> QED
        BY <4>1, HeadTailProperties
    <3>4. Len(w[id]) = Len(w[j])
      <4>1. Len(w[id]) \in Nat /\ Len(w[j]) \in Nat /\ Len(w[j]) >= 1
        BY <1>4, <3>2
      <4>2. Len(Tail(w[id])) = Len(w[id]) - 1 /\ Len(Tail(w[j])) = Len(w[j]) - 1
        BY <3>1, <3>3, <4>1
      <4>3. Len(w[id]) - 1 = Len(w[j]) - 1
        BY <3>1, <3>2, <4>2
      <4> QED
        BY <4>1, <4>3
    <3> QED
      BY <1>3, <3>1, <3>2, <3>4 DEF HasFrontInnerHook, HasKey
  <2> QED
    BY <2>2, <2>3
<1>6. ASSUME NEW id \in 1 .. n
      PROVE  HasBackInnerHook(w, w[id]) <=>
               \E i \in 1 .. n : Last(w[id]) \in BackHooks(w, w[i]) /\ w[i] \o <<Last(w[id])>> = w[id]
  <2>1. \A i \in 1 .. n : w[i] \o <<Last(w[id])>> = w[id] <=> Len(w[id]) >= 1 /\ Front(w[id]) = w[i]
    <3>1. ASSUME NEW i \in 1 .. n
          PROVE  w[i] \o <<Last(w[id])>> = w[id] <=> Len(w[id]) >= 1 /\ Front(w[id]) = w[i]
      <4> DEFINE S == DOMAIN d
                 s == w[id]
                 v == w[i]
                 x == Last(s)
      <4>1. s \in Seq(S) /\ v \in Seq(S)
        BY <1>3
      <4> HIDE DEF S, s, v, x
      <4>2. v \o <<x>> = s <=> Len(s) >= 1 /\ Last(s) = x /\ Front(s) = v
        BY <4>1, BehindOf
      <4> QED
        BY <4>2 DEF s, v, x
    <3> QED
      BY <3>1
  <2>2. ASSUME HasBackInnerHook(w, w[id])
        PROVE  \E i \in 1 .. n : Last(w[id]) \in BackHooks(w, w[i]) /\ w[i] \o <<Last(w[id])>> = w[id]
    <3>1. Len(w[id]) >= 2 /\ \E i \in 1 .. n : w[i] = Front(w[id])
      BY <1>3, <2>2 DEF HasBackInnerHook, HasKey
    <3>2. PICK i \in 1 .. n : w[i] = Front(w[id])
      BY <3>1
    <3>3. Last(w[id]) \in BackHooks(w, w[i])
      BY <1>3, <3>1, <3>2 DEF BackHooks
    <3>4. Len(w[id]) >= 1
      BY <1>4, <3>1
    <3> QED
      BY <2>1, <3>2, <3>3, <3>4
  <2>3. ASSUME NEW i \in 1 .. n, Last(w[id]) \in BackHooks(w, w[i]), w[i] \o <<Last(w[id])>> = w[id]
        PROVE  HasBackInnerHook(w, w[id])
    <3>1. Len(w[id]) >= 1 /\ Front(w[id]) = w[i]
      BY <2>1, <2>3
    <3>2. PICK j \in 1 .. n : Len(w[j]) >= 2 /\ Front(w[j]) = w[i]
      BY <1>3, <2>3 DEF BackHooks
    <3>3. ASSUME NEW k \in 1 .. n, Len(w[k]) >= 1 PROVE Len(Front(w[k])) = Len(w[k]) - 1
      <4> DEFINE s == w[k]
                 S == DOMAIN d
                 m == Len(s)
                 e == m - 1
      <4>1. s \in Seq(S) /\ m \in Nat /\ m >= 1 /\ e \in Nat /\ \A q \in 1 .. m : s[q] \in S
        <5>1. s \in Seq(S) /\ m \in Nat /\ s \in [1 .. m -> S]
          BY <1>3, LenProperties
        <5> QED
          BY <3>3, <5>1
      <4> HIDE DEF s, S, m
      <4>2. e \in Int /\ (\A q \in 1 .. e : s[q] \in S) /\ (IF 1 <= e THEN e - 1 + 1 ELSE 0) = e
        BY <4>1
      <4>3. Front(s) = SubSeq(s, 1, e)
        BY DEF Front, m
      <4> HIDE DEF e
      <4>4. Len(SubSeq(s, 1, e)) = IF 1 <= e THEN e - 1 + 1 ELSE 0
        BY <4>2, SubSeqProperties
      <4> QED
        BY <4>2, <4>3, <4>4 DEF s, m, e
    <3>4. Len(w[id]) = Len(w[j])
      <4>1. Len(w[id]) \in Nat /\ Len(w[j]) \in Nat /\ Len(w[j]) >= 1
        BY <1>4, <3>2
      <4>2. Len(Front(w[id])) = Len(w[id]) - 1 /\ Len(Front(w[j])) = Len(w[j]) - 1
        BY <3>1, <3>3, <4>1
      <4>3. Len(w[id]) - 1 = Len(w[j]) - 1
        BY <3>1, <3>2, <4>2
      <4> QED
        BY <4>1, <4>3
    <3> QED
      BY <1>3, <3>1, <3>2, <3>4 DEF HasBackInnerHook, HasKey
  <2> QED
    BY <2>2, <2>3
<1>7. ASSUME NEW id \in EntryIds(index)
      PROVE  /\ index.entries[id].has_front_inner_hook <=>
                  \E i \in EntryIds(index) :
                    /\ TilesOf(index, id)[1] \in index.entries[i].front_hooks
                    /\ <<TilesOf(index, id)[1]>> \o TilesOf(index, i) = TilesOf(index, id)
             /\ index.entries[id].has_back_inner_hook <=>
                  \E i \in EntryIds(index) :
                    /\ Last(TilesOf(index, id)) \in index.entries[i].back_hooks
                    /\ TilesOf(index, i) \o <<Last(TilesOf(index, id))>> = TilesOf(index, id)
  <2>1. id \in 1 .. n /\ TilesOf(index, id) = w[id]
    BY <1>3
  <2>2. \A i \in 1 .. n : /\ index.entries[i].front_hooks = FrontHooks(w, w[i])
                          /\ index.entries[i].back_hooks = BackHooks(w, w[i])
                          /\ TilesOf(index, i) = w[i]
    BY <1>2, <1>3
  <2>3. /\ index.entries[id].has_front_inner_hook = HasFrontInnerHook(w, w[id])
        /\ index.entries[id].has_back_inner_hook = HasBackInnerHook(w, w[id])
    BY <1>2, <1>3, <2>1
  <2>4. index.entries[id].has_front_inner_hook <=>
          \E i \in EntryIds(index) :
            /\ TilesOf(index, id)[1] \in index.entries[i].front_hooks
            /\ <<TilesOf(index, id)[1]>> \o TilesOf(index, i) = TilesOf(index, id)
    <3> DEFINE G(i) == /\ TilesOf(index, id)[1] \in index.entries[i].front_hooks
                       /\ <<TilesOf(index, id)[1]>> \o TilesOf(index, i) = TilesOf(index, id)
               F(i) == /\ w[id][1] \in FrontHooks(w, w[i])
                       /\ <<w[id][1]>> \o w[i] = w[id]
    <3>1. \A i \in 1 .. n : F(i) <=> G(i)
      BY <2>1, <2>2
    <3>2. HasFrontInnerHook(w, w[id]) <=> \E i \in 1 .. n : F(i)
      BY <1>5, <2>1
    <3>3. EntryIds(index) = 1 .. n
      BY <1>3
    <3> HIDE DEF F, G
    <3>4. HasFrontInnerHook(w, w[id]) <=> \E i \in EntryIds(index) : G(i)
      BY <3>1, <3>2, <3>3
    <3> QED
      BY <2>3, <3>4 DEF G
  <2>5. index.entries[id].has_back_inner_hook <=>
          \E i \in EntryIds(index) :
            /\ Last(TilesOf(index, id)) \in index.entries[i].back_hooks
            /\ TilesOf(index, i) \o <<Last(TilesOf(index, id))>> = TilesOf(index, id)
    <3> DEFINE G(i) == /\ Last(TilesOf(index, id)) \in index.entries[i].back_hooks
                       /\ TilesOf(index, i) \o <<Last(TilesOf(index, id))>> = TilesOf(index, id)
               F(i) == /\ Last(w[id]) \in BackHooks(w, w[i])
                       /\ w[i] \o <<Last(w[id])>> = w[id]
    <3>1. \A i \in 1 .. n : F(i) <=> G(i)
      BY <2>1, <2>2
    <3>2. HasBackInnerHook(w, w[id]) <=> \E i \in 1 .. n : F(i)
      BY <1>6, <2>1
    <3>3. EntryIds(index) = 1 .. n
      BY <1>3
    <3> HIDE DEF F, G
    <3>4. HasBackInnerHook(w, w[id]) <=> \E i \in EntryIds(index) : G(i)
      BY <3>1, <3>2, <3>3
    <3> QED
      BY <2>3, <3>4 DEF G
  <2> QED
    BY <2>4, <2>5
<1>8. HooksAreInner(index)
  BY <1>7, Zenon DEF HooksAreInner
<1> QED
  BY <1>8 DEF index

-----------------------------------------------------------------------------
(* Draws                                                                   *)

\* Two sets over one, each with as many elements over each of its elements.
Over1(P, f, x) == {p \in P : f[p] = x}
SameOver(P, f, Q, g, D) ==
  /\ f \in [P -> D] /\ g \in [Q -> D]
  /\ \A x \in D : /\ IsFiniteSet(Over1(P, f, x)) /\ IsFiniteSet(Over1(Q, g, x))
                  /\ Cardinality(Over1(P, f, x)) = Cardinality(Over1(Q, g, x))

\* Such sets have as many elements.
LEMMA SameOverAll ==
  ASSUME NEW P, NEW f, NEW Q, NEW g, NEW D, SameOver(P, f, Q, g, D), IsFiniteSet(P)
  PROVE  IsFiniteSet(Q) /\ Cardinality(Q) = Cardinality(P)
<1> DEFINE H == [x \in D |-> CHOOSE h : Pairs(h, Over1(P, f, x), Over1(Q, g, x))]
           e == [p \in P |-> H[f[p]][p]]
<1>0. f \in [P -> D] /\ g \in [Q -> D]
  BY DEF SameOver
<1>1. ASSUME NEW x \in D PROVE Pairs(H[x], Over1(P, f, x), Over1(Q, g, x))
  <2> DEFINE A == Over1(P, f, x)
             B == Over1(Q, g, x)
  <2>1. IsFiniteSet(A) /\ IsFiniteSet(B) /\ Cardinality(A) = Cardinality(B)
    BY DEF SameOver
  <2>2. H[x] = CHOOSE h : Pairs(h, A, B)
    OBVIOUS
  <2> HIDE DEF A, B, H
  <2>3. \E h : Pairs(h, A, B)
    BY <2>1, Matched
  <2>4. Pairs(H[x], A, B)
    BY <2>2, <2>3
  <2> QED
    BY <2>4 DEF A, B
<1>2. \A p \in P : e[p] = H[f[p]][p]
  OBVIOUS
<1> HIDE DEF H
<1>3. ASSUME NEW p \in P PROVE f[p] \in D /\ p \in Over1(P, f, f[p]) /\ e[p] \in Q /\ g[e[p]] = f[p]
  <2>1. f[p] \in D /\ p \in Over1(P, f, f[p])
    BY <1>0 DEF Over1
  <2>2. H[f[p]] \in [Over1(P, f, f[p]) -> Over1(Q, g, f[p])]
    BY <1>1, <2>1 DEF Pairs
  <2> HIDE DEF e
  <2>3. e[p] \in Over1(Q, g, f[p])
    BY <1>2, <2>1, <2>2
  <2>4. e[p] \in Q /\ g[e[p]] = f[p]
    BY <2>3 DEF Over1
  <2> QED
    BY <2>1, <2>4
<1>4. e \in [P -> Q]
  BY <1>2, <1>3
<1> HIDE DEF e
<1>5. ASSUME NEW p \in P, NEW q \in P, e[p] = e[q] PROVE p = q
  <2> DEFINE x == f[p]
             A == Over1(P, f, x)
             h == H[x]
  <2>1. x \in D /\ f[q] = x /\ p \in A /\ q \in A
    <3>1. f[q] = x
      BY <1>3, <1>5
    <3>2. x \in D /\ p \in A
      BY <1>3
    <3>3. q \in A
      BY <1>3, <3>1
    <3> QED
      BY <3>1, <3>2, <3>3
  <2>2. h[p] = h[q]
    BY <1>2, <1>5, <2>1
  <2>3. \A y, z \in A : h[y] = h[z] => y = z
    BY <1>1, <2>1 DEF Pairs
  <2> HIDE DEF A, h
  <2> QED
    BY <2>1, <2>2, <2>3
<1>6. ASSUME NEW q \in Q PROVE \E p \in P : e[p] = q
  <2> DEFINE x == g[q]
  <2>1. x \in D /\ q \in Over1(Q, g, x)
    BY <1>0 DEF Over1
  <2>2. \E p \in Over1(P, f, x) : H[x][p] = q
    BY <1>1, <2>1 DEF Pairs
  <2> HIDE DEF x
  <2>3. PICK p \in Over1(P, f, x) : H[x][p] = q
    BY <2>2
  <2>4. p \in P /\ f[p] = x
    BY DEF Over1
  <2> QED
    BY <1>2, <2>3, <2>4
<1> QED
  BY ONLY <1>4, <1>5, <1>6, IsFiniteSet(P), SameCount

\* A set with k elements over each of another's has k times as many.
LEMMA TimesOver ==
  ASSUME NEW P, NEW S, IsFiniteSet(S), NEW f \in [P -> S], NEW k \in Nat,
         \A x \in S : IsFiniteSet(Over1(P, f, x)) /\ Cardinality(Over1(P, f, x)) = k
  PROVE  IsFiniteSet(P) /\ Cardinality(P) = Cardinality(S) * k
<1> DEFINE K == 1 .. k
           Q == S \X K
           g == [q \in Q |-> q[1]]
<1>1. IsFiniteSet(K) /\ Cardinality(K) = k
  BY UpTo
<1>2. IsFiniteSet(Q) /\ Cardinality(Q) = Cardinality(S) * k
  <2> HIDE DEF K
  <2> QED
    BY <1>1, FS_Product
<1>3. ASSUME NEW x \in S PROVE IsFiniteSet(Over1(Q, g, x)) /\ Cardinality(Over1(Q, g, x)) = k
  <2> DEFINE h == [i \in K |-> <<x, i>>]
             B == Over1(Q, g, x)
  <2>1. B = {x} \X K
    BY DEF Over1
  <2> HIDE DEF B, K
  <2>2. h \in [K -> B] /\ (\A i, j \in K : h[i] = h[j] => i = j) /\ \A y \in B : \E i \in K : h[i] = y
    BY <2>1
  <2> HIDE DEF h
  <2>3. IsFiniteSet(B) /\ Cardinality(B) = Cardinality(K)
    BY ONLY <1>1, <2>2, SameCount
  <2> QED
    BY <1>1, <2>3 DEF B
<1>4. g \in [Q -> S]
  OBVIOUS
<1> HIDE DEF g, Q, K
<1>5. SameOver(Q, g, P, f, S)
  BY <1>3, <1>4 DEF SameOver
<1>6. IsFiniteSet(P) /\ Cardinality(P) = Cardinality(Q)
  BY ONLY <1>2, <1>5, SameOverAll
<1> QED
  BY <1>2, <1>6

\* The sets of i elements of S.
LEMMA ChoicesFacts ==
  ASSUME NEW S, IsFiniteSet(S), NEW i
  PROVE  /\ IsFiniteSet(kSubset(i, S))
         /\ \A A \in kSubset(i, S) : A \subseteq S /\ IsFiniteSet(A) /\ Cardinality(A) = i
<1> DEFINE B == SUBSET S
           K == kSubset(i, S)
<1>1. IsFiniteSet(B)
  BY FS_SUBSET
<1>2. K \subseteq B
  BY DEF kSubset
<1> HIDE DEF B
<1>3. IsFiniteSet(K)
  BY <1>1, <1>2, Part
<1>4. \A A \in K : A \subseteq S /\ Cardinality(A) = i
  BY DEF kSubset
<1> HIDE DEF K
<1>5. \A A \in K : IsFiniteSet(A)
  BY <1>4, Part
<1> QED
  BY <1>3, <1>4, <1>5 DEF K

\* Sets of one element more: each comes from as many smaller sets as it has
\* elements, each smaller set grows by any of the elements it lacks.
LEMMA OneMoreChosen ==
  ASSUME NEW S, IsFiniteSet(S), NEW i \in Nat, i < Cardinality(S)
  PROVE  Cardinality(kSubset(i + 1, S)) * (i + 1) = Cardinality(kSubset(i, S)) * (Cardinality(S) - i)
<1> DEFINE n == Cardinality(S)
           j == i + 1
           A == kSubset(i, S)
           B == kSubset(j, S)
           P == {p \in A \X S : p[2] \notin p[1]}
           Q == {q \in B \X S : q[2] \in q[1]}
           f == [p \in P |-> p[1]]
           g == [q \in Q |-> q[1]]
           e == [p \in P |-> <<p[1] \cup {p[2]}, p[2]>>]
<1>0. n \in Nat /\ j \in Nat /\ n - i \in Nat
  BY FS_CardinalityType
<1>1. IsFiniteSet(A) /\ \A a \in A : a \subseteq S /\ IsFiniteSet(a) /\ Cardinality(a) = i
  BY ChoicesFacts
<1>2. IsFiniteSet(B) /\ \A b \in B : b \subseteq S /\ IsFiniteSet(b) /\ Cardinality(b) = j
  BY ChoicesFacts
<1>3. /\ \A a : a \subseteq S /\ Cardinality(a) = i => a \in A
      /\ \A b : b \subseteq S /\ Cardinality(b) = j => b \in B
  BY DEF kSubset
<1> HIDE DEF A, B
<1>4. ASSUME NEW a \in A PROVE IsFiniteSet(Over1(P, f, a)) /\ Cardinality(Over1(P, f, a)) = n - i
  <2> DEFINE F == Over1(P, f, a)
             C == S \ a
             h == [x \in C |-> <<a, x>>]
  <2>1. IsFiniteSet(C) /\ Cardinality(C) = n - i
    <3>1. IsFiniteSet(S \ a) /\ Cardinality(S \ a) = Cardinality(S) - Cardinality(S \cap a)
      BY FS_Difference
    <3>2. S \cap a = a /\ Cardinality(a) = i
      BY <1>1
    <3> QED
      BY <3>1, <3>2
  <2>2. F = {a} \X C
    BY <1>1 DEF Over1
  <2> HIDE DEF F, C
  <2>3. h \in [C -> F] /\ (\A x, y \in C : h[x] = h[y] => x = y) /\ \A y \in F : \E x \in C : h[x] = y
    BY <2>2
  <2> HIDE DEF h
  <2>4. IsFiniteSet(F) /\ Cardinality(F) = Cardinality(C)
    BY ONLY <2>1, <2>3, SameCount
  <2> QED
    BY <2>1, <2>4 DEF F
<1>5. ASSUME NEW b \in B PROVE IsFiniteSet(Over1(Q, g, b)) /\ Cardinality(Over1(Q, g, b)) = j
  <2> DEFINE F == Over1(Q, g, b)
             h == [x \in b |-> <<b, x>>]
  <2>1. IsFiniteSet(b) /\ Cardinality(b) = j /\ b \subseteq S
    BY <1>2
  <2>2. F = {b} \X b
    BY <2>1 DEF Over1
  <2> HIDE DEF F
  <2>3. h \in [b -> F] /\ (\A x, y \in b : h[x] = h[y] => x = y) /\ \A y \in F : \E x \in b : h[x] = y
    BY <2>2
  <2> HIDE DEF h
  <2>4. IsFiniteSet(F) /\ Cardinality(F) = Cardinality(b)
    BY ONLY <2>1, <2>3, SameCount
  <2> QED
    BY <2>1, <2>4 DEF F
<1>6. f \in [P -> A] /\ g \in [Q -> B]
  OBVIOUS
<1>7. /\ e \in [P -> Q]
      /\ \A x, y \in P : e[x] = e[y] => x = y
      /\ \A y \in Q : \E x \in P : e[x] = y
  <2>1. ASSUME NEW p \in P PROVE e[p] = <<p[1] \cup {p[2]}, p[2]>> /\ e[p] \in Q
    <3>1. p[1] \in A /\ p[2] \in S /\ p[2] \notin p[1]
      OBVIOUS
    <3>2. p[1] \cup {p[2]} \in B
      <4> DEFINE a == p[1]
                 x == p[2]
      <4>1. IsFiniteSet(a) /\ Cardinality(a) = i /\ x \notin a /\ a \cup {x} \subseteq S
        BY <1>1, <3>1
      <4> HIDE DEF a, x
      <4>2. Cardinality(a \cup {x}) = j
        BY <4>1, FS_AddElement
      <4> QED
        BY <1>3, <4>1, <4>2 DEF a, x
    <3>3. e[p] = <<p[1] \cup {p[2]}, p[2]>>
      OBVIOUS
    <3> QED
      BY <3>1, <3>2, <3>3
  <2>2. ASSUME NEW x \in P, NEW y \in P, e[x] = e[y] PROVE x = y
    <3>1. /\ x = <<x[1], x[2]>> /\ y = <<y[1], y[2]>> /\ x[2] \notin x[1] /\ y[2] \notin y[1]
      OBVIOUS
    <3>2. x[2] = y[2] /\ x[1] \cup {x[2]} = y[1] \cup {y[2]}
      BY <2>1, <2>2
    <3>3. x[1] = y[1]
      BY <3>1, <3>2
    <3> QED
      BY <3>1, <3>2, <3>3
  <2>3. ASSUME NEW y \in Q PROVE \E x \in P : e[x] = y
    <3> DEFINE b == y[1]
               z == y[2]
               p == <<b \ {z}, z>>
    <3>1. y = <<b, z>> /\ b \in B /\ z \in S /\ z \in b
      OBVIOUS
    <3> HIDE DEF b, z
    <3>2. b \ {z} \in A
      <4>1. IsFiniteSet(b) /\ Cardinality(b) = j /\ b \subseteq S
        BY <1>2, <3>1
      <4>2. Cardinality(b \ {z}) = Cardinality(b) - 1
        BY <3>1, <4>1, FS_RemoveElement
      <4>3. Cardinality(b \ {z}) = i
        BY <4>1, <4>2
      <4> QED
        BY <1>3, <4>1, <4>3
    <3>3. p \in P /\ p[1] = b \ {z} /\ p[2] = z
      BY <3>1, <3>2
    <3>4. p[1] \cup {p[2]} = b
      BY <3>1, <3>3
    <3> HIDE DEF p
    <3> QED
      BY <2>1, <3>1, <3>3, <3>4
  <2>4. e \in [P -> Q]
    <3> HIDE DEF P, Q
    <3> QED
      BY <2>1
  <2> QED
    BY <2>2, <2>3, <2>4
<1> HIDE DEF P, Q, f, g, e, n, j
<1>8. IsFiniteSet(P) /\ Cardinality(P) = Cardinality(A) * (n - i)
  <2> DEFINE m == n - i
  <2>1. m \in Nat /\ \A a \in A : IsFiniteSet(Over1(P, f, a)) /\ Cardinality(Over1(P, f, a)) = m
    BY <1>0, <1>4
  <2> HIDE DEF m
  <2>2. IsFiniteSet(P) /\ Cardinality(P) = Cardinality(A) * m
    BY ONLY <1>1, <1>6, <2>1, TimesOver
  <2> QED
    BY <2>2 DEF m
<1>9. Cardinality(Q) = Cardinality(B) * j
  BY ONLY <1>0, <1>2, <1>5, <1>6, TimesOver
<1>10. Cardinality(Q) = Cardinality(P)
  BY ONLY <1>7, <1>8, SameCount
<1> QED
  BY <1>8, <1>9, <1>10 DEF A, B, n, j


\* As many sets leave k elements out as take k.
LEMMA LeftOut ==
  ASSUME NEW S, IsFiniteSet(S), NEW k \in Nat, k <= Cardinality(S)
  PROVE  Cardinality(kSubset(Cardinality(S) - k, S)) = Cardinality(kSubset(k, S))
<1> DEFINE n == Cardinality(S)
           l == n - k
           A == kSubset(k, S)
           B == kSubset(l, S)
           f == [a \in A |-> S \ a]
<1>0. n \in Nat
  BY FS_CardinalityType
<1>1. IsFiniteSet(A) /\ \A a \in A : a \subseteq S /\ IsFiniteSet(a) /\ Cardinality(a) = k
  BY ChoicesFacts
<1>2. IsFiniteSet(B) /\ \A b \in B : b \subseteq S /\ IsFiniteSet(b) /\ Cardinality(b) = l
  BY ChoicesFacts
<1>3. /\ \A a : a \subseteq S /\ Cardinality(a) = k => a \in A
      /\ \A b : b \subseteq S /\ Cardinality(b) = l => b \in B
  BY DEF kSubset
<1> HIDE DEF A, B
<1>4. ASSUME NEW T, T \subseteq S
      PROVE  Cardinality(S \ T) = n - Cardinality(T) /\ S \ (S \ T) = T
  <2>1. Cardinality(S \ T) = Cardinality(S) - Cardinality(S \cap T)
    BY FS_Difference
  <2>2. S \cap T = T /\ S \ (S \ T) = T
    BY <1>4
  <2> QED
    BY <2>1, <2>2
<1>5. \A a \in A : f[a] = S \ a /\ f[a] \in B
  <2>1. ASSUME NEW a \in A PROVE S \ a \in B
    <3>1. Cardinality(S \ a) = l /\ S \ a \subseteq S
      BY <1>1, <1>4
    <3> QED
      BY <1>3, <3>1
  <2> QED
    BY <2>1
<1>6. f \in [A -> B]
  BY <1>5
<1> HIDE DEF f
<1>7. ASSUME NEW x \in A, NEW y \in A, f[x] = f[y] PROVE x = y
  <2>1. S \ x = S \ y
    BY <1>5, <1>7
  <2>2. S \ (S \ x) = x /\ S \ (S \ y) = y
    BY <1>1, <1>4
  <2> QED
    BY <2>1, <2>2
<1>8. ASSUME NEW b \in B PROVE \E a \in A : f[a] = b
  <2>1. b \subseteq S /\ Cardinality(b) = l
    BY <1>2
  <2>2. Cardinality(S \ b) = n - l /\ S \ b \subseteq S /\ S \ (S \ b) = b
    BY <1>4, <2>1
  <2>3. S \ b \in A
    BY <1>0, <1>3, <2>2
  <2> QED
    BY <1>5, <2>2, <2>3
<1>9. Cardinality(B) = Cardinality(A)
  <2>1. IsFiniteSet(A)
    BY <1>1
  <2> HIDE DEF n, l
  <2> QED
    BY ONLY <1>6, <1>7, <1>8, <2>1, SameCount
<1> QED
  BY <1>9 DEF A, B, l, n

\* The product of what is divided away again.
LEMMA DividedBack ==
  ASSUME NEW a \in Int, NEW b \in Nat, b > 0
  PROVE  (a * b) \div b = a
OBVIOUS

\* A binomial is the number of sets of k elements (probability.rs choose).
LEMMA BinomialsChoose ==
  ASSUME NEW S, IsFiniteSet(S), NEW k \in Nat
  PROVE  Binomial(Cardinality(S), k) = Cardinality(kSubset(k, S))
<1> DEFINE n == Cardinality(S)
           m == Min({k, n - k})
           Via(r, i) == IF i = 0 THEN 1 ELSE (r[i - 1] * (n - (i - 1))) \div i
           H(r) == r = [i \in 0 .. m |-> Via(r, i)]
           C(i) == Cardinality(kSubset(i, S))
<1>0. n \in Nat
  BY FS_CardinalityType
<1>1. Binomial(n, k) = IF k > n THEN 0 ELSE (CHOOSE r : H(r))[m]
  BY Zenon DEF Binomial
<1>2. ASSUME NEW i \in Nat PROVE C(i) \in Nat
  <2>1. IsFiniteSet(kSubset(i, S))
    BY ChoicesFacts
  <2> QED
    BY <2>1, FS_CardinalityType
<1>3. CASE k > n
  <2>1. kSubset(k, S) = {}
    <3> SUFFICES ASSUME NEW A \in kSubset(k, S) PROVE FALSE
      OBVIOUS
    <3>1. A \subseteq S /\ Cardinality(A) = k
      BY DEF kSubset
    <3>2. Cardinality(A) <= Cardinality(S)
      BY <3>1, Part
    <3> QED
      BY <1>0, <1>3, <3>1, <3>2
  <2>2. C(k) = 0
    BY <2>1, FS_EmptySet
  <2> QED
    BY <1>1, <1>3, <2>2
<1>4. CASE k <= n
  <2>1. m \in Nat /\ m <= n /\ (m = k \/ m = n - k)
    <3> DEFINE l == n - k
    <3>1. k \in Int /\ l \in Int /\ l \in Nat /\ l <= n
      BY <1>0, <1>4
    <3>2. m = Min({k, l})
      OBVIOUS
    <3> HIDE DEF l, m
    <3>3. m = IF k <= l THEN k ELSE l
      BY <3>1, <3>2, MaxOfTwo
    <3> QED
      BY <1>0, <1>4, <3>1, <3>3 DEF l
  <2>2. \E r : H(r)
    <3> HIDE DEF m, n
    <3> DEFINE step == [i \in 1 .. m |-> [x \in Int |-> (x * (n - (i - 1))) \div i]]
               base == 1
    <3>1. step \in [1 .. m -> [Int -> Int]] /\ base \in Int
      <4>1. \A i \in 1 .. m : \A x \in Int : (x * (n - (i - 1))) \div i \in Int
        BY <1>0
      <4> QED
        BY <4>1
    <3>2. \A i \in 1 .. m : \A x \in Int : step[i][x] = (x * (n - (i - 1))) \div i
      OBVIOUS
    <3> HIDE DEF step, base
    <3>3. PICK r : Walks(r, m, Int, base, step)
      BY <2>1, <3>1, StepByStep
    <3> USE DEF base
    <3>4. r \in [0 .. m -> Int] /\ r[0] = 1 /\ \A i \in 1 .. m : r[i] = step[i][r[i - 1]]
      BY <3>3 DEF Walks
    <3>5. ASSUME NEW i \in 0 .. m PROVE r[i] = Via(r, i)
      <4>1. CASE i = 0
        BY <3>4, <4>1
      <4>2. CASE i # 0
        <5>1. i \in 1 .. m /\ i - 1 \in 0 .. m
          BY <2>1, <4>2
        <5>2. r[i - 1] \in Int /\ r[i] = step[i][r[i - 1]]
          BY <3>4, <5>1
        <5> QED
          BY <3>2, <4>2, <5>1, <5>2
      <4> QED
        BY <4>1, <4>2
    <3> HIDE DEF Via
    <3>6. r = [i \in 0 .. m |-> Via(r, i)]
      BY <3>4, <3>5
    <3> QED
      BY <3>6
  <2>3. ASSUME NEW r, H(r) PROVE r[m] = C(m)
    <3> DEFINE N == {i \in Nat : i <= m => r[i] = C(i)}
    <3>1. \A i \in 0 .. m : r[i] = Via(r, i)
      BY <2>3
    <3>2. 0 \in N
      <4>1. kSubset(0, S) = {{}}
        <5>1. \A A \in SUBSET S : Cardinality(A) = 0 <=> A = {}
          BY Part, FS_EmptySet
        <5>2. {} \subseteq S
          OBVIOUS
        <5> QED
          BY <5>1, <5>2 DEF kSubset
      <4>2. C(0) = 1
        BY <4>1, FS_Singleton
      <4>3. 0 \in 0 .. m /\ 0 \in Nat
        BY <2>1
      <4>4. r[0] = 1
        BY <3>1, <4>3
      <4> QED
        BY <4>2, <4>3, <4>4
    <3>3. ASSUME NEW i \in Nat, i \in N PROVE i + 1 \in N
      <4> SUFFICES ASSUME i + 1 <= m PROVE r[i + 1] = C(i + 1)
        OBVIOUS
      <4> DEFINE j == i + 1
      <4>1. j \in Nat /\ j > 0 /\ j # 0 /\ j - 1 = i /\ j \in 0 .. m /\ i <= m /\ i < n
        BY <1>0, <2>1
      <4>2. r[i] = C(i)
        BY <3>3, <4>1
      <4>3. r[j] = (r[i] * (n - i)) \div j
        <5> HIDE DEF j, m, n
        <5>1. r[j] = Via(r, j)
          BY <3>1, <4>1
        <5> QED
          BY <4>1, <5>1
      <4>4. C(j) * j = C(i) * (n - i)
        BY <4>1, OneMoreChosen
      <4>5. C(j) \in Int
        BY <1>2, <4>1
      <4> HIDE DEF j, n, C, m
      <4>6. r[j] = (C(j) * j) \div j
        BY <4>2, <4>3, <4>4
      <4>7. r[j] = C(j)
        BY <4>1, <4>5, <4>6, DividedBack
      <4> QED
        BY <4>7 DEF j
    <3>4. m \in N
      <4> HIDE DEF N
      <4> QED
        BY <2>1, <3>2, <3>3, NatsBySteps
    <3> QED
      BY <3>4
  <2>4. C(m) = C(k)
    <3>1. CASE m = k
      BY <3>1
    <3>2. CASE m = n - k
      <4>1. C(n - k) = C(k)
        BY <1>4, LeftOut
      <4> QED
        BY <3>2, <4>1
    <3> QED
      BY <2>1, <3>1, <3>2
  <2> HIDE DEF H
  <2>5. H(CHOOSE r : H(r))
    BY <2>2
  <2>6. (CHOOSE r : H(r))[m] = C(m)
    BY <2>3, <2>5
  <2> QED
    BY <1>0, <1>1, <1>4, <2>4, <2>6
<1> HIDE DEF H
<1> QED
  BY <1>0, <1>3, <1>4

\* The tiles of a kind in a hand, and the hands that hold as many of each kind in
\* s as c says and no others.
Held(h, t) == {p \in h : p[1] = t}
HandsOn(B, c, s) ==
  {h \in SUBSET {p \in B : p[1] \in s} : \A t \in s : Cardinality(Held(h, t)) = c[t]}

\* A bag has finitely many hands.
LEMMA HandsFinite ==
  ASSUME NEW B, IsFiniteSet(B), NEW c, NEW s
  PROVE  IsFiniteSet(HandsOn(B, c, s))
<1> DEFINE A == SUBSET B
           H == HandsOn(B, c, s)
<1>1. IsFiniteSet(A)
  BY FS_SUBSET
<1>2. H \subseteq A
  BY DEF HandsOn
<1> HIDE DEF A, H
<1>3. IsFiniteSet(H)
  BY <1>1, <1>2, Part
<1> QED
  BY <1>3 DEF H

\* A kind more: any choice of its tiles goes with any hand of the others.
LEMMA OneKindMore ==
  ASSUME NEW B, IsFiniteSet(B), NEW c, NEW s, NEW t \in s
  PROVE  Cardinality(HandsOn(B, c, s)) =
           Cardinality(kSubset(c[t], Held(B, t))) * Cardinality(HandsOn(B, c, s \ {t}))
<1> DEFINE K == kSubset(c[t], Held(B, t))
           R == HandsOn(B, c, s \ {t})
           H == HandsOn(B, c, s)
           P == K \X R
           f == [p \in P |-> p[1] \cup p[2]]
<1>1. /\ \A a \in K : a \subseteq B /\ Cardinality(a) = c[t] /\ \A p \in a : p[1] = t
      /\ \A a : a \subseteq Held(B, t) /\ Cardinality(a) = c[t] => a \in K
  BY DEF kSubset, Held
<1>2. /\ \A b \in R : /\ b \subseteq B /\ \A p \in b : p[1] \in s /\ p[1] # t
                      /\ \A u \in s \ {t} : Cardinality(Held(b, u)) = c[u]
      /\ \A b : /\ b \subseteq B /\ \A p \in b : p[1] \in s /\ p[1] # t
                /\ \A u \in s \ {t} : Cardinality(Held(b, u)) = c[u]
                => b \in R
  BY DEF HandsOn
<1>3. /\ \A h \in H : /\ h \subseteq B /\ \A p \in h : p[1] \in s
                      /\ \A u \in s : Cardinality(Held(h, u)) = c[u]
      /\ \A h : /\ h \subseteq B /\ \A p \in h : p[1] \in s
                /\ \A u \in s : Cardinality(Held(h, u)) = c[u]
                => h \in H
  BY DEF HandsOn
<1>4. IsFiniteSet(K) /\ IsFiniteSet(R)
  <2>1. IsFiniteSet(Held(B, t))
    <3>1. Held(B, t) \subseteq B
      BY DEF Held
    <3> QED
      BY <3>1, Part
  <2>2. IsFiniteSet(K)
    BY <2>1, ChoicesFacts
  <2>3. IsFiniteSet(R)
    BY HandsFinite
  <2> QED
    BY <2>2, <2>3
<1> HIDE DEF K, R, H
<1>5. IsFiniteSet(P) /\ Cardinality(P) = Cardinality(K) * Cardinality(R)
  BY <1>4, FS_Product
<1>6. ASSUME NEW a \in K, NEW b \in R
      PROVE  /\ Held(a \cup b, t) = a /\ {p \in a \cup b : p[1] # t} = b
             /\ \A u \in s \ {t} : Held(a \cup b, u) = Held(b, u)
  BY <1>1, <1>2 DEF Held
<1>7. ASSUME NEW a \in K, NEW b \in R PROVE a \cup b \in H
  <2>1. a \cup b \subseteq B /\ \A p \in a \cup b : p[1] \in s
    BY <1>1, <1>2
  <2>2. ASSUME NEW u \in s PROVE Cardinality(Held(a \cup b, u)) = c[u]
    <3>1. CASE u = t
      <4>1. Held(a \cup b, t) = a /\ Cardinality(a) = c[t]
        BY <1>1, <1>6
      <4> QED
        BY <3>1, <4>1
    <3>2. CASE u # t
      <4>1. u \in s \ {t}
        BY <3>2
      <4>2. Held(a \cup b, u) = Held(b, u)
        <5>1. (\A p \in a : p[1] = t) /\ u # t
          BY <1>1, <4>1
        <5> QED
          BY <5>1 DEF Held
      <4>3. Cardinality(Held(b, u)) = c[u]
        BY <1>2, <4>1
      <4> QED
        BY <4>2, <4>3
    <3> QED
      BY <3>1, <3>2
  <2> QED
    BY <1>3, <2>1, <2>2
<1>8. f \in [P -> H]
  <2>1. \A p \in P : p[1] \cup p[2] \in H
    BY <1>7
  <2> HIDE DEF P
  <2> QED
    BY <2>1
<1>9. ASSUME NEW p \in P, NEW q \in P, f[p] = f[q] PROVE p = q
  <2>1. /\ p[1] \in K /\ p[2] \in R /\ q[1] \in K /\ q[2] \in R
        /\ p = <<p[1], p[2]>> /\ q = <<q[1], q[2]>>
    OBVIOUS
  <2>2. p[1] \cup p[2] = q[1] \cup q[2]
    BY <1>9
  <2>3. Held(p[1] \cup p[2], t) = p[1] /\ Held(q[1] \cup q[2], t) = q[1]
    BY <1>6, <2>1
  <2>4. {x \in p[1] \cup p[2] : x[1] # t} = p[2] /\ {x \in q[1] \cup q[2] : x[1] # t} = q[2]
    BY <1>6, <2>1
  <2>5. p[1] = q[1] /\ p[2] = q[2]
    BY <2>2, <2>3, <2>4
  <2> QED
    BY <2>1, <2>5
<1>10. ASSUME NEW h \in H PROVE \E p \in P : f[p] = h
  <2> DEFINE a == Held(h, t)
             b == {x \in h : x[1] # t}
  <2>1. /\ h \subseteq B /\ \A p \in h : p[1] \in s
        /\ \A u \in s : Cardinality(Held(h, u)) = c[u]
    BY <1>3
  <2>2. a \in K
    <3>1. a \subseteq Held(B, t) /\ Cardinality(a) = c[t]
      BY <2>1 DEF Held
    <3> QED
      BY <1>1, <3>1
  <2>3. b \in R
    <3>1. b \subseteq B /\ \A p \in b : p[1] \in s /\ p[1] # t
      BY <2>1
    <3>2. \A u \in s \ {t} : Held(b, u) = Held(h, u)
      BY DEF Held
    <3>3. \A u \in s \ {t} : Cardinality(Held(b, u)) = c[u]
      BY <2>1, <3>2
    <3> HIDE DEF b
    <3> QED
      BY <1>2, <3>1, <3>3
  <2>4. a \cup b = h
    BY DEF Held
  <2> HIDE DEF a, b
  <2>5. <<a, b>> \in P /\ f[<<a, b>>] = a \cup b
    BY <2>2, <2>3
  <2> QED
    BY <2>4, <2>5
<1> HIDE DEF P, f
<1>11. Cardinality(H) = Cardinality(P)
  BY ONLY <1>5, <1>8, <1>9, <1>10, SameCount
<1> QED
  BY <1>5, <1>11 DEF H, K, R

\* The bag holds as many of a kind as the distribution says.
LEMMA BagFacts ==
  ASSUME NEW d, HasTiles(d)
  PROVE  /\ IsFiniteSet(Bag(d))
         /\ \A p \in Bag(d) : p[1] \in DOMAIN d /\ p[2] \in Nat /\ p = <<p[1], p[2]>>
         /\ \A t \in DOMAIN d : /\ IsFiniteSet(Held(Bag(d), t))
                                /\ Cardinality(Held(Bag(d), t)) = d[t].count
<1> DEFINE B == Bag(d)
           D == DOMAIN d
           T(t) == {t} \X (1 .. d[t].count)
<1>0. IsFiniteSet(D) /\ \A t \in D : d[t].count \in Nat
  BY DEF HasTiles, IsDistribution
<1>1. B = UNION {T(t) : t \in D}
  BY DEF Bag
<1>2. ASSUME NEW t \in D
      PROVE  IsFiniteSet(T(t)) /\ Cardinality(T(t)) = d[t].count /\ Held(B, t) = T(t)
  <2> DEFINE n == d[t].count
             K == 1 .. n
             f == [i \in K |-> <<t, i>>]
             S == {t} \X K
  <2>1. IsFiniteSet(K) /\ Cardinality(K) = n
    BY <1>0, UpTo
  <2>2. T(t) = S
    OBVIOUS
  <2>3. Held(B, t) = T(t)
    <3>1. \A p \in B : p[1] = t => p \in T(t)
      <4> SUFFICES ASSUME NEW p \in B, p[1] = t PROVE p \in T(t)
        OBVIOUS
      <4>1. PICK u \in D : p \in T(u)
        BY <1>1
      <4>2. u = t
        BY <4>1
      <4> QED
        BY <4>1, <4>2
    <3>2. \A p \in T(t) : p \in B /\ p[1] = t
      <4>1. \A p \in T(t) : p[1] = t
        OBVIOUS
      <4> HIDE DEF T
      <4> QED
        BY <1>1, <4>1
    <3> HIDE DEF T, B
    <3> QED
      BY <3>1, <3>2 DEF Held
  <2> HIDE DEF K
  <2>4. f \in [K -> S] /\ (\A i, j \in K : f[i] = f[j] => i = j) /\ \A y \in S : \E i \in K : f[i] = y
    OBVIOUS
  <2> HIDE DEF f, S
  <2>5. IsFiniteSet(S) /\ Cardinality(S) = Cardinality(K)
    BY ONLY <2>1, <2>4, SameCount
  <2> HIDE DEF T
  <2> QED
    BY <2>1, <2>2, <2>3, <2>5
<1>3. ASSUME NEW p \in B PROVE p[1] \in D /\ p[2] \in Nat /\ p = <<p[1], p[2]>>
  <2>1. PICK t \in D : p \in T(t)
    BY <1>1
  <2> QED
    BY <1>0, <2>1
<1>4. IsFiniteSet(B)
  <2> HIDE DEF T
  <2> DEFINE F == {T(t) : t \in D}
             g == [t \in D |-> T(t)]
  <2>1. F = {g[t] : t \in D}
    OBVIOUS
  <2> HIDE DEF g
  <2>2. IsFiniteSet({g[t] : t \in D})
    BY <1>0, ImageFinite
  <2>3. IsFiniteSet(F) /\ \A x \in F : IsFiniteSet(x)
    BY <1>2, <2>1, <2>2
  <2> HIDE DEF F
  <2>4. IsFiniteSet(UNION F)
    BY <2>3, FS_UNION
  <2> QED
    BY <1>1, <2>4 DEF F
<1> HIDE DEF B, D, T
<1> QED
  BY <1>2, <1>3, <1>4 DEF B, D

\* The product of binomials is the number of hands that hold what c says
\* (probability.rs product).
LEMMA ProductsCountHands ==
  ASSUME NEW d, HasTiles(d), NEW c, IsCounts(d, c)
  PROVE  Product(d, c) = Cardinality(HandsOn(Bag(d), c, DOMAIN d))
<1> DEFINE v == [t \in DOMAIN d |-> Binomial(d[t].count, c[t])]
           S == DOMAIN v
           B == Bag(d)
           One(s) == CHOOSE x \in s : TRUE
           H(g) == g = [s \in SUBSET S |-> IF s = {} THEN 1 ELSE v[One(s)] * g[s \ {One(s)}]]
<1>1. Product(d, c) = (CHOOSE g : H(g))[S]
  BY Zenon DEF Product, FoldFunction, FoldFunctionOnSet, MapThenFoldSet
<1>2. /\ v \in [DOMAIN d -> Int]
      /\ \A t \in DOMAIN d : v[t] = Binomial(d[t].count, c[t]) /\ d[t].count \in Nat /\ c[t] \in Nat
  BY BinomialsAreWhole DEF HasTiles, IsDistribution, IsCounts
<1>3. S = DOMAIN d /\ IsFiniteSet(S)
  BY DEF HasTiles, IsDistribution
<1>4. IsFiniteSet(B) /\ \A t \in S : IsFiniteSet(Held(B, t)) /\ Cardinality(Held(B, t)) = d[t].count
  BY <1>3, BagFacts
<1> HIDE DEF v, S, B
<1>5. \A g : H(g) <=> Multiplies(g, S, v)
  BY DEF Multiplies, OneOf
<1> HIDE DEF H
<1>6. ASSUME NEW g, H(g) PROVE g[S] = Cardinality(HandsOn(B, c, S))
  <2> DEFINE k == [s \in SUBSET S |-> IF g[s] = Cardinality(HandsOn(B, c, s)) THEN 0 ELSE 1]
             X == {0}
  <2>1. Multiplies(g, S, v)
    BY <1>5, <1>6
  <2>2. \A s \in SUBSET S : k[s] \in X <=> g[s] = Cardinality(HandsOn(B, c, s))
    OBVIOUS
  <2> HIDE DEF k, X
  <2>3. k[{}] \in X
    <3>1. g[{}] = 1
      BY <2>1 DEF Multiplies
    <3>2. HandsOn(B, c, {}) = {{}}
      BY DEF HandsOn
    <3>3. Cardinality(HandsOn(B, c, {})) = 1
      BY <3>2, FS_Singleton
    <3> QED
      BY <2>2, <3>1, <3>3
  <2>4. ASSUME NEW s \in SUBSET S, s # {}, k[s \ {OneOf(s)}] \in X PROVE k[s] \in X
    <3> DEFINE t == OneOf(s)
    <3>1. t \in s /\ t \in S
      BY <2>4 DEF OneOf
    <3>2. g[s] = v[t] * g[s \ {t}]
      BY <2>1, <2>4 DEF Multiplies
    <3>3. g[s \ {t}] = Cardinality(HandsOn(B, c, s \ {t}))
      BY <2>2, <2>4
    <3> HIDE DEF t
    <3>4. v[t] = Cardinality(kSubset(c[t], Held(B, t)))
      <4>1. c[t] \in Nat /\ v[t] = Binomial(Cardinality(Held(B, t)), c[t]) /\ IsFiniteSet(Held(B, t))
        BY <1>2, <1>3, <1>4, <3>1
      <4> QED
        BY <4>1, BinomialsChoose
    <3>5. g[s] = Cardinality(HandsOn(B, c, s))
      BY <1>4, <3>1, <3>2, <3>3, <3>4, OneKindMore
    <3> QED
      BY <2>2, <3>5
  <2>5. k[S] \in X
    BY <1>3, <2>3, <2>4, FoldsKeep
  <2> QED
    BY <2>2, <2>5
<1>7. H(CHOOSE g : H(g))
  <2>1. \E g : H(g)
    BY <1>2, <1>3, <1>5, ProductsExist
  <2> QED
    BY <2>1
<1> QED
  BY <1>1, <1>3, <1>6, <1>7 DEF B

\* The union of the sets of s.
AllOf(X, s) == UNION {X[t] : t \in s}

\* The sum of their sizes is the size of the union of sets that share nothing.
LEMMA UnionsCount ==
  ASSUME NEW S, IsFiniteSet(S), NEW X, \A t \in S : IsFiniteSet(X[t]),
         \A t, u \in S : t # u => X[t] \cap X[u] = {},
         NEW v, \A t \in S : v[t] = Cardinality(X[t]), NEW g, Sums(g, S, v)
  PROVE  IsFiniteSet(AllOf(X, S)) /\ g[S] = Cardinality(AllOf(X, S))
<1> DEFINE AddsUp(s) == IsFiniteSet(AllOf(X, s)) /\ g[s] = Cardinality(AllOf(X, s))
           k == [s \in SUBSET S |-> IF AddsUp(s) THEN 0 ELSE 1]
           Z == {0}
<1>1. \A s \in SUBSET S : k[s] \in Z <=> AddsUp(s)
  OBVIOUS
<1> HIDE DEF k, Z
<1>2. k[{}] \in Z
  <2>1. g[{}] = 0
    BY DEF Sums
  <2>2. AllOf(X, {}) = {}
    BY DEF AllOf
  <2>3. IsFiniteSet(AllOf(X, {})) /\ Cardinality(AllOf(X, {})) = 0
    BY <2>2, FS_EmptySet
  <2> QED
    BY <1>1, <2>1, <2>3
<1>3. ASSUME NEW s \in SUBSET S, s # {}, k[s \ {OneOf(s)}] \in Z PROVE k[s] \in Z
  <2> DEFINE t == OneOf(s)
             A == AllOf(X, s \ {t})
             C == X[t]
  <2>1. t \in s /\ t \in S
    BY <1>3 DEF OneOf
  <2>2. g[s] = v[t] + g[s \ {t}]
    BY <1>3 DEF Sums
  <2>3. IsFiniteSet(A) /\ g[s \ {t}] = Cardinality(A)
    BY <1>1, <1>3
  <2>4. IsFiniteSet(C) /\ v[t] = Cardinality(C)
    BY <2>1
  <2> HIDE DEF t
  <2>5. AllOf(X, s) = A \cup C
    BY <2>1 DEF AllOf
  <2>6. A \cap C = {}
    BY <2>1 DEF AllOf
  <2> HIDE DEF A, C
  <2>7. /\ IsFiniteSet(A \cup C)
        /\ Cardinality(A \cup C) = Cardinality(A) + Cardinality(C) - Cardinality(A \cap C)
    BY <2>3, <2>4, FS_Union
  <2>8. Cardinality(A \cap C) = 0 /\ Cardinality(A) \in Nat /\ Cardinality(C) \in Nat
    BY <2>3, <2>4, <2>6, FS_EmptySet, FS_CardinalityType
  <2>9. g[s] = Cardinality(A \cup C)
    BY <2>2, <2>3, <2>4, <2>7, <2>8
  <2> QED
    BY <1>1, <2>5, <2>7, <2>9
<1>4. k[S] \in Z
  BY <1>2, <1>3, FoldsKeep
<1> QED
  BY <1>1, <1>4

\* What a hand lacks of the counts, as places below zero.
Lacks(D, c, h) == {p \in D \X Int : Cardinality(Held(h, p[1])) - c[p[1]] <= p[2] /\ p[2] <= 0 - 1}
\* The hands that hold no more of each tile than c says.
Within(B, D, c) == {h \in SUBSET B : \A t \in D : Cardinality(Held(h, t)) <= c[t]}

\* A hand and what it lacks are the tiles of the word.
LEMMA LacksTheRest ==
  ASSUME NEW D, NEW tiles \in Seq(D), NEW c, \A t \in D : c[t] = Occurrences(tiles, t),
         NEW B, IsFiniteSet(B), \A p \in B : p[1] \in D /\ p[2] \in Nat,
         NEW h \in Within(B, D, c)
  PROVE  /\ IsFiniteSet(h) /\ IsFiniteSet(Lacks(D, c, h))
         /\ Cardinality(h) + Cardinality(Lacks(D, c, h)) = Len(tiles)
<1> DEFINE n == Len(tiles)
           P == DOMAIN tiles
           L == Lacks(D, c, h)
           Q == h \cup L
           g == [q \in Q |-> q[1]]
<1>1. n \in Nat /\ P = 1 .. n /\ tiles \in [P -> D]
  OBVIOUS
<1>2. IsFiniteSet(P) /\ Cardinality(P) = n
  BY <1>1, UpTo
<1>3. h \subseteq B /\ \A t \in D : Cardinality(Held(h, t)) <= c[t]
  BY DEF Within
<1>4. IsFiniteSet(h)
  BY <1>3, Part
<1>5. ASSUME NEW t \in D
      PROVE  /\ IsFiniteSet(Over1(P, tiles, t)) /\ IsFiniteSet(Over1(Q, g, t))
             /\ Cardinality(Over1(P, tiles, t)) = Cardinality(Over1(Q, g, t))
  <2> DEFINE A == Held(h, t)
             m == Cardinality(A)
             low == m - c[t]
             K == low .. (0 - 1)
             C == {t} \X K
             f == [i \in K |-> <<t, i>>]
  <2>1. IsFiniteSet(Over1(P, tiles, t)) /\ Cardinality(Over1(P, tiles, t)) = c[t] /\ c[t] \in Nat
    <3>1. Over1(P, tiles, t) = {i \in DOMAIN tiles : tiles[i] = t}
      BY DEF Over1
    <3>2. Over1(P, tiles, t) \subseteq P
      BY DEF Over1
    <3>3. IsFiniteSet(Over1(P, tiles, t))
      BY <1>2, <3>2, Part
    <3>4. c[t] = Cardinality(Over1(P, tiles, t))
      BY <3>1 DEF Occurrences
    <3> QED
      BY <3>3, <3>4, FS_CardinalityType
  <2>2. IsFiniteSet(A) /\ m \in Nat /\ m <= c[t]
    <3>1. A \subseteq h
      BY DEF Held
    <3>2. IsFiniteSet(A)
      BY <1>4, <3>1, Part
    <3> QED
      BY <1>3, <3>2, FS_CardinalityType
  <2>3. Over1(Q, g, t) = A \cup C
    <3>1. Over1(Q, g, t) = {q \in Q : q[1] = t}
      BY DEF Over1
    <3>2. {q \in h : q[1] = t} = A
      BY DEF Held
    <3>3. {q \in L : q[1] = t} = C
      <4>1. ASSUME NEW q \in L, q[1] = t PROVE q \in C
        <5>1. q = <<q[1], q[2]>> /\ q[2] \in Int /\ low <= q[2] /\ q[2] <= 0 - 1
          BY <4>1 DEF Lacks
        <5> HIDE DEF low
        <5>2. low \in Int
          BY <2>1, <2>2 DEF low
        <5> QED
          BY <4>1, <5>1, <5>2
      <4>2. ASSUME NEW q \in C PROVE q \in L /\ q[1] = t
        <5> HIDE DEF m
        <5>1. low \in Int
          BY <2>1, <2>2
        <5> HIDE DEF low
        <5>2. q[1] = t /\ q[2] \in Int /\ low <= q[2] /\ q[2] <= 0 - 1 /\ q = <<q[1], q[2]>>
          BY <5>1
        <5>3. q \in D \X Int
          BY <5>2
        <5> QED
          BY <5>2, <5>3 DEF Lacks, low, m
      <4> QED
        BY <4>1, <4>2
    <3> HIDE DEF C, L, A, g
    <3> QED
      BY <3>1, <3>2, <3>3
  <2>4. A \cap C = {}
    <3>1. \A q \in A : q[2] \in Nat
      BY <1>3 DEF Held
    <3>2. \A q \in C : q[2] <= 0 - 1
      BY <2>1, <2>2
    <3> HIDE DEF A, C
    <3> QED
      BY <3>1, <3>2
  <2>5. IsFiniteSet(C) /\ Cardinality(C) = c[t] - m
    <3>1. IsFiniteSet(K) /\ Cardinality(K) = c[t] - m
      <4> HIDE DEF m
      <4>1. low \in Int /\ 0 - 1 \in Int /\ low <= 0
        BY <2>1, <2>2
      <4> HIDE DEF low
      <4>2. /\ IsFiniteSet(low .. (0 - 1))
            /\ Cardinality(low .. (0 - 1)) = IF low > 0 - 1 THEN 0 ELSE (0 - 1) - low + 1
        BY <4>1, FS_Interval
      <4>3. Cardinality(K) = 0 - low
        BY <4>1, <4>2
      <4> QED
        BY <2>1, <2>2, <4>2, <4>3 DEF low
    <3> HIDE DEF K
    <3>2. f \in [K -> C] /\ (\A i, j \in K : f[i] = f[j] => i = j) /\ \A y \in C : \E i \in K : f[i] = y
      OBVIOUS
    <3> HIDE DEF f, C
    <3>3. IsFiniteSet(C) /\ Cardinality(C) = Cardinality(K)
      BY ONLY <3>1, <3>2, SameCount
    <3> QED
      BY <3>1, <3>3
  <2> HIDE DEF C, A, Q
  <2>6. /\ IsFiniteSet(A \cup C)
        /\ Cardinality(A \cup C) = Cardinality(A) + Cardinality(C) - Cardinality(A \cap C)
    BY <2>2, <2>5, FS_Union
  <2>7. Cardinality(A \cap C) = 0
    BY <2>4, FS_EmptySet
  <2>8. Cardinality(A \cup C) = c[t]
    BY <2>1, <2>2, <2>5, <2>6, <2>7
  <2> QED
    BY <2>1, <2>3, <2>6, <2>8
<1>6. g \in [Q -> D]
  <2>1. \A q \in Q : q[1] \in D
    BY <1>3 DEF Lacks
  <2> HIDE DEF Q
  <2> QED
    BY <2>1
<1>7. h \cap L = {}
  <2>1. (\A q \in h : q[2] \in Nat) /\ \A q \in L : q[2] <= 0 - 1
    BY <1>3 DEF Lacks
  <2> HIDE DEF L
  <2> QED
    BY <2>1
<1> HIDE DEF P, g
<1>8. SameOver(P, tiles, Q, g, D)
  <2> HIDE DEF Q
  <2> QED
    BY <1>1, <1>5, <1>6 DEF SameOver
<1>9. IsFiniteSet(Q) /\ Cardinality(Q) = n
  <2> HIDE DEF Q, n
  <2>1. IsFiniteSet(Q) /\ Cardinality(Q) = Cardinality(P)
    BY ONLY <1>2, <1>8, SameOverAll
  <2> QED
    BY <1>2, <2>1
<1>10. IsFiniteSet(L)
  <2>1. L \subseteq Q
    OBVIOUS
  <2> HIDE DEF Q, L
  <2> QED
    BY <1>9, <2>1, Part
<1> HIDE DEF L, n
<1>11. Cardinality(h \cup L) = Cardinality(h) + Cardinality(L) - Cardinality(h \cap L)
  BY <1>4, <1>10, FS_Union
<1>12. Cardinality(h \cap L) = 0 /\ Cardinality(h) \in Nat /\ Cardinality(L) \in Nat
  BY <1>4, <1>7, <1>10, FS_EmptySet, FS_CardinalityType
<1> QED
  BY <1>4, <1>9, <1>10, <1>11, <1>12 DEF L, n

\* Sets of none, one and two elements.
LEMMA OneAndTwo ==
  ASSUME NEW S, IsFiniteSet(S)
  PROVE  /\ Cardinality(S) = 0 <=> S = {}
         /\ Cardinality(S) = 1 <=> \E x : S = {x}
         /\ Cardinality(S) = 2 <=> \E x, y : x # y /\ S = {x, y}
<1>0. ASSUME NEW T, IsFiniteSet(T) PROVE Cardinality(T) = 0 <=> T = {}
  BY <1>0, FS_EmptySet
<1>1. ASSUME NEW T, IsFiniteSet(T), NEW k \in Nat, Cardinality(T) = k + 1
      PROVE  \E x \in T : IsFiniteSet(T \ {x}) /\ Cardinality(T \ {x}) = k
  <2>1. T # {}
    BY <1>0, <1>1
  <2>2. PICK x \in T : TRUE
    BY <2>1
  <2>3. IsFiniteSet(T \ {x}) /\ Cardinality(T \ {x}) = Cardinality(T) - 1
    BY <1>1, <2>2, FS_RemoveElement
  <2> QED
    BY <1>1, <2>3
<1>2. ASSUME NEW T, IsFiniteSet(T) PROVE Cardinality(T) = 1 <=> \E x : T = {x}
  <2>1. ASSUME Cardinality(T) = 1 PROVE \E x : T = {x}
    <3>1. 0 \in Nat /\ Cardinality(T) = 0 + 1
      BY <2>1
    <3>2. PICK x \in T : IsFiniteSet(T \ {x}) /\ Cardinality(T \ {x}) = 0
      BY <1>1, <1>2, <3>1
    <3>3. T \ {x} = {}
      BY <1>0, <3>2
    <3> QED
      BY <3>3
  <2> QED
    BY <2>1, FS_Singleton
<1>3. ASSUME Cardinality(S) = 2 PROVE \E x, y : x # y /\ S = {x, y}
  <2>1. 1 \in Nat /\ Cardinality(S) = 1 + 1
    BY <1>3
  <2>2. PICK x \in S : IsFiniteSet(S \ {x}) /\ Cardinality(S \ {x}) = 1
    BY <1>1, <2>1
  <2> DEFINE T == S \ {x}
  <2>3. IsFiniteSet(T) /\ Cardinality(T) = 1
    BY <2>2
  <2> HIDE DEF T
  <2>4. \E y : T = {y}
    BY <1>2, <2>3
  <2>5. PICK y : T = {y}
    BY <2>4
  <2>6. S \ {x} = {y}
    BY <2>5 DEF T
  <2>7. y \in S /\ x # y
    BY <2>6
  <2>8. S = {x, y}
    BY <2>6, <2>7
  <2> QED
    BY <2>7, <2>8
<1>4. ASSUME NEW x, NEW y, x # y, S = {x, y} PROVE Cardinality(S) = 2
  <2>1. IsFiniteSet({x}) /\ Cardinality({x}) = 1
    BY FS_Singleton
  <2>2. y \notin {x} /\ S = {x} \cup {y}
    BY <1>4
  <2>3. Cardinality({x} \cup {y}) = Cardinality({x}) + 1
    BY <2>1, <2>2, FS_AddElement
  <2> QED
    BY <2>1, <2>2, <2>3
<1> QED
  BY <1>0, <1>2, <1>3, <1>4

\* A hand lacks n of a tile; it lacks no tile outside s.
Lacking(c, h, t, n) == Cardinality(Held(h, t)) + n = c[t]
LacksOnly(D, c, h, s) == \A u \in D \ s : Cardinality(Held(h, u)) = c[u]

\* A tile is lacked j times if its count exceeds what is held by j or more.
LEMMA LacksMeans ==
  ASSUME NEW D, NEW c, \A t \in D : c[t] \in Nat, NEW h, IsFiniteSet(h),
         \A t \in D : Cardinality(Held(h, t)) <= c[t]
  PROVE  /\ \A t \in D : Cardinality(Held(h, t)) \in Nat
         /\ \A t \in D : \A j \in Nat : j >= 1 =>
              (<<t, 0 - j>> \in Lacks(D, c, h) <=> Cardinality(Held(h, t)) + j <= c[t])
         /\ \A p \in Lacks(D, c, h) :
              /\ p[1] \in D /\ p = <<p[1], p[2]>> /\ p[2] \in Int /\ p[2] <= 0 - 1
              /\ \A i \in Int : p[2] <= i /\ i <= 0 - 1 => <<p[1], i>> \in Lacks(D, c, h)
<1> DEFINE k(t) == Cardinality(Held(h, t))
<1>1. ASSUME NEW t \in D PROVE k(t) \in Nat
  <2>1. Held(h, t) \subseteq h
    BY DEF Held
  <2> QED
    BY <2>1, Part
<1> HIDE DEF k
<1>2. ASSUME NEW t \in D, NEW i \in Int
      PROVE  <<t, i>> \in Lacks(D, c, h) <=> k(t) - c[t] <= i /\ i <= 0 - 1
  <2>1. <<t, i>> \in D \X Int
    OBVIOUS
  <2> QED
    BY <2>1 DEF Lacks, k
<1>3. ASSUME NEW t \in D, NEW j \in Nat, j >= 1
      PROVE  <<t, 0 - j>> \in Lacks(D, c, h) <=> k(t) + j <= c[t]
  <2>1. 0 - j \in Int /\ k(t) \in Nat /\ c[t] \in Nat
    BY <1>1
  <2> QED
    BY <1>2, <1>3, <2>1
<1>4. ASSUME NEW p \in Lacks(D, c, h)
      PROVE  p[1] \in D /\ p = <<p[1], p[2]>> /\ p[2] \in Int /\ p[2] <= 0 - 1 /\ k(p[1]) - c[p[1]] <= p[2]
  BY DEF Lacks, k
<1>5. ASSUME NEW p \in Lacks(D, c, h), NEW i \in Int, p[2] <= i, i <= 0 - 1
      PROVE  <<p[1], i>> \in Lacks(D, c, h)
  <2> DEFINE t == p[1]
             a == p[2]
  <2>1. t \in D /\ a \in Int /\ k(t) - c[t] <= a /\ k(t) \in Nat /\ c[t] \in Nat /\ a <= i
    BY <1>1, <1>4, <1>5
  <2> HIDE DEF t, a
  <2>2. k(t) - c[t] <= i
    BY <2>1
  <2>3. <<t, i>> \in Lacks(D, c, h)
    BY <1>2, <1>5, <2>1, <2>2
  <2> QED
    BY <2>3 DEF t
<1> QED
  BY <1>1, <1>3, <1>4, <1>5 DEF k

\* What a hand that lacks nothing, one tile or two tiles lacks.
LEMMA LacksFew ==
  ASSUME NEW D, D \subseteq Nat, NEW c, \A t \in D : c[t] \in Nat, NEW h, IsFiniteSet(h),
         \A t \in D : Cardinality(Held(h, t)) <= c[t], IsFiniteSet(Lacks(D, c, h))
  PROVE  /\ Cardinality(Lacks(D, c, h)) = 0 <=> LacksOnly(D, c, h, {})
         /\ Cardinality(Lacks(D, c, h)) = 1 <=>
              \E t \in D : Lacking(c, h, t, 1) /\ LacksOnly(D, c, h, {t})
         /\ Cardinality(Lacks(D, c, h)) = 2 <=>
              \/ \E t \in D : Lacking(c, h, t, 2) /\ LacksOnly(D, c, h, {t})
              \/ \E t, u \in D : /\ t < u /\ Lacking(c, h, t, 1) /\ Lacking(c, h, u, 1)
                                 /\ LacksOnly(D, c, h, {t, u})
<1> DEFINE L == Lacks(D, c, h)
           k(t) == Cardinality(Held(h, t))
           Has(t, j) == <<t, 0 - j>> \in L
<1>1. /\ \A t \in D : k(t) \in Nat /\ c[t] \in Nat /\ k(t) <= c[t]
      /\ \A t \in D : \A j \in Nat : j >= 1 => (Has(t, j) <=> k(t) + j <= c[t])
      /\ \A p \in L :
           /\ p[1] \in D /\ p = <<p[1], p[2]>> /\ p[2] \in Int /\ p[2] <= 0 - 1
           /\ \A i \in Int : p[2] <= i /\ i <= 0 - 1 => <<p[1], i>> \in L
  BY LacksMeans
<1>2. /\ Cardinality(L) = 0 <=> L = {}
      /\ Cardinality(L) = 1 <=> \E x : L = {x}
      /\ Cardinality(L) = 2 <=> \E x, y : x # y /\ L = {x, y}
  BY OneAndTwo
<1>3. /\ \A t, n : Lacking(c, h, t, n) <=> k(t) + n = c[t]
      /\ \A s : LacksOnly(D, c, h, s) <=> \A u \in D \ s : k(u) = c[u]
  BY DEF Lacking, LacksOnly
<1> HIDE DEF L, k
\* Of a tile that is lacked, one is, and two are if more than one is.
<1>4. ASSUME NEW p \in L
      PROVE  /\ p[1] \in D /\ Has(p[1], 1)
             /\ p = <<p[1], 0 - 1>> \/ Has(p[1], 2)
  <2> DEFINE t == p[1]
             a == p[2]
  <2>1. /\ t \in D /\ p = <<t, a>> /\ a \in Int /\ a <= 0 - 1
        /\ \A i \in Int : a <= i /\ i <= 0 - 1 => <<t, i>> \in L
    BY <1>1
  <2> HIDE DEF t, a
  <2>2. <<t, 0 - 1>> \in L
    BY <2>1
  <2>3. a = 0 - 1 \/ a <= 0 - 2
    BY <2>1
  <2>4. a <= 0 - 2 => <<t, 0 - 2>> \in L
    BY <2>1
  <2> QED
    BY <2>1, <2>2, <2>3, <2>4 DEF t
<1>5. /\ \A t \in D : Has(t, 1) <=> k(t) # c[t]
      /\ \A t \in D : Has(t, 1) /\ ~ Has(t, 2) <=> k(t) + 1 = c[t]
      /\ \A t \in D : Has(t, 1) /\ Has(t, 2) /\ ~ Has(t, 3) <=> k(t) + 2 = c[t]
  <2> SUFFICES ASSUME NEW t \in D
               PROVE  /\ Has(t, 1) <=> k(t) # c[t]
                      /\ Has(t, 1) /\ ~ Has(t, 2) <=> k(t) + 1 = c[t]
                      /\ Has(t, 1) /\ Has(t, 2) /\ ~ Has(t, 3) <=> k(t) + 2 = c[t]
    OBVIOUS
  <2>1. /\ Has(t, 1) <=> k(t) + 1 <= c[t]
        /\ Has(t, 2) <=> k(t) + 2 <= c[t]
        /\ Has(t, 3) <=> k(t) + 3 <= c[t]
    <3>1. 1 \in Nat /\ 2 \in Nat /\ 3 \in Nat /\ 1 >= 1 /\ 2 >= 1 /\ 3 >= 1
      OBVIOUS
    <3> HIDE DEF Has
    <3> QED
      BY <1>1, <3>1
  <2> HIDE DEF Has
  <2>2. k(t) \in Nat /\ c[t] \in Nat /\ k(t) <= c[t]
    BY <1>1
  <2> QED
    BY <2>1, <2>2
<1>6. \A p \in L : p[1] \in D /\ p = <<p[1], p[2]>>
  BY <1>1
\* A hand lacks a third of a tile only if it lacks a second, and a second only if
\* it lacks a first.
<1>7. \A t \in D : (Has(t, 2) => Has(t, 1)) /\ (Has(t, 3) => Has(t, 2))
  <2> SUFFICES ASSUME NEW t \in D PROVE (Has(t, 2) => Has(t, 1)) /\ (Has(t, 3) => Has(t, 2))
    OBVIOUS
  <2>1. /\ Has(t, 1) <=> k(t) + 1 <= c[t]
        /\ Has(t, 2) <=> k(t) + 2 <= c[t]
        /\ Has(t, 3) <=> k(t) + 3 <= c[t]
    <3>1. 1 \in Nat /\ 2 \in Nat /\ 3 \in Nat /\ 1 >= 1 /\ 2 >= 1 /\ 3 >= 1
      OBVIOUS
    <3> HIDE DEF Has
    <3> QED
      BY <1>1, <3>1
  <2> HIDE DEF Has
  <2>2. k(t) \in Nat /\ c[t] \in Nat
    BY <1>1
  <2> QED
    BY <2>1, <2>2
<1>8. Cardinality(L) = 0 <=> LacksOnly(D, c, h, {})
  <2>1. L = {} <=> \A u \in D : ~ Has(u, 1)
    BY <1>4
  <2> HIDE DEF Has
  <2> QED
    BY <1>2, <1>3, <1>5, <2>1
<1>9. Cardinality(L) = 1 <=> \E t \in D : Lacking(c, h, t, 1) /\ LacksOnly(D, c, h, {t})
  <2>1. ASSUME NEW x, L = {x} PROVE \E t \in D : Lacking(c, h, t, 1) /\ LacksOnly(D, c, h, {t})
    <3> DEFINE t == x[1]
    <3>1. t \in D /\ Has(t, 1)
      BY <1>4, <2>1
    <3>2. x = <<t, 0 - 1>>
      BY <2>1, <3>1
    <3> HIDE DEF t
    <3>3. ~ Has(t, 2)
      BY <2>1, <3>2
    <3>4. \A u \in D \ {t} : ~ Has(u, 1)
      BY <2>1, <3>2
    <3> HIDE DEF Has
    <3> QED
      BY <1>3, <1>5, <3>1, <3>3, <3>4
  <2>2. ASSUME NEW t \in D, Lacking(c, h, t, 1), LacksOnly(D, c, h, {t})
        PROVE  \E x : L = {x}
    <3>1. Has(t, 1) /\ ~ Has(t, 2) /\ \A u \in D \ {t} : ~ Has(u, 1)
      <4> HIDE DEF Has
      <4> QED
        BY <1>3, <1>5, <2>2
    <3>2. ASSUME NEW p \in L PROVE p = <<t, 0 - 1>>
      BY <1>4, <3>1
    <3>3. L = {<<t, 0 - 1>>}
      BY <3>1, <3>2
    <3> QED
      BY <3>3
  <2> QED
    BY <1>2, <2>1, <2>2
<1>10. ASSUME NEW x, NEW y, x # y, L = {x, y}
       PROVE  \/ \E t \in D : Lacking(c, h, t, 2) /\ LacksOnly(D, c, h, {t})
              \/ \E t, u \in D : /\ t < u /\ Lacking(c, h, t, 1) /\ Lacking(c, h, u, 1)
                                 /\ LacksOnly(D, c, h, {t, u})
  <2> DEFINE t == x[1]
             u == y[1]
  <2>1. /\ t \in D /\ Has(t, 1) /\ (x = <<t, 0 - 1>> \/ Has(t, 2))
        /\ u \in D /\ Has(u, 1) /\ (y = <<u, 0 - 1>> \/ Has(u, 2))
    BY <1>4, <1>10
  <2>2. x = <<t, x[2]>> /\ y = <<u, y[2]>>
    BY <1>6, <1>10
  <2>3. CASE t = u
    <3>1. Has(t, 2)
      BY <1>10, <2>1, <2>3
    <3>2. <<t, 0 - 1>> # <<t, 0 - 2>>
      OBVIOUS
    <3> HIDE DEF t, u
    <3>3. L = {<<t, 0 - 1>>, <<t, 0 - 2>>}
      BY <1>10, <2>1, <3>1, <3>2
    <3>4. ~ Has(t, 3) /\ \A w \in D \ {t} : ~ Has(w, 1)
      BY <3>3
    <3> HIDE DEF Has
    <3>5. Lacking(c, h, t, 2) /\ LacksOnly(D, c, h, {t})
      BY <1>3, <1>5, <2>1, <3>1, <3>4
    <3> QED
      BY <2>1, <3>5
  <2>4. CASE t # u
    <3> HIDE DEF t, u
    <3>1. x = <<t, 0 - 1>> /\ y = <<u, 0 - 1>>
      <4>1. <<t, 0 - 1>> \in {x, y} /\ <<u, 0 - 1>> \in {x, y}
        BY <1>10, <2>1
      <4> QED
        BY <2>2, <2>4, <4>1
    <3>2. /\ ~ Has(t, 2) /\ ~ Has(u, 2)
          /\ \A w \in D \ {t, u} : ~ Has(w, 1)
      BY <1>10, <3>1
    <3> HIDE DEF Has
    <3>3. Lacking(c, h, t, 1) /\ Lacking(c, h, u, 1) /\ LacksOnly(D, c, h, {t, u})
      BY <1>3, <1>5, <2>1, <3>2
    <3>4. t < u \/ u < t
      BY <2>1, <2>4
    <3>5. {t, u} = {u, t}
      OBVIOUS
    <3> QED
      BY <2>1, <3>3, <3>4, <3>5
  <2> QED
    BY <2>3, <2>4
<1>11. ASSUME NEW t \in D, Lacking(c, h, t, 2), LacksOnly(D, c, h, {t})
       PROVE  \E x, y : x # y /\ L = {x, y}
  <2>1. Has(t, 1) /\ Has(t, 2) /\ ~ Has(t, 3) /\ \A u \in D \ {t} : ~ Has(u, 1)
    <3> HIDE DEF Has
    <3> QED
      BY <1>3, <1>5, <1>11
  <2>2. ASSUME NEW p \in L PROVE p = <<t, 0 - 1>> \/ p = <<t, 0 - 2>>
    <3> DEFINE a == p[2]
    <3>1. p[1] = t
      BY <1>4, <2>1
    <3>2. p = <<t, a>> /\ a \in Int /\ a <= 0 - 1 /\ \A i \in Int : a <= i /\ i <= 0 - 1 => <<t, i>> \in L
      BY <1>1, <3>1
    <3> HIDE DEF a
    <3>3. ~ (a <= 0 - 3)
      BY <2>1, <3>2
    <3>4. a = 0 - 1 \/ a = 0 - 2
      BY <3>2, <3>3
    <3> QED
      BY <3>2, <3>4
  <2>3. L = {<<t, 0 - 1>>, <<t, 0 - 2>>}
    BY <2>1, <2>2
  <2>4. <<t, 0 - 1>> # <<t, 0 - 2>>
    OBVIOUS
  <2> QED
    BY <2>3, <2>4
<1>12. ASSUME NEW t \in D, NEW u \in D, t < u, Lacking(c, h, t, 1), Lacking(c, h, u, 1),
              LacksOnly(D, c, h, {t, u})
       PROVE  \E x, y : x # y /\ L = {x, y}
  <2>1. /\ Has(t, 1) /\ ~ Has(t, 2) /\ Has(u, 1) /\ ~ Has(u, 2)
        /\ \A w \in D \ {t, u} : ~ Has(w, 1)
    <3> HIDE DEF Has
    <3> QED
      BY <1>3, <1>5, <1>12
  <2>2. ASSUME NEW p \in L PROVE p = <<t, 0 - 1>> \/ p = <<u, 0 - 1>>
    BY <1>4, <2>1
  <2>3. L = {<<t, 0 - 1>>, <<u, 0 - 1>>}
    BY <2>1, <2>2
  <2>4. t # u
    BY <1>12
  <2>5. <<t, 0 - 1>> # <<u, 0 - 1>>
    BY <2>4
  <2> QED
    BY <2>3, <2>5
<1> HIDE DEF Has
<1> QED
  BY <1>2, <1>8, <1>9, <1>10, <1>11, <1>12 DEF L

\* The hands that lack n of a tile, and no others.
LackingSome(d, c, t, n) ==
  {h \in SUBSET Bag(d) : Lacking(c, h, t, n) /\ LacksOnly(DOMAIN d, c, h, {t})}

\* They are the hands of the counts without n of it.
LEMMA WithoutMeans ==
  ASSUME NEW d, HasTiles(d), NEW c, IsCounts(d, c), NEW t \in DOMAIN d, NEW n \in Nat, n <= c[t]
  PROVE  HandsOn(Bag(d), Without(c, t, n), DOMAIN d) = LackingSome(d, c, t, n)
<1> DEFINE D == DOMAIN d
           B == Bag(d)
           e == Without(c, t, n)
<1>1. \A p \in B : p[1] \in D
  BY BagFacts
<1>2. e[t] = c[t] - n /\ \A u \in D \ {t} : e[u] = c[u]
  BY DEF Without, IsCounts
<1>3. c[t] \in Nat
  BY DEF IsCounts
<1> HIDE DEF B, e
<1>4. ASSUME NEW h \in SUBSET B
      PROVE  (\A u \in D : Cardinality(Held(h, u)) = e[u]) <=>
               Lacking(c, h, t, n) /\ LacksOnly(D, c, h, {t})
  <2> DEFINE k(u) == Cardinality(Held(h, u))
  <2>1. IsFiniteSet(h)
    <3>1. IsFiniteSet(B)
      BY BagFacts DEF B
    <3> QED
      BY <3>1, Part
  <2>2. k(t) \in Nat
    <3>1. Held(h, t) \subseteq h
      BY DEF Held
    <3> QED
      BY <2>1, <3>1, Part
  <2>3. Lacking(c, h, t, n) <=> k(t) = e[t]
    <3> HIDE DEF k
    <3>1. k(t) + n = c[t] <=> k(t) = c[t] - n
      BY <1>3, <2>2
    <3> QED
      BY <1>2, <3>1 DEF Lacking, k
  <2>4. LacksOnly(D, c, h, {t}) <=> \A u \in D \ {t} : k(u) = e[u]
    BY <1>2 DEF LacksOnly
  <2> HIDE DEF k
  <2>5. (\A u \in D : k(u) = e[u]) <=> k(t) = e[t] /\ \A u \in D \ {t} : k(u) = e[u]
    OBVIOUS
  <2> QED
    BY <2>3, <2>4, <2>5 DEF k
<1>5. HandsOn(B, e, D) = {h \in SUBSET B : \A u \in D : Cardinality(Held(h, u)) = e[u]}
  <2>1. {p \in B : p[1] \in D} = B
    BY <1>1
  <2> QED
    BY <2>1 DEF HandsOn
<1>6. HandsOn(B, e, D) = {h \in SUBSET B : Lacking(c, h, t, n) /\ LacksOnly(D, c, h, {t})}
  BY <1>4, <1>5
<1> QED
  BY <1>6 DEF B, e, LackingSome

\* The hands that lack one of each of two tiles, and no others.
LEMMA WithoutBothMeans ==
  ASSUME NEW d, HasTiles(d), NEW c, IsCounts(d, c), NEW t \in DOMAIN d, NEW u \in DOMAIN d, t # u,
         1 <= c[t], 1 <= c[u]
  PROVE  HandsOn(Bag(d), Without(Without(c, t, 1), u, 1), DOMAIN d) =
           {h \in SUBSET Bag(d) : /\ Lacking(c, h, t, 1) /\ Lacking(c, h, u, 1)
                                  /\ LacksOnly(DOMAIN d, c, h, {t, u})}
<1> DEFINE D == DOMAIN d
           B == Bag(d)
           e == Without(c, t, 1)
<1>1. 1 \in Nat /\ IsCounts(d, e)
  <2>1. 1 \in Nat
    OBVIOUS
  <2> QED
    BY <2>1, WithoutIsCounts
<1>2. e[t] = c[t] - 1 /\ \A w \in D \ {t} : e[w] = c[w]
  BY DEF Without, IsCounts
<1>3. c[t] \in Nat /\ c[u] \in Nat /\ u \in D \ {t}
  BY DEF IsCounts
<1> HIDE DEF e
<1>4. 1 <= e[u]
  BY <1>2, <1>3
<1>5. HandsOn(B, Without(e, u, 1), D) =
        {h \in SUBSET B : Lacking(e, h, u, 1) /\ LacksOnly(D, e, h, {u})}
  BY <1>1, <1>4, WithoutMeans DEF LackingSome
<1>6. ASSUME NEW h \in SUBSET B
      PROVE  Lacking(e, h, u, 1) /\ LacksOnly(D, e, h, {u}) <=>
               Lacking(c, h, t, 1) /\ Lacking(c, h, u, 1) /\ LacksOnly(D, c, h, {t, u})
  <2> DEFINE k(w) == Cardinality(Held(h, w))
  <2>1. k(t) \in Nat
    <3>1. IsFiniteSet(B)
      BY BagFacts
    <3>2. Held(h, t) \subseteq B
      BY DEF Held
    <3> HIDE DEF B
    <3> QED
      BY <3>1, <3>2, Part
  <2>2. Lacking(e, h, u, 1) <=> Lacking(c, h, u, 1)
    BY <1>2, <1>3 DEF Lacking
  <2>3. Lacking(c, h, t, 1) <=> k(t) = e[t]
    <3> HIDE DEF k
    <3>1. k(t) + 1 = c[t] <=> k(t) = c[t] - 1
      BY <1>3, <2>1
    <3> QED
      BY <1>2, <3>1 DEF Lacking, k
  <2>4. LacksOnly(D, e, h, {u}) <=> \A w \in D \ {u} : k(w) = e[w]
    BY DEF LacksOnly
  <2>5. LacksOnly(D, c, h, {t, u}) <=> \A w \in D \ {t, u} : k(w) = e[w]
    BY <1>2 DEF LacksOnly
  <2>6. (\A w \in D \ {u} : k(w) = e[w]) <=> k(t) = e[t] /\ \A w \in D \ {t, u} : k(w) = e[w]
    <3> HIDE DEF k
    <3> QED
      BY <1>3
  <2> QED
    BY <2>2, <2>3, <2>4, <2>5, <2>6
<1>7. HandsOn(B, Without(e, u, 1), D) =
        {h \in SUBSET B : Lacking(c, h, t, 1) /\ Lacking(c, h, u, 1) /\ LacksOnly(D, c, h, {t, u})}
  <2> HIDE DEF B
  <2> QED
    BY <1>5, <1>6
<1> QED
  BY <1>7 DEF e

\* The hands short of m tiles of the counts.
Short(d, c, m) == {h \in Within(Bag(d), DOMAIN d, c) : Cardinality(Lacks(DOMAIN d, c, h)) = m}

\* The tiles one blank or two stand for.
Taken(c) == {t \in DOMAIN c : c[t] > 0}
Twos(c)     == {p \in Taken(c) \X Taken(c) : p[1] < p[2]}
WithOne(d, c)  == [t \in Taken(c) |-> HandsOn(Bag(d), Without(c, t, 1), DOMAIN d)]
WithSame(d, c) == [t \in Doubled(c) |-> HandsOn(Bag(d), Without(c, t, 2), DOMAIN d)]
WithBoth(d, c) == [p \in Twos(c) |-> HandsOn(Bag(d), Without(Without(c, p[1], 1), p[2], 1), DOMAIN d)]

\* A hand short of one tile lacks it alone; one short of two lacks two of a kind or
\* one of each of two.
LEMMA ShortMeans ==
  ASSUME NEW d, HasTiles(d), NEW tiles \in Seq(DOMAIN d), NEW c, c = Counts(d, tiles)
  PROVE  /\ Short(d, c, 0) = HandsOn(Bag(d), c, DOMAIN d)
         /\ Short(d, c, 1) = AllOf(WithOne(d, c), Taken(c))
         /\ Short(d, c, 2) = AllOf(WithSame(d, c), Doubled(c)) \cup AllOf(WithBoth(d, c), Twos(c))
<1> DEFINE D == DOMAIN d
           B == Bag(d)
           Only(t, n) == {h \in SUBSET B : Lacking(c, h, t, n) /\ LacksOnly(D, c, h, {t})}
           Pair(t, u) == {h \in SUBSET B : /\ Lacking(c, h, t, 1) /\ Lacking(c, h, u, 1)
                                           /\ LacksOnly(D, c, h, {t, u})}
<1>0. IsCounts(d, c) /\ D \subseteq Nat /\ 1 \in Nat /\ 2 \in Nat
  BY CountsAreCounts DEF HasTiles, IsDistribution
<1>1. /\ DOMAIN c = D /\ \A t \in D : c[t] \in Nat
      /\ \A t \in D : c[t] = Occurrences(tiles, t)
  BY <1>0 DEF IsCounts, Counts
<1>2. IsFiniteSet(B) /\ \A p \in B : p[1] \in D /\ p[2] \in Nat
  BY BagFacts
<1> HIDE DEF D, B
<1>3. ASSUME NEW h \in Within(B, D, c)
      PROVE  /\ Cardinality(Lacks(D, c, h)) = 0 <=> LacksOnly(D, c, h, {})
             /\ Cardinality(Lacks(D, c, h)) = 1 <=>
                  \E t \in D : Lacking(c, h, t, 1) /\ LacksOnly(D, c, h, {t})
             /\ Cardinality(Lacks(D, c, h)) = 2 <=>
                  \/ \E t \in D : Lacking(c, h, t, 2) /\ LacksOnly(D, c, h, {t})
                  \/ \E t, u \in D : /\ t < u /\ Lacking(c, h, t, 1) /\ Lacking(c, h, u, 1)
                                     /\ LacksOnly(D, c, h, {t, u})
  <2>1. IsFiniteSet(h) /\ IsFiniteSet(Lacks(D, c, h))
    <3>1. tiles \in Seq(D)
      BY DEF D
    <3> QED
      BY <1>1, <1>2, <3>1, LacksTheRest
  <2>2. \A t \in D : Cardinality(Held(h, t)) <= c[t]
    BY DEF Within
  <2>3. (\A t \in D : c[t] \in Nat) /\ D \subseteq Nat
    BY <1>0, <1>1
  <2> QED
    BY ONLY <2>1, <2>2, <2>3, LacksFew
<1>4. ASSUME NEW h \in SUBSET B, NEW s,
             LacksOnly(D, c, h, s), \A t \in s \cap D : \E n \in Nat : Lacking(c, h, t, n)
      PROVE  h \in Within(B, D, c)
  <2> SUFFICES ASSUME NEW t \in D PROVE Cardinality(Held(h, t)) <= c[t]
    BY DEF Within
  <2> DEFINE k == Cardinality(Held(h, t))
  <2>1. k \in Nat
    <3>1. Held(h, t) \subseteq B
      BY DEF Held
    <3> QED
      BY <1>2, <3>1, Part
  <2>2. c[t] \in Nat
    BY <1>1
  <2>3. k = c[t] \/ \E n \in Nat : k + n = c[t]
    BY <1>4 DEF LacksOnly, Lacking
  <2> HIDE DEF k
  <2>4. k <= c[t]
    BY <2>1, <2>2, <2>3
  <2> QED
    BY <2>4 DEF k
<1>5. Short(d, c, 0) = HandsOn(B, c, D)
  <2>1. HandsOn(B, c, D) = {h \in SUBSET B : LacksOnly(D, c, h, {})}
    <3>1. {p \in B : p[1] \in D} = B /\ D \ {} = D
      BY <1>2
    <3> QED
      BY <3>1 DEF HandsOn, LacksOnly
  <2>2. ASSUME NEW h \in SUBSET B, LacksOnly(D, c, h, {}) PROVE h \in Within(B, D, c)
    <3> DEFINE s == {}
    <3>1. LacksOnly(D, c, h, s) /\ \A t \in s \cap D : \E n \in Nat : Lacking(c, h, t, n)
      BY <2>2
    <3> HIDE DEF s
    <3> QED
      BY <1>4, <3>1
  <2>3. Within(B, D, c) \subseteq SUBSET B
    BY DEF Within
  <2>4. Short(d, c, 0) = {h \in Within(B, D, c) : Cardinality(Lacks(D, c, h)) = 0}
    BY DEF Short, B, D
  <2> QED
    BY <1>3, <2>1, <2>2, <2>3, <2>4
<1>6. ASSUME NEW t \in D, NEW n \in Nat, NEW h \in SUBSET B, Lacking(c, h, t, n), n >= 1
      PROVE  t \in DOMAIN c /\ n <= c[t] /\ c[t] > 0
  <2>1. c[t] \in Nat
    BY <1>1
  <2>2. Cardinality(Held(h, t)) \in Nat
    <3>1. Held(h, t) \subseteq B
      BY DEF Held
    <3> QED
      BY <1>2, <3>1, Part
  <2>3. n <= c[t]
    BY <1>6, <2>1, <2>2 DEF Lacking
  <2> QED
    BY <1>1, <1>6, <2>1, <2>3
<1>7. ASSUME NEW t \in D, NEW n \in Nat, n <= c[t]
      PROVE  HandsOn(B, Without(c, t, n), D) = Only(t, n)
  <2>1. IsCounts(d, c) /\ t \in DOMAIN d /\ n \in Nat /\ n <= c[t]
    BY <1>0, <1>7 DEF D
  <2>2. HandsOn(Bag(d), Without(c, t, n), DOMAIN d) = LackingSome(d, c, t, n)
    <3> HIDE DEF Only, Pair
    <3> QED
      BY <2>1, WithoutMeans
  <2> QED
    BY <2>2 DEF B, D, LackingSome
<1>8. ASSUME NEW t \in D, NEW u \in D, t # u, 1 <= c[t], 1 <= c[u]
      PROVE  HandsOn(B, Without(Without(c, t, 1), u, 1), D) = Pair(t, u)
  <2>1. IsCounts(d, c) /\ t \in DOMAIN d /\ u \in DOMAIN d /\ t # u /\ 1 <= c[t] /\ 1 <= c[u]
    BY <1>0, <1>8 DEF D
  <2>2. HandsOn(Bag(d), Without(Without(c, t, 1), u, 1), DOMAIN d) =
          {h \in SUBSET Bag(d) : /\ Lacking(c, h, t, 1) /\ Lacking(c, h, u, 1)
                                 /\ LacksOnly(DOMAIN d, c, h, {t, u})}
    BY ONLY HasTiles(d), <2>1, WithoutBothMeans
  <2> QED
    BY <2>2 DEF B, D
<1>9. ASSUME NEW t \in D, NEW n \in Nat, NEW h \in Only(t, n) PROVE h \in Within(B, D, c)
  <2> DEFINE s == {t}
  <2>1. h \in SUBSET B /\ LacksOnly(D, c, h, s) /\ \A u \in s \cap D : \E i \in Nat : Lacking(c, h, u, i)
    OBVIOUS
  <2> HIDE DEF s
  <2> QED
    BY <1>4, <2>1
<1>10. ASSUME NEW t \in D, NEW u \in D, NEW h \in Pair(t, u) PROVE h \in Within(B, D, c)
  <2> DEFINE s == {t, u}
  <2>1. h \in SUBSET B /\ LacksOnly(D, c, h, s) /\ \A w \in s \cap D : Lacking(c, h, w, 1)
    OBVIOUS
  <2> HIDE DEF s
  <2>2. \A w \in s \cap D : \E i \in Nat : Lacking(c, h, w, i)
    BY <1>0, <2>1
  <2> QED
    BY <1>4, <2>1, <2>2
<1>11. /\ \A m : Short(d, c, m) = {h \in Within(B, D, c) : Cardinality(Lacks(D, c, h)) = m}
       /\ Within(B, D, c) \subseteq SUBSET B
  BY DEF Short, Within, B, D
<1>12. /\ \A t \in Taken(c) : t \in D /\ 1 <= c[t]
       /\ \A t \in Doubled(c) : t \in D /\ 2 <= c[t]
       /\ \A p \in Twos(c) : p[1] \in Taken(c) /\ p[2] \in Taken(c) /\ p[1] # p[2] /\ p[1] < p[2]
  <2>1. \A t \in Taken(c) : t \in D /\ 1 <= c[t]
    BY <1>1 DEF Taken
  <2>2. \A t \in Doubled(c) : t \in D /\ 2 <= c[t]
    BY <1>1 DEF Doubled
  <2>3. ASSUME NEW p \in Twos(c)
        PROVE  p[1] \in Taken(c) /\ p[2] \in Taken(c) /\ p[1] # p[2] /\ p[1] < p[2]
    <3>1. p[1] \in Taken(c) /\ p[2] \in Taken(c) /\ p[1] < p[2]
      BY DEF Twos
    <3>2. p[1] \in Nat /\ p[2] \in Nat
      BY <1>0, <2>1, <3>1
    <3> QED
      BY <3>1, <3>2
  <2> QED
    BY <2>1, <2>2, <2>3
<1> HIDE DEF Only, Pair
<1>13. /\ \A t \in Taken(c) : WithOne(d, c)[t] = Only(t, 1)
       /\ \A t \in Doubled(c) : WithSame(d, c)[t] = Only(t, 2)
       /\ \A p \in Twos(c) : WithBoth(d, c)[p] = Pair(p[1], p[2])
  <2>1. \A t \in Taken(c) : WithOne(d, c)[t] = Only(t, 1)
    BY <1>0, <1>7, <1>12 DEF WithOne, B, D
  <2>2. \A t \in Doubled(c) : WithSame(d, c)[t] = Only(t, 2)
    BY <1>0, <1>7, <1>12 DEF WithSame, B, D
  <2>3. \A p \in Twos(c) : WithBoth(d, c)[p] = Pair(p[1], p[2])
    BY <1>8, <1>12 DEF WithBoth, B, D
  <2> QED
    BY <2>1, <2>2, <2>3
<1> USE DEF Only, Pair
<1>14. Short(d, c, 1) = AllOf(WithOne(d, c), Taken(c))
  <2>1. ASSUME NEW h \in Short(d, c, 1) PROVE h \in AllOf(WithOne(d, c), Taken(c))
    <3>1. h \in Within(B, D, c) /\ h \in SUBSET B
      BY <1>11
    <3>2. PICK t \in D : Lacking(c, h, t, 1) /\ LacksOnly(D, c, h, {t})
      BY <1>3, <1>11, <3>1
    <3>3. t \in Taken(c)
      BY <1>0, <1>6, <3>1, <3>2 DEF Taken
    <3>4. h \in Only(t, 1)
      BY <3>1, <3>2
    <3> HIDE DEF Only
    <3> QED
      BY <1>13, <3>3, <3>4 DEF AllOf
  <2>2. ASSUME NEW h \in AllOf(WithOne(d, c), Taken(c)) PROVE h \in Short(d, c, 1)
    <3>1. PICK t \in Taken(c) : h \in Only(t, 1)
      <4> HIDE DEF Only
      <4> QED
        BY <1>13 DEF AllOf
    <3>2. t \in D /\ h \in Within(B, D, c)
      BY <1>0, <1>9, <1>12, <3>1
    <3>3. Cardinality(Lacks(D, c, h)) = 1
      BY <1>3, <3>1, <3>2
    <3> QED
      BY <1>11, <3>2, <3>3
  <2> QED
    BY <2>1, <2>2
<1>15. Short(d, c, 2) = AllOf(WithSame(d, c), Doubled(c)) \cup AllOf(WithBoth(d, c), Twos(c))
  <2>1. ASSUME NEW h \in Short(d, c, 2)
        PROVE  h \in AllOf(WithSame(d, c), Doubled(c)) \cup AllOf(WithBoth(d, c), Twos(c))
    <3>1. h \in Within(B, D, c) /\ h \in SUBSET B /\ Cardinality(Lacks(D, c, h)) = 2
      BY <1>11
    <3>2. CASE \E t \in D : Lacking(c, h, t, 2) /\ LacksOnly(D, c, h, {t})
      <4>1. PICK t \in D : Lacking(c, h, t, 2) /\ LacksOnly(D, c, h, {t})
        BY <3>2
      <4>2. t \in Doubled(c)
        <5>1. t \in DOMAIN c /\ 2 <= c[t] /\ c[t] \in Nat
          BY <1>0, <1>1, <1>6, <3>1, <4>1
        <5> QED
          BY <5>1 DEF Doubled
      <4>3. h \in Only(t, 2)
        BY <3>1, <4>1
      <4> HIDE DEF Only
      <4> QED
        BY <1>13, <4>2, <4>3 DEF AllOf
    <3>3. CASE \E t, u \in D : /\ t < u /\ Lacking(c, h, t, 1) /\ Lacking(c, h, u, 1)
                               /\ LacksOnly(D, c, h, {t, u})
      <4>1. PICK t \in D, u \in D : /\ t < u /\ Lacking(c, h, t, 1) /\ Lacking(c, h, u, 1)
                                    /\ LacksOnly(D, c, h, {t, u})
        BY <3>3
      <4>2. t \in Taken(c) /\ u \in Taken(c)
        BY <1>0, <1>6, <3>1, <4>1 DEF Taken
      <4> DEFINE p == <<t, u>>
      <4>3. p \in Twos(c) /\ p[1] = t /\ p[2] = u
        BY <4>1, <4>2 DEF Twos
      <4> HIDE DEF p
      <4>4. h \in Pair(p[1], p[2])
        BY <3>1, <4>1, <4>3
      <4> HIDE DEF Pair
      <4> QED
        BY <1>13, <4>3, <4>4 DEF AllOf
    <3> QED
      BY <1>3, <3>1, <3>2, <3>3
  <2>2. ASSUME NEW h \in AllOf(WithSame(d, c), Doubled(c)) PROVE h \in Short(d, c, 2)
    <3>1. PICK t \in Doubled(c) : h \in Only(t, 2)
      <4> HIDE DEF Only
      <4> QED
        BY <1>13 DEF AllOf
    <3>2. t \in D /\ h \in Within(B, D, c)
      BY <1>0, <1>9, <1>12, <3>1
    <3>3. Cardinality(Lacks(D, c, h)) = 2
      BY <1>3, <3>1, <3>2
    <3> QED
      BY <1>11, <3>2, <3>3
  <2>3. ASSUME NEW h \in AllOf(WithBoth(d, c), Twos(c)) PROVE h \in Short(d, c, 2)
    <3>1. PICK p \in Twos(c) : h \in Pair(p[1], p[2])
      <4> HIDE DEF Pair
      <4> QED
        BY <1>13 DEF AllOf
    <3>2. p[1] \in D /\ p[2] \in D /\ p[1] < p[2]
      BY <1>12
    <3>3. h \in Within(B, D, c)
      BY <1>10, <3>1, <3>2
    <3>4. Cardinality(Lacks(D, c, h)) = 2
      BY <1>3, <3>1, <3>2, <3>3
    <3> QED
      BY <1>11, <3>3, <3>4
  <2> QED
    BY <2>1, <2>2, <2>3
<1> QED
  BY <1>5, <1>14, <1>15 DEF B, D

\* The hands short of a tile share nothing for two tiles, nor do those short of
\* two tiles.
LEMMA ShortShareNothing ==
  ASSUME NEW d, HasTiles(d), NEW c, IsCounts(d, c)
  PROVE  /\ \A t, u \in Taken(c) : t # u => WithOne(d, c)[t] \cap WithOne(d, c)[u] = {}
         /\ \A t, u \in Doubled(c) : t # u => WithSame(d, c)[t] \cap WithSame(d, c)[u] = {}
         /\ \A p, q \in Twos(c) : p # q => WithBoth(d, c)[p] \cap WithBoth(d, c)[q] = {}
         /\ AllOf(WithSame(d, c), Doubled(c)) \cap AllOf(WithBoth(d, c), Twos(c)) = {}
<1> DEFINE D == DOMAIN d
           k(h, t) == Cardinality(Held(h, t))
<1>1. /\ \A t \in Taken(c) : t \in D /\ 1 <= c[t]
      /\ \A t \in Doubled(c) : t \in D /\ 2 <= c[t]
      /\ \A t \in D : c[t] \in Nat
      /\ 1 \in Nat /\ 2 \in Nat /\ D \subseteq Nat
  BY DEF Taken, Doubled, IsCounts, HasTiles, IsDistribution
<1>2. ASSUME NEW t \in D, NEW n \in Nat, n <= c[t], n >= 1,
             NEW h \in HandsOn(Bag(d), Without(c, t, n), D)
      PROVE  k(h, t) + n = c[t] /\ k(h, t) \in Nat /\ k(h, t) # c[t] /\ \A w \in D \ {t} : k(h, w) = c[w]
  <2>1. h \in LackingSome(d, c, t, n)
    BY <1>2, WithoutMeans
  <2>2. k(h, t) + n = c[t] /\ \A w \in D \ {t} : k(h, w) = c[w]
    BY <2>1 DEF LackingSome, Lacking, LacksOnly
  <2>3. k(h, t) \in Nat
    <3>1. IsFiniteSet(Bag(d))
      BY BagFacts
    <3>2. Held(h, t) \subseteq Bag(d)
      BY <2>1 DEF LackingSome, Held
    <3> QED
      BY <3>1, <3>2, Part
  <2> HIDE DEF k
  <2>4. k(h, t) # c[t]
    BY <1>2, <2>2, <2>3
  <2> QED
    BY <2>2, <2>3, <2>4
<1>3. ASSUME NEW t \in D, NEW u \in D, t # u, 1 <= c[t], 1 <= c[u],
             NEW h \in HandsOn(Bag(d), Without(Without(c, t, 1), u, 1), D)
      PROVE  k(h, t) # c[t] /\ k(h, u) # c[u] /\ \A w \in D \ {t, u} : k(h, w) = c[w]
  <2>1. h \in {l \in SUBSET Bag(d) : /\ Lacking(c, l, t, 1) /\ Lacking(c, l, u, 1)
                                     /\ LacksOnly(D, c, l, {t, u})}
    BY <1>3, WithoutBothMeans
  <2>2. k(h, t) + 1 = c[t] /\ k(h, u) + 1 = c[u] /\ \A w \in D \ {t, u} : k(h, w) = c[w]
    BY <2>1 DEF Lacking, LacksOnly
  <2>3. \A w \in D : k(h, w) \in Nat
    <3>1. IsFiniteSet(Bag(d))
      BY BagFacts
    <3>2. \A w \in D : Held(h, w) \subseteq Bag(d)
      BY <2>1 DEF Held
    <3> QED
      BY <3>1, <3>2, Part
  <2> HIDE DEF k
  <2>4. k(h, t) # c[t] /\ k(h, u) # c[u]
    BY <1>1, <2>2, <2>3
  <2> QED
    BY <2>2, <2>4
<1> HIDE DEF D, k
<1>4. /\ \A t \in Taken(c) : WithOne(d, c)[t] = HandsOn(Bag(d), Without(c, t, 1), D)
      /\ \A t \in Doubled(c) : WithSame(d, c)[t] = HandsOn(Bag(d), Without(c, t, 2), D)
      /\ \A p \in Twos(c) : WithBoth(d, c)[p] = HandsOn(Bag(d), Without(Without(c, p[1], 1), p[2], 1), D)
  BY DEF WithOne, WithSame, WithBoth, D
<1>5. ASSUME NEW t \in Taken(c), NEW h \in WithOne(d, c)[t]
      PROVE  t \in D /\ k(h, t) # c[t] /\ \A w \in D \ {t} : k(h, w) = c[w]
  <2>1. t \in D /\ 1 \in Nat /\ 1 <= c[t] /\ 1 >= 1 /\ h \in HandsOn(Bag(d), Without(c, t, 1), D)
    BY <1>1, <1>4
  <2> QED
    BY <1>2, <2>1
<1>6. ASSUME NEW t \in Doubled(c), NEW h \in WithSame(d, c)[t]
      PROVE  t \in D /\ k(h, t) + 2 = c[t] /\ k(h, t) \in Nat /\ k(h, t) # c[t]
             /\ \A w \in D \ {t} : k(h, w) = c[w]
  <2>1. t \in D /\ 2 \in Nat /\ 2 <= c[t] /\ 2 >= 1 /\ h \in HandsOn(Bag(d), Without(c, t, 2), D)
    BY <1>1, <1>4
  <2> QED
    BY <1>2, <2>1
<1>7. ASSUME NEW p \in Twos(c)
      PROVE  /\ p[1] \in D /\ p[2] \in D /\ p[1] # p[2] /\ p[1] < p[2] /\ p = <<p[1], p[2]>>
             /\ 1 <= c[p[1]] /\ 1 <= c[p[2]] /\ p[1] \in Nat /\ p[2] \in Nat
  <2>1. p[1] \in Taken(c) /\ p[2] \in Taken(c) /\ p[1] < p[2] /\ p = <<p[1], p[2]>>
    BY DEF Twos
  <2>2. p[1] \in Nat /\ p[2] \in Nat
    BY <1>1, <2>1
  <2> QED
    BY <1>1, <2>1, <2>2
<1>8. ASSUME NEW p \in Twos(c), NEW h \in WithBoth(d, c)[p]
      PROVE  k(h, p[1]) # c[p[1]] /\ k(h, p[2]) # c[p[2]] /\ \A w \in D \ {p[1], p[2]} : k(h, w) = c[w]
  <2>1. h \in HandsOn(Bag(d), Without(Without(c, p[1], 1), p[2], 1), D)
    BY <1>4
  <2> QED
    BY <1>3, <1>7, <2>1
<1>9. ASSUME NEW t \in Taken(c), NEW u \in Taken(c), t # u
      PROVE  WithOne(d, c)[t] \cap WithOne(d, c)[u] = {}
  BY <1>5, <1>9
<1>10. ASSUME NEW t \in Doubled(c), NEW u \in Doubled(c), t # u
       PROVE  WithSame(d, c)[t] \cap WithSame(d, c)[u] = {}
  BY <1>6, <1>10
<1>11. ASSUME NEW p \in Twos(c), NEW q \in Twos(c), p # q
       PROVE  WithBoth(d, c)[p] \cap WithBoth(d, c)[q] = {}
  <2> SUFFICES ASSUME NEW h \in WithBoth(d, c)[p], h \in WithBoth(d, c)[q] PROVE FALSE
    OBVIOUS
  <2>1. /\ k(h, p[1]) # c[p[1]] /\ k(h, p[2]) # c[p[2]] /\ \A w \in D \ {p[1], p[2]} : k(h, w) = c[w]
        /\ k(h, q[1]) # c[q[1]] /\ k(h, q[2]) # c[q[2]] /\ \A w \in D \ {q[1], q[2]} : k(h, w) = c[w]
    BY <1>8
  <2>2. /\ p[1] \in {q[1], q[2]} /\ p[2] \in {q[1], q[2]}
        /\ q[1] \in {p[1], p[2]} /\ q[2] \in {p[1], p[2]}
    BY <1>7, <2>1
  <2>3. p[1] < p[2] /\ q[1] < q[2] /\ p[1] \in Nat /\ p[2] \in Nat /\ q[1] \in Nat /\ q[2] \in Nat
    BY <1>7
  <2>4. p[1] = q[1] /\ p[2] = q[2]
    BY <2>2, <2>3
  <2> QED
    BY <1>7, <1>11, <2>4
<1>12. AllOf(WithSame(d, c), Doubled(c)) \cap AllOf(WithBoth(d, c), Twos(c)) = {}
  <2> SUFFICES ASSUME NEW h, h \in AllOf(WithSame(d, c), Doubled(c)), h \in AllOf(WithBoth(d, c), Twos(c))
               PROVE  FALSE
    OBVIOUS
  <2>1. PICK t \in Doubled(c) : h \in WithSame(d, c)[t]
    BY DEF AllOf
  <2>2. PICK p \in Twos(c) : h \in WithBoth(d, c)[p]
    BY DEF AllOf
  <2>3. \A w \in D \ {t} : k(h, w) = c[w]
    BY <1>6, <2>1
  <2>4. k(h, p[1]) # c[p[1]] /\ k(h, p[2]) # c[p[2]]
    BY <1>8, <2>2
  <2> QED
    BY <1>7, <2>3, <2>4
<1> QED
  BY <1>9, <1>10, <1>11, <1>12

\* A lexicon's combinations of a word: the hands of its tiles, those short of one,
\* once for each blank, and those short of two, once for each two blanks
\* (probability.rs word_combinations).
LEMMA CombinationsOfShort ==
  ASSUME NEW d, HasTiles(d), NEW tiles \in Seq(DOMAIN d), NEW c, c = Counts(d, tiles)
  PROVE  WordCombinations(d, c) =
           Cardinality(Short(d, c, 0)) + Binomial(d[BLANK].count, 1) * Cardinality(Short(d, c, 1))
             + Binomial(d[BLANK].count, 2) * Cardinality(Short(d, c, 2))
<1> DEFINE distinct == {t \in DOMAIN c : c[t] > 0}
           doubled == {t \in DOMAIN c : c[t] >= 2}
           twos == {p \in distinct \X distinct : p[1] < p[2]}
           One(s) == CHOOSE x \in s : TRUE
           First(t) == Product(d, Without(c, t, 1))
           Second(t) == Product(d, Without(c, t, 2))
           Both(p) == Product(d, Without(Without(c, p[1], 1), p[2], 1))
           F(g) == g = [s \in SUBSET distinct |->
                          IF s = {} THEN 0 ELSE First(One(s)) + g[s \ {One(s)}]]
           G(g) == g = [s \in SUBSET doubled |->
                          IF s = {} THEN 0 ELSE Second(One(s)) + g[s \ {One(s)}]]
           H(g) == g = [s \in SUBSET twos |->
                          IF s = {} THEN 0 ELSE Both(One(s)) + g[s \ {One(s)}]]
           X == WithOne(d, c)
           Y == WithSame(d, c)
           Z == WithBoth(d, c)
           B == Bag(d)
           D == DOMAIN d
<1>0. IsCounts(d, c)
  BY CountsAreCounts DEF HasTiles
<1>1. WordCombinations(d, c) =
        Product(d, c) + Binomial(d[BLANK].count, 1) * (CHOOSE g : F(g))[distinct]
          + Binomial(d[BLANK].count, 2) * ((CHOOSE g : G(g))[doubled] + (CHOOSE g : H(g))[twos])
  BY Zenon DEF WordCombinations, MapThenSumSet, MapThenFoldSet, Doubled
<1>2. distinct = Taken(c) /\ doubled = Doubled(c) /\ twos = Twos(c)
  BY DEF Taken, Doubled, Twos
<1>3. IsFiniteSet(distinct) /\ IsFiniteSet(doubled) /\ IsFiniteSet(twos)
  <2>1. distinct \subseteq DOMAIN d /\ doubled \subseteq DOMAIN d
    BY <1>0 DEF IsCounts
  <2>2. IsFiniteSet(distinct) /\ IsFiniteSet(doubled)
    BY <2>1, FS_Subset DEF HasTiles, IsDistribution
  <2>3. IsFiniteSet(distinct \X distinct)
    BY <2>2, FS_Product
  <2>4. twos \subseteq distinct \X distinct
    OBVIOUS
  <2> HIDE DEF twos
  <2> QED
    BY <2>2, <2>3, <2>4, FS_Subset
<1>4. ASSUME NEW t \in distinct PROVE First(t) = Cardinality(X[t]) /\ IsFiniteSet(X[t]) /\ First(t) \in Int
  <2>1. t \in DOMAIN d /\ 1 <= c[t] /\ 1 \in Nat
    BY <1>0 DEF IsCounts
  <2>2. IsCounts(d, Without(c, t, 1))
    BY <1>0, <2>1, WithoutIsCounts
  <2>3. First(t) = Cardinality(HandsOn(B, Without(c, t, 1), D)) /\ First(t) \in Int
    BY <2>2, ProductsCountHands, ProductIsWhole
  <2>4. X[t] = HandsOn(B, Without(c, t, 1), D)
    BY <1>2 DEF WithOne
  <2>5. IsFiniteSet(HandsOn(B, Without(c, t, 1), D))
    BY BagFacts, HandsFinite
  <2> QED
    BY <2>3, <2>4, <2>5
<1>5. ASSUME NEW t \in doubled PROVE Second(t) = Cardinality(Y[t]) /\ IsFiniteSet(Y[t]) /\ Second(t) \in Int
  <2>1. t \in DOMAIN d /\ 2 <= c[t] /\ 2 \in Nat
    BY <1>0 DEF IsCounts
  <2>2. IsCounts(d, Without(c, t, 2))
    BY <1>0, <2>1, WithoutIsCounts
  <2>3. Second(t) = Cardinality(HandsOn(B, Without(c, t, 2), D)) /\ Second(t) \in Int
    BY <2>2, ProductsCountHands, ProductIsWhole
  <2>4. Y[t] = HandsOn(B, Without(c, t, 2), D)
    BY <1>2 DEF WithSame
  <2>5. IsFiniteSet(HandsOn(B, Without(c, t, 2), D))
    BY BagFacts, HandsFinite
  <2> QED
    BY <2>3, <2>4, <2>5
<1>6. ASSUME NEW p \in twos PROVE Both(p) = Cardinality(Z[p]) /\ IsFiniteSet(Z[p]) /\ Both(p) \in Int
  <2> DEFINE less == Without(c, p[1], 1)
             e == Without(less, p[2], 1)
  <2>1. /\ p[1] \in DOMAIN d /\ p[2] \in DOMAIN d /\ p[1] # p[2]
        /\ c[p[1]] \in Nat /\ c[p[2]] \in Nat /\ 1 <= c[p[1]] /\ 1 <= c[p[2]] /\ 1 \in Nat
    BY <1>0 DEF IsCounts, HasTiles, IsDistribution
  <2>2. IsCounts(d, less)
    BY <1>0, <2>1, WithoutIsCounts
  <2>3. 1 <= less[p[2]]
    BY <1>0, <2>1 DEF Without, IsCounts
  <2> HIDE DEF less
  <2>4. IsCounts(d, e)
    BY <2>1, <2>2, <2>3, WithoutIsCounts
  <2>5. Both(p) = Product(d, e)
    BY DEF less
  <2>6. Z[p] = HandsOn(B, e, D)
    BY <1>2 DEF WithBoth, less
  <2> HIDE DEF e
  <2>7. Product(d, e) = Cardinality(HandsOn(B, e, D)) /\ Product(d, e) \in Int
    BY <2>4, ProductsCountHands, ProductIsWhole
  <2>8. IsFiniteSet(HandsOn(B, e, D))
    BY BagFacts, HandsFinite
  <2> QED
    BY <2>5, <2>6, <2>7, <2>8
<1>7. /\ \A t, u \in distinct : t # u => X[t] \cap X[u] = {}
      /\ \A t, u \in doubled : t # u => Y[t] \cap Y[u] = {}
      /\ \A p, q \in twos : p # q => Z[p] \cap Z[q] = {}
      /\ AllOf(Y, doubled) \cap AllOf(Z, twos) = {}
  BY <1>0, <1>2, ShortShareNothing
<1>8. /\ Short(d, c, 0) = HandsOn(B, c, D)
      /\ Short(d, c, 1) = AllOf(X, distinct)
      /\ Short(d, c, 2) = AllOf(Y, doubled) \cup AllOf(Z, twos)
  BY <1>2, ShortMeans
<1>9. Product(d, c) = Cardinality(HandsOn(B, c, D))
  BY <1>0, ProductsCountHands
<1> HIDE DEF distinct, doubled, twos, First, Second, Both, X, Y, Z
<1>10. (CHOOSE g : F(g))[distinct] = Cardinality(AllOf(X, distinct))
  <2> DEFINE v == [t \in distinct |-> First(t)]
  <2>1. v \in [distinct -> Int] /\ \A t \in distinct : v[t] = Cardinality(X[t]) /\ IsFiniteSet(X[t])
    BY <1>4
  <2>2. \A s \in SUBSET distinct : s # {} => One(s) = OneOf(s) /\ v[OneOf(s)] = First(One(s))
    BY DEF OneOf
  <2> HIDE DEF v, One
  <2>3. \A g : F(g) <=> Sums(g, distinct, v)
    BY <2>2 DEF Sums
  <2> HIDE DEF F
  <2>4. F(CHOOSE g : F(g))
    BY <1>3, <2>1, <2>3, SumsExist
  <2> DEFINE s == CHOOSE g : F(g)
  <2>5. Sums(s, distinct, v)
    BY <2>3, <2>4
  <2> HIDE DEF s
  <2>6. s[distinct] = Cardinality(AllOf(X, distinct))
    BY <1>3, <1>7, <2>1, <2>5, UnionsCount
  <2> QED
    BY <2>6 DEF s
<1>11. (CHOOSE g : G(g))[doubled] = Cardinality(AllOf(Y, doubled)) /\ IsFiniteSet(AllOf(Y, doubled))
  <2> DEFINE v == [t \in doubled |-> Second(t)]
  <2>1. v \in [doubled -> Int] /\ \A t \in doubled : v[t] = Cardinality(Y[t]) /\ IsFiniteSet(Y[t])
    BY <1>5
  <2>2. \A s \in SUBSET doubled : s # {} => One(s) = OneOf(s) /\ v[OneOf(s)] = Second(One(s))
    BY DEF OneOf
  <2> HIDE DEF v, One
  <2>3. \A g : G(g) <=> Sums(g, doubled, v)
    BY <2>2 DEF Sums
  <2> HIDE DEF G
  <2>4. G(CHOOSE g : G(g))
    BY <1>3, <2>1, <2>3, SumsExist
  <2> DEFINE s == CHOOSE g : G(g)
  <2>5. Sums(s, doubled, v)
    BY <2>3, <2>4
  <2> HIDE DEF s
  <2>6. s[doubled] = Cardinality(AllOf(Y, doubled)) /\ IsFiniteSet(AllOf(Y, doubled))
    BY <1>3, <1>7, <2>1, <2>5, UnionsCount
  <2> QED
    BY <2>6 DEF s
<1>12. (CHOOSE g : H(g))[twos] = Cardinality(AllOf(Z, twos)) /\ IsFiniteSet(AllOf(Z, twos))
  <2> DEFINE v == [t \in twos |-> Both(t)]
  <2>1. v \in [twos -> Int] /\ \A t \in twos : v[t] = Cardinality(Z[t]) /\ IsFiniteSet(Z[t])
    BY <1>6
  <2>2. \A s \in SUBSET twos : s # {} => One(s) = OneOf(s) /\ v[OneOf(s)] = Both(One(s))
    BY DEF OneOf
  <2> HIDE DEF v, One
  <2>3. \A g : H(g) <=> Sums(g, twos, v)
    BY <2>2 DEF Sums
  <2> HIDE DEF H
  <2>4. H(CHOOSE g : H(g))
    BY <1>3, <2>1, <2>3, SumsExist
  <2> DEFINE s == CHOOSE g : H(g)
  <2>5. Sums(s, twos, v)
    BY <2>3, <2>4
  <2> HIDE DEF s
  <2>6. s[twos] = Cardinality(AllOf(Z, twos)) /\ IsFiniteSet(AllOf(Z, twos))
    BY <1>3, <1>7, <2>1, <2>5, UnionsCount
  <2> QED
    BY <2>6 DEF s
<1>13. Cardinality(Short(d, c, 2)) = Cardinality(AllOf(Y, doubled)) + Cardinality(AllOf(Z, twos))
  <2> DEFINE S == AllOf(Y, doubled)
             T == AllOf(Z, twos)
  <2>1. IsFiniteSet(S) /\ IsFiniteSet(T) /\ S \cap T = {}
    BY <1>7, <1>11, <1>12
  <2> HIDE DEF S, T
  <2>2. Cardinality(S \cup T) = Cardinality(S) + Cardinality(T) - Cardinality(S \cap T)
    BY <2>1, FS_Union
  <2>3. Cardinality(S \cap T) = 0 /\ Cardinality(S) \in Nat /\ Cardinality(T) \in Nat
    BY <2>1, FS_EmptySet, FS_CardinalityType
  <2>4. Cardinality(S \cup T) = Cardinality(S) + Cardinality(T)
    BY <2>2, <2>3
  <2> QED
    BY <1>8, <2>4 DEF S, T
<1> HIDE DEF F, G, H
<1> QED
  BY <1>1, <1>8, <1>9, <1>10, <1>11, <1>12, <1>13

\* The hands drawn for a word with m blanks.
DrawsWith(d, c, n, m) ==
  {h \in SUBSET Bag(d) :
     /\ Cardinality(h) = n /\ Cardinality(Held(h, BLANK)) = m
     /\ \A t \in DOMAIN d \ {BLANK} : Cardinality(Held(h, t)) <= c[t]}

\* Each is m blanks and a hand short of m tiles.
LEMMA DrawsWithMeans ==
  ASSUME NEW d, HasTiles(d), NEW tiles \in Seq(DOMAIN d), NEW c, c = Counts(d, tiles),
         c[BLANK] = 0, NEW m \in Nat
  PROVE  /\ IsFiniteSet(DrawsWith(d, c, Len(tiles), m))
         /\ Cardinality(DrawsWith(d, c, Len(tiles), m)) =
              Binomial(d[BLANK].count, m) * Cardinality(Short(d, c, m))
<1> DEFINE D == DOMAIN d
           B == Bag(d)
           n == Len(tiles)
           K == kSubset(m, Held(B, BLANK))
           R == Short(d, c, m)
           H == DrawsWith(d, c, n, m)
           P == K \X R
           f == [p \in P |-> p[1] \cup p[2]]
<1>0. IsCounts(d, c) /\ n \in Nat /\ BLANK \in D
  BY CountsAreCounts DEF HasTiles
<1>1. \A t \in D : c[t] \in Nat /\ c[t] = Occurrences(tiles, t)
  BY <1>0 DEF IsCounts, Counts
<1>2. /\ IsFiniteSet(B) /\ \A p \in B : p[1] \in D /\ p[2] \in Nat
      /\ IsFiniteSet(Held(B, BLANK)) /\ Cardinality(Held(B, BLANK)) = d[BLANK].count
  BY <1>0, BagFacts
<1>3. \A h \in Within(B, D, c) : /\ IsFiniteSet(h) /\ Cardinality(h) \in Nat
                                 /\ (Cardinality(Lacks(D, c, h)) = m <=> Cardinality(h) + m = n)
  <2> SUFFICES ASSUME NEW h \in Within(B, D, c)
               PROVE  /\ IsFiniteSet(h) /\ Cardinality(h) \in Nat
                      /\ (Cardinality(Lacks(D, c, h)) = m <=> Cardinality(h) + m = n)
    OBVIOUS
  <2> DEFINE L == Lacks(D, c, h)
  <2>1. IsFiniteSet(h) /\ IsFiniteSet(L) /\ Cardinality(h) + Cardinality(L) = n
    BY <1>1, <1>2, LacksTheRest
  <2> HIDE DEF L, n
  <2>2. Cardinality(h) \in Nat /\ Cardinality(L) \in Nat
    BY <2>1, FS_CardinalityType
  <2>3. Cardinality(L) = m <=> Cardinality(h) + m = n
    BY <2>1, <2>2
  <2> QED
    BY <2>1, <2>2, <2>3 DEF L
<1>4. /\ \A h \in R : h \in Within(B, D, c) /\ Cardinality(h) + m = n
      /\ \A h \in Within(B, D, c) : Cardinality(h) + m = n => h \in R
  BY <1>3 DEF Short
<1>5. /\ \A a \in K : a \subseteq B /\ IsFiniteSet(a) /\ Cardinality(a) = m /\ \A p \in a : p[1] = BLANK
      /\ \A a : a \subseteq Held(B, BLANK) /\ Cardinality(a) = m => a \in K
  <2>1. /\ \A a \in K : a \subseteq B /\ Cardinality(a) = m /\ \A p \in a : p[1] = BLANK
        /\ \A a : a \subseteq Held(B, BLANK) /\ Cardinality(a) = m => a \in K
    BY DEF kSubset, Held
  <2> HIDE DEF K
  <2>2. \A a \in K : IsFiniteSet(a)
    BY <1>2, <2>1, Part
  <2> QED
    BY <2>1, <2>2
<1>6. /\ \A h \in H : /\ h \subseteq B /\ Cardinality(h) = n /\ Cardinality(Held(h, BLANK)) = m
                      /\ \A t \in D \ {BLANK} : Cardinality(Held(h, t)) <= c[t]
      /\ \A h : /\ h \subseteq B /\ Cardinality(h) = n /\ Cardinality(Held(h, BLANK)) = m
                /\ \A t \in D \ {BLANK} : Cardinality(Held(h, t)) <= c[t]
                => h \in H
  BY DEF DrawsWith
<1>7. /\ \A h \in Within(B, D, c) : h \subseteq B /\ \A t \in D : Cardinality(Held(h, t)) <= c[t]
      /\ \A h : h \subseteq B /\ (\A t \in D : Cardinality(Held(h, t)) <= c[t]) => h \in Within(B, D, c)
  BY DEF Within
<1>8. IsFiniteSet(K) /\ Cardinality(K) = Binomial(d[BLANK].count, m)
  BY <1>2, ChoicesFacts, BinomialsChoose
<1>9. IsFiniteSet(R)
  <2> DEFINE A == SUBSET B
  <2>1. IsFiniteSet(A)
    BY <1>2, FS_SUBSET
  <2>2. R \subseteq A
    BY <1>4, <1>7
  <2> HIDE DEF A, R
  <2> QED
    BY <2>1, <2>2, Part
<1> HIDE DEF K, R, H, B, D, n
<1>10. IsFiniteSet(P) /\ Cardinality(P) = Cardinality(K) * Cardinality(R)
  BY <1>8, <1>9, FS_Product
<1>11. ASSUME NEW h \in R PROVE h \subseteq B /\ IsFiniteSet(h) /\ \A p \in h : p[1] # BLANK
  <2>1. h \in Within(B, D, c) /\ h \subseteq B /\ IsFiniteSet(h)
    BY <1>3, <1>4, <1>7
  <2>2. Cardinality(Held(h, BLANK)) <= 0
    BY <1>0, <1>7, <2>1
  <2>3. IsFiniteSet(Held(h, BLANK))
    <3>1. Held(h, BLANK) \subseteq h
      BY DEF Held
    <3> QED
      BY <2>1, <3>1, Part
  <2>4. Held(h, BLANK) = {}
    <3>1. Cardinality(Held(h, BLANK)) \in Nat
      BY <2>3, FS_CardinalityType
    <3>2. Cardinality(Held(h, BLANK)) = 0
      BY <2>2, <3>1
    <3> QED
      BY <2>3, <3>2, FS_EmptySet
  <2> QED
    BY <2>1, <2>4 DEF Held
<1>12. ASSUME NEW a \in K, NEW b \in R
       PROVE  /\ Held(a \cup b, BLANK) = a /\ {p \in a \cup b : p[1] # BLANK} = b
              /\ \A t \in D \ {BLANK} : Held(a \cup b, t) = Held(b, t)
              /\ a \cap b = {}
  BY <1>5, <1>11 DEF Held
<1>13. ASSUME NEW a \in K, NEW b \in R PROVE a \cup b \in H
  <2>1. a \cup b \subseteq B /\ IsFiniteSet(a) /\ IsFiniteSet(b) /\ Cardinality(a) = m
    BY <1>5, <1>11
  <2>2. Cardinality(a \cup b) = n
    <3>1. Cardinality(a \cup b) = Cardinality(a) + Cardinality(b) - Cardinality(a \cap b)
      BY <2>1, FS_Union
    <3>2. Cardinality(a \cap b) = 0
      BY <1>12, FS_EmptySet
    <3>3. Cardinality(b) + m = n /\ Cardinality(b) \in Nat
      BY <1>4, <2>1, FS_CardinalityType
    <3> QED
      BY <2>1, <3>1, <3>2, <3>3
  <2>3. Cardinality(Held(a \cup b, BLANK)) = m
    BY <1>12, <2>1
  <2>4. ASSUME NEW t \in D \ {BLANK} PROVE Cardinality(Held(a \cup b, t)) <= c[t]
    <3>1. Held(a \cup b, t) = Held(b, t)
      <4>1. (\A p \in a : p[1] = BLANK) /\ t # BLANK
        BY <1>5
      <4> QED
        BY <4>1 DEF Held
    <3>2. b \in Within(B, D, c)
      BY <1>4
    <3>3. Cardinality(Held(b, t)) <= c[t]
      BY <1>7, <3>2
    <3> QED
      BY <3>1, <3>3
  <2> QED
    BY <1>6, <2>1, <2>2, <2>3, <2>4
<1>14. f \in [P -> H]
  <2>1. \A p \in P : p[1] \cup p[2] \in H
    BY <1>13
  <2> HIDE DEF P
  <2> QED
    BY <2>1
<1>15. ASSUME NEW p \in P, NEW q \in P, f[p] = f[q] PROVE p = q
  <2>1. /\ p[1] \in K /\ p[2] \in R /\ q[1] \in K /\ q[2] \in R
        /\ p = <<p[1], p[2]>> /\ q = <<q[1], q[2]>>
    OBVIOUS
  <2>2. p[1] \cup p[2] = q[1] \cup q[2]
    BY <1>15
  <2>3. Held(p[1] \cup p[2], BLANK) = p[1] /\ Held(q[1] \cup q[2], BLANK) = q[1]
    BY <1>12, <2>1
  <2>4. {x \in p[1] \cup p[2] : x[1] # BLANK} = p[2] /\ {x \in q[1] \cup q[2] : x[1] # BLANK} = q[2]
    <3>1. /\ (\A x \in p[1] : x[1] = BLANK) /\ \A x \in p[2] : x[1] # BLANK
          /\ (\A x \in q[1] : x[1] = BLANK) /\ \A x \in q[2] : x[1] # BLANK
      BY <1>5, <1>11, <2>1
    <3> HIDE DEF P
    <3>2. {x \in p[1] \cup p[2] : x[1] # BLANK} = p[2]
      BY <3>1
    <3>3. {x \in q[1] \cup q[2] : x[1] # BLANK} = q[2]
      BY <3>1
    <3> QED
      BY <3>2, <3>3
  <2>5. p[1] = q[1] /\ p[2] = q[2]
    BY <2>2, <2>3, <2>4
  <2> QED
    BY <2>1, <2>5
<1>16. ASSUME NEW h \in H PROVE \E p \in P : f[p] = h
  <2> DEFINE a == Held(h, BLANK)
             b == {x \in h : x[1] # BLANK}
  <2>1. /\ h \subseteq B /\ Cardinality(h) = n /\ Cardinality(a) = m
        /\ \A t \in D \ {BLANK} : Cardinality(Held(h, t)) <= c[t]
    BY <1>6
  <2>2. a \in K
    <3>1. a \subseteq Held(B, BLANK)
      BY <2>1 DEF Held
    <3> HIDE DEF a
    <3> QED
      BY <1>5, <2>1, <3>1
  <2>3. a \cup b = h /\ a \cap b = {} /\ b \subseteq B /\ a \subseteq B
    BY <2>1 DEF Held
  <2>4. /\ Held(b, BLANK) = {}
        /\ \A t \in D \ {BLANK} : Held(b, t) = Held(h, t)
    BY DEF Held
  <2> HIDE DEF a, b
  <2>5. b \in Within(B, D, c)
    <3>1. ASSUME NEW t \in D PROVE Cardinality(Held(b, t)) <= c[t]
      <4>1. CASE t = BLANK
        <5>1. Cardinality(Held(b, t)) = 0
          BY <2>4, <4>1, FS_EmptySet
        <5> QED
          BY <4>1, <5>1
      <4>2. CASE t # BLANK
        <5>1. Held(b, t) = Held(h, t) /\ Cardinality(Held(h, t)) <= c[t]
          BY <2>1, <2>4, <4>2
        <5> QED
          BY <5>1
      <4> QED
        BY <4>1, <4>2
    <3> QED
      BY <1>7, <2>3, <3>1
  <2>6. Cardinality(b) + m = n
    <3>1. IsFiniteSet(a) /\ IsFiniteSet(b)
      BY <1>2, <2>3, Part
    <3>2. Cardinality(a \cup b) = Cardinality(a) + Cardinality(b) - Cardinality(a \cap b)
      BY <3>1, FS_Union
    <3>3. Cardinality(a \cap b) = 0 /\ Cardinality(b) \in Nat
      BY <2>3, <3>1, FS_EmptySet, FS_CardinalityType
    <3>4. Cardinality(a \cup b) = n /\ Cardinality(a) = m
      BY <2>1, <2>3
    <3> QED
      BY <1>0, <3>2, <3>3, <3>4
  <2>7. b \in R
    BY <1>4, <2>5, <2>6
  <2>8. <<a, b>> \in P /\ f[<<a, b>>] = a \cup b
    BY <2>2, <2>7
  <2> QED
    BY <2>3, <2>8
<1> HIDE DEF P, f
<1>17. IsFiniteSet(H) /\ Cardinality(H) = Cardinality(P)
  BY ONLY <1>10, <1>14, <1>15, <1>16, SameCount
<1>18. Cardinality(H) = Binomial(d[BLANK].count, m) * Cardinality(R)
  BY <1>8, <1>10, <1>17
<1> QED
  BY <1>17, <1>18 DEF H, R, n

\* The draws of a word are those with no, with one and with two blanks.
LEMMA DrawsMeans ==
  ASSUME NEW d, HasTiles(d), NEW tiles \in Seq(DOMAIN d), NEW c, c = Counts(d, tiles)
  PROVE  Draws(d, tiles) = DrawsWith(d, c, Len(tiles), 0) \cup DrawsWith(d, c, Len(tiles), 1)
                             \cup DrawsWith(d, c, Len(tiles), 2)
<1> DEFINE B == Bag(d)
           n == Len(tiles)
           D == DOMAIN d
           have(h, t) == Cardinality({p \in h : p[1] = t})
<1>1. Draws(d, tiles) =
        {h \in kSubset(n, B) : /\ have(h, BLANK) <= 2
                               /\ \A t \in D \ {BLANK} : have(h, t) <= Occurrences(tiles, t)}
  BY Zenon DEF Draws
<1>2. \A t \in D : Occurrences(tiles, t) = c[t]
  BY DEF Counts
<1>3. ASSUME NEW h \in SUBSET B
      PROVE  have(h, BLANK) <= 2 <=> have(h, BLANK) = 0 \/ have(h, BLANK) = 1 \/ have(h, BLANK) = 2
  <2> DEFINE k == have(h, BLANK)
  <2>1. k \in Nat
    <3> DEFINE A == {p \in h : p[1] = BLANK}
    <3>1. IsFiniteSet(B) /\ A \subseteq B
      BY BagFacts
    <3> HIDE DEF A, B
    <3>2. Cardinality(A) \in Nat
      BY <3>1, Part
    <3> QED
      BY <3>2 DEF A
  <2> HIDE DEF k
  <2>2. k <= 2 <=> k = 0 \/ k = 1 \/ k = 2
    BY <2>1
  <2> QED
    BY <2>2 DEF k
<1>4. \A m : DrawsWith(d, c, n, m) =
        {h \in SUBSET B : /\ Cardinality(h) = n /\ have(h, BLANK) = m
                          /\ \A t \in D \ {BLANK} : have(h, t) <= c[t]}
  BY Zenon DEF DrawsWith, Held
<1>5. kSubset(n, B) = {h \in SUBSET B : Cardinality(h) = n}
  BY DEF kSubset
<1> HIDE DEF B, n, D, have
<1>6. Draws(d, tiles) =
        {h \in SUBSET B : /\ Cardinality(h) = n
                          /\ have(h, BLANK) = 0 \/ have(h, BLANK) = 1 \/ have(h, BLANK) = 2
                          /\ \A t \in D \ {BLANK} : have(h, t) <= c[t]}
  BY <1>1, <1>2, <1>3, <1>5
<1>7. Draws(d, tiles) = DrawsWith(d, c, n, 0) \cup DrawsWith(d, c, n, 1) \cup DrawsWith(d, c, n, 2)
  BY <1>4, <1>6
<1> QED
  BY <1>7 DEF n

\* The combinations of a word without blanks are the draws that spell it.
LEMMA CombinationsCountDraws ==
  ASSUME NEW d, HasTiles(d), NEW tiles \in Seq(DOMAIN d),
         \A i \in DOMAIN tiles : tiles[i] # BLANK
  PROVE  WordCombinations(d, Counts(d, tiles)) = Cardinality(Draws(d, tiles))
<1> DEFINE c == Counts(d, tiles)
           W(m) == DrawsWith(d, c, Len(tiles), m)
           s(m) == Binomial(d[BLANK].count, m) * Cardinality(Short(d, c, m))
<1>1. c[BLANK] = 0
  <2>1. BLANK \in DOMAIN d
    BY DEF HasTiles
  <2>2. {i \in DOMAIN tiles : tiles[i] = BLANK} = {}
    OBVIOUS
  <2>3. c[BLANK] = Cardinality({i \in DOMAIN tiles : tiles[i] = BLANK})
    BY <2>1 DEF Counts, Occurrences
  <2> QED
    BY <2>2, <2>3, FS_EmptySet
<1>2. WordCombinations(d, c) =
        Cardinality(Short(d, c, 0)) + Binomial(d[BLANK].count, 1) * Cardinality(Short(d, c, 1))
          + Binomial(d[BLANK].count, 2) * Cardinality(Short(d, c, 2))
  BY CombinationsOfShort
<1>3. Draws(d, tiles) = W(0) \cup W(1) \cup W(2)
  BY DrawsMeans
<1>4. ASSUME NEW m \in Nat PROVE IsFiniteSet(W(m)) /\ Cardinality(W(m)) = s(m)
  BY <1>1, DrawsWithMeans
<1>5. Binomial(d[BLANK].count, 0) = 1
  <2> DEFINE S == Held(Bag(d), BLANK)
  <2>1. IsFiniteSet(S) /\ Cardinality(S) = d[BLANK].count
    BY BagFacts DEF HasTiles
  <2> HIDE DEF S
  <2>2. Binomial(Cardinality(S), 0) = Cardinality(kSubset(0, S))
    BY <2>1, BinomialsChoose
  <2>3. kSubset(0, S) = {{}}
    <3>1. \A A \in SUBSET S : Cardinality(A) = 0 <=> A = {}
      BY <2>1, Part, FS_EmptySet
    <3>2. {} \subseteq S
      OBVIOUS
    <3> QED
      BY <3>1, <3>2 DEF kSubset
  <2>4. Cardinality(kSubset(0, S)) = 1
    BY <2>3, FS_Singleton
  <2> QED
    BY <2>1, <2>2, <2>4
<1>6. \A i, j : i # j => W(i) \cap W(j) = {}
  BY DEF DrawsWith
<1> HIDE DEF c, W
<1>7. /\ IsFiniteSet(W(0)) /\ IsFiniteSet(W(1)) /\ IsFiniteSet(W(2))
      /\ Cardinality(W(0)) = s(0) /\ Cardinality(W(1)) = s(1) /\ Cardinality(W(2)) = s(2)
  BY <1>4
<1>8. Cardinality(W(0) \cup W(1) \cup W(2)) = Cardinality(W(0)) + Cardinality(W(1)) + Cardinality(W(2))
  <2> DEFINE A == W(0)
             B == W(1)
             C == W(2)
  <2>1. IsFiniteSet(A) /\ IsFiniteSet(B) /\ IsFiniteSet(C)
    BY <1>7
  <2>2. A \cap B = {} /\ A \cap C = {} /\ B \cap C = {}
    BY <1>6
  <2> HIDE DEF A, B, C
  <2>3. /\ IsFiniteSet(A \cup B)
        /\ Cardinality(A \cup B) = Cardinality(A) + Cardinality(B) - Cardinality(A \cap B)
    BY <2>1, FS_Union
  <2>4. Cardinality((A \cup B) \cup C) =
          Cardinality(A \cup B) + Cardinality(C) - Cardinality((A \cup B) \cap C)
    BY <2>1, <2>3, FS_Union
  <2>5. A \cap B = {} /\ (A \cup B) \cap C = {}
    BY <2>2
  <2>6. /\ Cardinality(A \cap B) = 0 /\ Cardinality((A \cup B) \cap C) = 0
        /\ Cardinality(A) \in Nat /\ Cardinality(B) \in Nat /\ Cardinality(C) \in Nat
    BY <2>1, <2>5, FS_EmptySet, FS_CardinalityType
  <2>7. Cardinality((A \cup B) \cup C) = Cardinality(A) + Cardinality(B) + Cardinality(C)
    BY <2>3, <2>4, <2>6
  <2> QED
    BY <2>7 DEF A, B, C
<1>9. s(0) = Cardinality(Short(d, c, 0))
  <2>1. Cardinality(W(0)) \in Nat
    BY <1>7, FS_CardinalityType
  <2>2. IsFiniteSet(Short(d, c, 0))
    <3>1. IsFiniteSet(Bag(d))
      BY BagFacts
    <3> DEFINE A == SUBSET Bag(d)
               T == Short(d, c, 0)
    <3>2. IsFiniteSet(A) /\ T \subseteq A
      BY <3>1, FS_SUBSET DEF Short, Within
    <3> HIDE DEF A, T
    <3>3. IsFiniteSet(T)
      BY <3>2, Part
    <3> QED
      BY <3>3 DEF T
  <2>3. Cardinality(Short(d, c, 0)) \in Nat
    BY <2>2, FS_CardinalityType
  <2> QED
    BY <1>5, <2>3
<1>10. WordCombinations(d, c) = s(0) + s(1) + s(2)
  BY <1>2, <1>9
<1> HIDE DEF s
<1>11. WordCombinations(d, c) = Cardinality(Draws(d, tiles))
  BY <1>3, <1>7, <1>8, <1>10
<1> QED
  BY <1>11 DEF c

\* A lexicon's combinations are the draws that spell its words.
LEMMA LexiconCombinations ==
  ASSUME NEW d, HasTiles(d), NEW raw, IsWords(d, raw)
  PROVE  CombinationsAreDraws(BuildLexicon(d, raw))
<1> DEFINE index == BuildLexicon(d, raw)
           w == WordsOf(raw)
           s == ByTiles(raw)
           n == Cardinality(raw)
<1>1. WordsIn(index, d, w, AlphagramsOf(raw), n)
  BY WordsAreIn
<1>2. Listed(w, s, n, raw, d)
  BY WordsListed DEF IsWords, HasTiles
<1>3. \A i \in DOMAIN w : index.entries[i].combinations = WordCombinations(d, Counts(d, w[i]))
  BY LexiconFields
<1> HIDE DEF index, w, s, n
<1>4. ASSUME NEW i \in EntryIds(index)
      PROVE  index.entries[i].combinations = Cardinality(Draws(index.distribution, TilesOf(index, i)))
  <2>1. i \in DOMAIN w /\ i \in 1 .. n /\ index.distribution = d /\ TilesOf(index, i) = w[i] /\ w[i] \in Seq(DOMAIN d)
    BY <1>1 DEF WordsIn
  <2>2. \A j \in DOMAIN w[i] : w[i][j] # BLANK
    <3>1. s[i] \in raw /\ w[i] = s[i].tiles
      BY <1>2, <2>1 DEF Listed
    <3> QED
      BY <3>1 DEF IsWords
  <2>3. WordCombinations(d, Counts(d, w[i])) = Cardinality(Draws(d, w[i]))
    BY <2>1, <2>2, CombinationsCountDraws
  <2> QED
    BY <1>3, <2>1, <2>3
<1>5. CombinationsAreDraws(index)
  BY <1>4 DEF CombinationsAreDraws
<1> QED
  BY <1>5 DEF index

-----------------------------------------------------------------------------
\* Whatever the words, the index of a lexicon ranks them without gap and twice
\* nothing, ties sharing the ranks of all of them, counts for each word the draws
\* that spell it and as anagrams the words of the same tiles, has the hooks of a
\* word as the inner hooks of others, and numbers the words alphabetically
\* (index.rs build and rank, probability.rs).
THEOREM LexiconIndexIsSound ==
  ASSUME NEW d, HasTiles(d), NEW raw, IsWords(d, raw)
  PROVE  IndexIsSound(BuildLexicon(d, raw))
<1> DEFINE index == BuildLexicon(d, raw)
<1>1. WordsIn(index, d, WordsOf(raw), AlphagramsOf(raw), Cardinality(raw))
  BY WordsAreIn
<1>2. RanksAreSound(index) /\ AnagramsAreCounted(index) /\ HooksAreInner(index)
  BY LexiconRanks, LexiconAnagrams, LexiconHooks
<1>3. CombinationsAreDraws(index)
  BY LexiconCombinations
<1> HIDE DEF index
<1>4. IdsAreAlphabetical(index)
  BY <1>1 DEF WordsIn, IdsAreAlphabetical
<1>5. IndexIsSound(index)
  BY <1>2, <1>3, <1>4, Zenon DEF IndexIsSound
<1> QED
  BY <1>5 DEF index

\* Whatever is uploaded, its index says of each entry what it is: the ranks, the
\* combinations, the anagrams and the hooks (index.rs build_lexicon and
\* build_leaves).
THEOREM UploadsAreIndexedSoundly == Picks => []IndexesAreSound
<1>1. Picked => IndexesAreSound
  <2> SUFFICES ASSUME Picked PROVE IndexesAreSound
    OBVIOUS
  <2>1. /\ case.on = "words" => case.raw \in WordUploads
        /\ case.on = "leaves" => case.raw \in LeaveUploads
    BY DEF Picked
  <2>2. /\ HasTiles(Distribution) /\ Lexicon.distribution = Distribution
        /\ \A raw \in WordUploads : IsWords(Distribution, raw)
        /\ \A raw \in LeaveUploads : IsLeaves(Distribution, raw)
    BY AlgorithmsAssumption, SearchedAreIndexes
  <2>3. ASSUME NEW raw \in WordUploads
        PROVE  IndexIsSound(BuildLexicon(Distribution, raw))
    BY <2>2, LexiconIndexIsSound
  <2>4. ASSUME NEW raw \in LeaveUploads
        PROVE  IndexIsSound(BuildLeaves(Lexicon, raw))
    BY <2>2, LeaveIndexIsSound
  <2> QED
    BY <2>1, <2>3, <2>4 DEF IndexesAreSound
<1> QED
  BY <1>1, AlwaysPicked, PTL
=============================================================================
