----------------------------- MODULE SlotsProofs -----------------------------
(***************************************************************************)
(* Theorems of Slots: for any number of requests, presses, names, tokens   *)
(* and any limits, no interleaving exceeds a limit or leaves a spec behind,*)
(* the purge task takes only what is due, and a link gives one file.       *)
(***************************************************************************)
EXTENDS Slots, FiniteSetTheorems, TLAPS

-----------------------------------------------------------------------------
(* What a handler holds                                                    *)

Creating == {"again", "source", "count", "store"}
Operations == {"idle", "save", "spend", "load"} \cup Creating
Handlers == [op : Operations,
             id : Cascades \cup Searches \cup Tokens \cup {None},
             name : Names \cup {None},
             overwrite : BOOLEAN,
             original : Cascades \cup {None}]

\* A handler that creates holds a press of Create, one that saves a press of
\* Save and a name.
Fits(h) ==
  /\ h.op \in Creating => h.id \in Cascades
  /\ h.op = "save" => h.id \in Searches /\ h.name \in Names
  /\ h.op \in {"spend", "load"} => h.id \in Tokens

ReqInv ==
  /\ req \in [Requests -> Handlers]
  /\ \A r \in Requests : Fits(req[r])

LEMMA HoldFits ==
  ASSUME ReqInv, NEW r \in Requests, NEW h \in Handlers, Fits(h), Hold(r, h)
  PROVE  ReqInv'
BY DEF ReqInv, Hold

LEMMA IdleFits == Idle \in Handlers /\ Fits(Idle)
BY DEF Idle, Handlers, Operations, Fits, Creating

LEMMA FinishFits ==
  ASSUME ReqInv, NEW r \in Requests, Finish(r)
  PROVE  ReqInv'
BY IdleFits, HoldFits DEF Finish

\* Only the step changes.
LEMMA MovesOn ==
  ASSUME NEW h \in Handlers, NEW op \in Operations
  PROVE  LET g == [h EXCEPT !.op = op] IN
         /\ g \in Handlers
         /\ g.op = op /\ g.id = h.id /\ g.name = h.name /\ g.original = h.original
BY DEF Handlers

LEMMA GoesFits ==
  ASSUME ReqInv, NEW r \in Requests, req[r].op \in Creating, NEW op \in Creating, Goes(r, op)
  PROVE  ReqInv'
<1> DEFINE g == [req[r] EXCEPT !.op = op]
<1>1. req[r] \in Handlers /\ Fits(req[r])
  BY DEF ReqInv
<1>2. g \in Handlers /\ g.op = op /\ g.id = req[r].id
  BY <1>1, MovesOn DEF Operations
<1>3. Fits(g)
  BY <1>1, <1>2 DEF Fits, Creating
<1> QED
  BY <1>2, <1>3, HoldFits DEF Goes

LEMMA ReqInvInit == Init => ReqInv
BY IdleFits DEF Init, ReqInv

LEMMA ReqInvStep == ReqInv /\ [Next]_vars => ReqInv'
<1> SUFFICES ASSUME ReqInv, [Next]_vars PROVE ReqInv'
  OBVIOUS
<1>1. ASSUME UNCHANGED req PROVE ReqInv'
  BY <1>1 DEF ReqInv
<1>2. ASSUME NEW r \in Requests, NEW c \in Cascades, BeginCreate(r, c) PROVE ReqInv'
  <2> DEFINE h == [Idle EXCEPT !.op = "again", !.id = c]
  <2>1. h \in Handlers /\ Fits(h)
    BY DEF Idle, Handlers, Operations, Creating, Fits
  <2> QED
    BY <1>2, <2>1, HoldFits DEF BeginCreate
<1>3. ASSUME NEW r \in Requests, NEW c \in Cascades, NEW original \in Cascades,
             BeginStartOver(r, c, original)
      PROVE ReqInv'
  <2> DEFINE h == [Idle EXCEPT !.op = "again", !.id = c, !.original = original]
  <2>1. h \in Handlers /\ Fits(h)
    BY DEF Idle, Handlers, Operations, Creating, Fits
  <2> QED
    BY <1>3, <2>1, HoldFits DEF BeginStartOver
<1>4. ASSUME NEW r \in Requests, CheckCreate(r) PROVE ReqInv'
  <2>1. Finish(r) \/ (req[r].op \in Creating /\ \E op \in Creating : Goes(r, op))
    BY <1>4 DEF CheckCreate, Now, Creating
  <2> QED
    BY <2>1, FinishFits, GoesFits
<1>5. ASSUME NEW r \in Requests, Store(r) \/ StoreSearch(r) \/ Load(r) PROVE ReqInv'
  <2>1. Finish(r)
    BY <1>5 DEF Store, StoreSearch, Load
  <2> QED
    BY <2>1, FinishFits
<1>6. ASSUME NEW r \in Requests, NEW s \in Searches, NEW name \in Names,
             NEW overwrite \in BOOLEAN, BeginSave(r, s, name, overwrite)
      PROVE ReqInv'
  <2> DEFINE h == [Idle EXCEPT !.op = "save", !.id = s, !.name = name, !.overwrite = overwrite]
  <2>1. h \in Handlers /\ Fits(h)
    BY DEF Idle, Handlers, Operations, Creating, Fits
  <2> QED
    BY <1>6, <2>1, HoldFits DEF BeginSave
<1>7. ASSUME NEW r \in Requests, NEW t \in Tokens, BeginExport(r, t) PROVE ReqInv'
  <2> DEFINE h == [Idle EXCEPT !.op = "spend", !.id = t]
  <2>1. h \in Handlers /\ Fits(h)
    BY DEF Idle, Handlers, Operations, Creating, Fits
  <2> QED
    BY <1>7, <2>1, HoldFits DEF BeginExport
<1>8. ASSUME NEW r \in Requests, Spend(r) PROVE ReqInv'
  <2> DEFINE h == IF Unspent(req[r].id) THEN [req[r] EXCEPT !.op = "load"] ELSE Idle
  <2>1. req[r] \in Handlers /\ req[r].op = "spend" /\ Fits(req[r])
    BY <1>8 DEF Spend, Now, ReqInv
  <2>2. [req[r] EXCEPT !.op = "load"] \in Handlers /\ Fits([req[r] EXCEPT !.op = "load"])
    BY <2>1, MovesOn DEF Operations, Creating, Fits
  <2>3. h \in Handlers /\ Fits(h) /\ Hold(r, h)
    BY <1>8, <2>2, IdleFits DEF Spend
  <2> QED
    BY <2>3, HoldFits
<1> QED
  BY <1>1, <1>2, <1>3, <1>4, <1>5, <1>6, <1>7, <1>8
     DEF Next, vars, RemoveSearch, Sync, Clear, TrashCascade, RestoreCascade, RestoreQuiz,
         PurgeQuiz, PurgeCascade, Ripen, MintToken, TokenExpires, PurgeTask, StartRun,
         PurgeUser, PruneTokens, RunFails

-----------------------------------------------------------------------------
(* The limits                                                              *)

RowsInv ==
  /\ cascades \in [Cascades -> {"none", "active", "trashed", "due"}]
  /\ searches \in [Searches -> Names \cup {None}]

SlotsInv == ReqInv /\ RowsInv /\ WithinLimits

LEMMA HeldAreFinite == IsFiniteSet(Held) /\ IsFiniteSet(Saved)
BY FS_Subset, SlotsAssumption DEF Held, Saved

LEMMA SlotsInit == Init => SlotsInv
<1> SUFFICES ASSUME Init PROVE SlotsInv
  OBVIOUS
<1>1. PICK s \in Scenarios :
        cascades = [c \in Cascades |-> IF c \in s.held THEN "active" ELSE "none"] /\ specs = s.held
  BY DEF Init
<1>2. Held = s.held /\ Saved = {}
  BY <1>1, SlotsAssumption DEF Held, Saved, Init
<1>3. Cardinality(Held) <= MaxCascades /\ Cardinality(Saved) <= MaxSearches
  BY <1>2, FS_EmptySet, SlotsAssumption
<1> QED
  BY <1>1, <1>2, <1>3, ReqInvInit DEF SlotsInv, RowsInv, WithinLimits, Init

\* A slot is taken where there was room.
LEMMA OneMore ==
  ASSUME NEW S, IsFiniteSet(S), NEW x, NEW n \in Nat, Cardinality(S) < n
  PROVE  Cardinality(S \cup {x}) <= n
<1>1. Cardinality(S) \in Nat
  BY FS_CardinalityType
<1> QED
  BY <1>1, FS_AddElement

LEMMA SomeLess ==
  ASSUME NEW S, IsFiniteSet(S), NEW T \in SUBSET S, NEW n \in Nat, Cardinality(S) <= n
  PROVE  Cardinality(T) <= n
<1>1. IsFiniteSet(T) /\ Cardinality(T) <= Cardinality(S)
  BY FS_Subset
<1>2. Cardinality(S) \in Nat /\ Cardinality(T) \in Nat
  BY <1>1, FS_CardinalityType
<1> QED
  BY <1>1, <1>2

\* What leaves the Trash for good, or for the cascade, is counted as before.
LEMMA SameHeld ==
  ASSUME SlotsInv, RowsInv', Held' = Held, UNCHANGED <<searches, specs>>
  PROVE  WithinLimits'
<1>1. Saved' = Saved
  BY DEF Saved
<1> QED
  BY <1>1 DEF SlotsInv, WithinLimits

LEMMA WithoutSome ==
  ASSUME SlotsInv, NEW S \in SUBSET Cascades, Without(S), UNCHANGED searches
  PROVE  RowsInv' /\ WithinLimits'
<1>1. RowsInv'
  BY DEF SlotsInv, RowsInv, Without
<1>2. Held' = Held \ S /\ Saved' = Saved
  BY DEF SlotsInv, RowsInv, Without, Held, Saved
<1>3. Saved \cap S = {}
  BY SlotsAssumption DEF Saved
<1>4. Cardinality(Held') <= MaxCascades
  BY <1>2, SomeLess, HeldAreFinite, SlotsAssumption DEF SlotsInv, WithinLimits
<1> QED
  BY <1>1, <1>2, <1>3, <1>4 DEF SlotsInv, WithinLimits, Without

LEMMA StoreKeepsLimits ==
  ASSUME SlotsInv, NEW r \in Requests, Store(r)
  PROVE  RowsInv' /\ WithinLimits'
<1>1. CASE UNCHANGED <<cascades, specs>>
  <2>1. RowsInv' /\ Held' = Held /\ UNCHANGED <<searches, specs>>
    BY <1>1 DEF Store, SlotsInv, RowsInv, Held
  <2> QED
    BY <2>1, SameHeld
<1>2. CASE ~UNCHANGED <<cascades, specs>>
  <2> DEFINE c == req[r].id
  <2>1. Room(Held) /\ cascades' = [cascades EXCEPT ![c] = "active"] /\ specs' = specs \cup {c}
        /\ searches' = searches
    BY <1>2 DEF Store, NewSpec
  <2>2. c \in Cascades
    BY DEF Store, Now, SlotsInv, ReqInv, Fits, Creating
  <2>3. RowsInv' /\ Held' = Held \cup {c} /\ Saved' = Saved
    BY <2>1, <2>2 DEF SlotsInv, RowsInv, Held, Saved
  <2>4. Cardinality(Held') <= MaxCascades
    BY <2>1, <2>3, OneMore, HeldAreFinite, SlotsAssumption DEF Room
  <2> QED
    BY <2>1, <2>3, <2>4 DEF SlotsInv, WithinLimits
<1> QED
  BY <1>1, <1>2

LEMMA SaveKeepsLimits ==
  ASSUME SlotsInv, NEW r \in Requests, StoreSearch(r)
  PROVE  RowsInv' /\ WithinLimits'
<1>0. cascades' = cascades /\ Held' = Held
  BY DEF StoreSearch, trash, Held
<1>1. CASE UNCHANGED <<searches, specs>>
  <2>1. RowsInv'
    BY <1>0, <1>1 DEF SlotsInv, RowsInv
  <2> QED
    BY <1>0, <1>1, <2>1, SameHeld
<1>2. CASE ~UNCHANGED <<searches, specs>>
  <2> DEFINE s   == req[r].id
             old == {o \in Saved : searches[o] = req[r].name}
  <2>1. /\ ~(CountAfter(old) >= MaxSearches)
        /\ searches' = [o \in Searches |-> IF o = s THEN req[r].name
                                          ELSE IF o \in old THEN None ELSE searches[o]]
        /\ specs' = (specs \ old) \cup {s}
    BY <1>2 DEF StoreSearch
  <2>2. s \in Searches /\ req[r].name \in Names /\ req[r].name # None
    BY SlotsAssumption DEF StoreSearch, Now, SlotsInv, ReqInv, Fits
  <2>3. RowsInv'
    BY <1>0, <2>1, <2>2 DEF SlotsInv, RowsInv
  <2>4. Saved' = (Saved \ old) \cup {s}
    BY <2>1, <2>2 DEF Saved
  <2>5. IsFiniteSet(Saved \ old) /\ Cardinality(Saved \ old) \in Nat
    BY HeldAreFinite, FS_Subset, FS_CardinalityType
  <2>6. Cardinality(Saved \ old) < MaxSearches
    BY <2>1, <2>5, SlotsAssumption DEF CountAfter
  <2>7. Cardinality(Saved') <= MaxSearches
    BY <2>4, <2>5, <2>6, OneMore, SlotsAssumption
  <2>8. Held \cap old = {}
    BY SlotsAssumption DEF Held, Saved
  <2> QED
    BY <1>0, <2>1, <2>3, <2>4, <2>7, <2>8 DEF SlotsInv, WithinLimits
<1> QED
  BY <1>1, <1>2

LEMMA RemoveKeepsLimits ==
  ASSUME SlotsInv, NEW s \in Searches, RemoveSearch(s)
  PROVE  RowsInv' /\ WithinLimits'
<1>1. RowsInv' /\ Saved' = Saved \ {s} /\ Held' = Held /\ specs' = specs \ {s}
  BY DEF RemoveSearch, SlotsInv, RowsInv, Saved, Held, trash
<1>2. s \notin Held
  BY SlotsAssumption DEF Held
<1>3. Cardinality(Saved') <= MaxSearches
  BY <1>1, SomeLess, HeldAreFinite, SlotsAssumption DEF SlotsInv, WithinLimits
<1> QED
  BY <1>1, <1>2, <1>3 DEF SlotsInv, WithinLimits

\* What the Trash and time do to a cascade that is held.
LEMMA TrashKeepsLimits ==
  ASSUME SlotsInv, NEW c \in Cascades,
         \/ Clear(c) \/ TrashCascade(c) \/ RestoreCascade(c) \/ RestoreQuiz(c)
         \/ PurgeQuiz(c) \/ Ripen(c)
  PROVE  RowsInv' /\ WithinLimits'
<1>1. /\ UNCHANGED <<searches, specs>>
      /\ \/ UNCHANGED cascades
         \/ /\ cascades[c] # "none"
            /\ \E to \in {"active", "trashed", "due"} : cascades' = [cascades EXCEPT ![c] = to]
  BY DEF Clear, TrashCascade, RestoreCascade, RestoreQuiz, PurgeQuiz, Ripen, Sync, InTrash
<1>2. RowsInv' /\ Held' = Held
  BY <1>1 DEF SlotsInv, RowsInv, Held
<1> QED
  BY <1>1, <1>2, SameHeld

LEMMA PurgeUserKeepsLimits ==
  ASSUME SlotsInv, PurgeUser
  PROVE  RowsInv' /\ WithinLimits'
<1>1. CASE ~run.listed
  <2>1. UNCHANGED <<cascades, searches, specs>>
    BY <1>1 DEF PurgeUser
  <2>2. RowsInv' /\ Held' = Held
    BY <2>1 DEF SlotsInv, RowsInv, Held
  <2> QED
    BY <2>1, <2>2, SameHeld
<1>2. CASE run.listed
  <2>1. \E S \in SUBSET Cascades : Without(S)
    BY <1>2 DEF PurgeUser, DueCascades
  <2>2. UNCHANGED searches
    BY DEF PurgeUser
  <2> QED
    BY <2>1, <2>2, WithoutSome
<1> QED
  BY <1>1, <1>2

LEMMA SlotsStep == SlotsInv /\ [Next]_vars => SlotsInv'
<1> SUFFICES ASSUME SlotsInv, [Next]_vars PROVE RowsInv' /\ WithinLimits'
  BY ReqInvStep DEF SlotsInv
<1>1. ASSUME UNCHANGED <<cascades, searches, specs>> PROVE RowsInv' /\ WithinLimits'
  <2>1. RowsInv' /\ Held' = Held
    BY <1>1 DEF SlotsInv, RowsInv, Held
  <2> QED
    BY <1>1, <2>1, SameHeld
<1>2. ASSUME NEW c \in Cascades, PurgeCascade(c) PROVE RowsInv' /\ WithinLimits'
  <2>1. Without({c}) /\ UNCHANGED searches
    BY <1>2 DEF PurgeCascade, Sync
  <2> QED
    BY <2>1, WithoutSome
<1>3. ASSUME NEW r \in Requests, CheckCreate(r) PROVE RowsInv' /\ WithinLimits'
  BY <1>1, <1>3 DEF CheckCreate, trash
<1>4. ASSUME NEW r \in Requests, NEW c \in Cascades,
             BeginCreate(r, c) \/ \E original \in Cascades : BeginStartOver(r, c, original)
      PROVE RowsInv' /\ WithinLimits'
  BY <1>1, <1>4 DEF BeginCreate, BeginStartOver, trash
<1>5. ASSUME NEW r \in Requests, NEW s \in Searches, NEW name \in Names,
             NEW overwrite \in BOOLEAN, BeginSave(r, s, name, overwrite)
      PROVE RowsInv' /\ WithinLimits'
  BY <1>1, <1>5 DEF BeginSave, trash
<1>6. ASSUME NEW r \in Requests,
             Spend(r) \/ Load(r) \/ \E t \in Tokens : BeginExport(r, t)
      PROVE RowsInv' /\ WithinLimits'
  BY <1>1, <1>6 DEF Spend, Load, BeginExport, trash
<1>7. ASSUME (\E t \in Tokens : MintToken(t) \/ TokenExpires(t))
             \/ StartRun \/ PruneTokens \/ RunFails
      PROVE RowsInv' /\ WithinLimits'
  BY <1>1, <1>7 DEF MintToken, TokenExpires, StartRun, PruneTokens, RunFails, trash
<1>8. ASSUME UNCHANGED vars PROVE RowsInv' /\ WithinLimits'
  BY <1>1, <1>8 DEF vars
<1> QED
  BY <1>2, <1>3, <1>4, <1>5, <1>6, <1>7, <1>8, StoreKeepsLimits, SaveKeepsLimits,
     RemoveKeepsLimits, TrashKeepsLimits, PurgeUserKeepsLimits
     DEF Next, PurgeTask

\* Two creations, or two saves, never both take the last slot, and every spec
\* belongs to a cascade or a saved search (cascade/routes.rs, search/saved.rs).
THEOREM LimitsHold == Spec => []WithinLimits
<1>1. SlotsInv => WithinLimits
  BY DEF SlotsInv
<1> QED
  BY <1>1, SlotsInit, SlotsStep, PTL DEF Spec

-----------------------------------------------------------------------------
(* The purge                                                               *)

LEMMA PurgesOnlyDue ==
  ASSUME PurgeUser, SlotsInv, NEW c \in Cascades
  PROVE  /\ cascades[c] # "none" /\ cascades'[c] = "none" => cascades[c] = "due"
         /\ cascades'[c] # "none" /\ cleared[c] # cleared'[c] =>
              cascades[c] = "active" /\ cleared[c] = "due"
<1>1. CASE ~run.listed
  BY <1>1 DEF PurgeUser
<1>2. CASE run.listed
  <2>1. PICK quizzes \in Takes :
          LET whole == IF Cardinality(quizzes) < MaxPerRun THEN DueCascades ELSE {} IN
          /\ Without(whole)
          /\ cleared' = [x \in Cascades |-> IF x \in quizzes \cup whole THEN "none" ELSE cleared[x]]
    BY <1>2 DEF PurgeUser
  <2> DEFINE whole == IF Cardinality(quizzes) < MaxPerRun THEN DueCascades ELSE {}
  <2>2. quizzes \subseteq DueQuizzes
    BY DEF Takes
  <2>3. whole \subseteq DueCascades
    OBVIOUS
  <2>4. cascades'[c] = IF c \in whole THEN "none" ELSE cascades[c]
    BY <2>1 DEF Without
  <2>5. cleared'[c] = IF c \in quizzes \cup whole THEN "none" ELSE cleared[c]
    BY <2>1
  <2> HIDE DEF whole
  <2> QED
    BY <2>2, <2>3, <2>4, <2>5 DEF DueQuizzes, DueCascades
<1> QED
  BY <1>1, <1>2

\* Only a user's transaction of the purge takes the run from its purge to its
\* prune.
LEMMA OnlyPurgeUserPasses ==
  ASSUME [Next]_vars, run.step = "purge", run'.step = "prune"
  PROVE  PurgeUser
<1>1. run # NoRun
  BY DEF NoRun
<1>2. run' # run /\ run' # NoRun
  BY DEF NoRun
<1> QED
  BY <1>1, <1>2 DEF Next, vars, purge, BeginCreate, BeginStartOver, CheckCreate, Store, BeginSave,
     StoreSearch, BeginExport, Spend, Load, RemoveSearch, Sync, Clear, TrashCascade,
     RestoreCascade, RestoreQuiz, PurgeQuiz, PurgeCascade, Ripen, MintToken, TokenExpires,
     PurgeTask, StartRun, PruneTokens, RunFails

\* A cleared quiz, or a cascade in the Trash, is purged only once it is past the
\* retention period at that moment, whenever the run listed its user (purge.rs).
THEOREM OnlyDueIsTaken == Spec => OnlyDueIsPurged
<1>1. Spec => []SlotsInv
  BY SlotsInit, SlotsStep, PTL DEF Spec
<1>2. SlotsInv /\ [Next]_vars =>
        [run.step = "purge" /\ run'.step = "prune" =>
           \A c \in Cascades :
             /\ cascades[c] # "none" /\ cascades'[c] = "none" => cascades[c] = "due"
             /\ cascades'[c] # "none" /\ cleared[c] # cleared'[c] =>
                  cascades[c] = "active" /\ cleared[c] = "due"]_vars
  BY OnlyPurgeUserPasses, PurgesOnlyDue
<1> QED
  BY <1>1, <1>2, PTL DEF Spec, OnlyDueIsPurged

-----------------------------------------------------------------------------
(* Export links                                                            *)

Loads(r, t) == Now(r, "load") /\ req[r].id = t

\* No request will find this link's use unrecorded any more.
Closed(t) == t \in spent \/ (tokens[t] = "expired" /\ ~InUse(t))

FilesInv ==
  /\ tokens \in [Tokens -> {"none", "valid", "expired"}]
  /\ files \in [Tokens -> Nat]
  /\ \A t \in Tokens :
       /\ files[t] = 0 \/ (files[t] = 1 /\ Closed(t))
       /\ \A r \in Requests : Loads(r, t) =>
            files[t] = 0 /\ Closed(t) /\ \A q \in Requests : Loads(q, t) => q = r

LEMMA FilesInit == Init => FilesInv
BY DEF Init, FilesInv, Loads, Now, Idle

\* A handler that has nothing to do with links.
LEMMA OtherHandler ==
  ASSUME FilesInv, ReqInv, NEW r \in Requests, NEW h, h.op \notin {"spend", "load"}, Hold(r, h),
         UNCHANGED export
  PROVE  FilesInv'
<1>1. \A q \in Requests : req'[q] = IF q = r THEN h ELSE req[q]
  BY DEF Hold, ReqInv
<1>2. \A t \in Tokens : Closed(t) => Closed(t)'
  BY <1>1 DEF Closed, InUse, Now, export
<1>3. \A t \in Tokens, q \in Requests : Loads(q, t)' => Loads(q, t)
  BY <1>1 DEF Loads, Now
<1> QED
  BY <1>2, <1>3 DEF FilesInv, export

LEMMA SameRequests ==
  ASSUME FilesInv, UNCHANGED <<req, tokens, files>>, \A t \in Tokens : Closed(t) => Closed(t)'
  PROVE  FilesInv'
BY DEF FilesInv, Loads, Now

LEMMA BeginExportKeepsFiles ==
  ASSUME FilesInv, ReqInv, NEW r \in Requests, NEW u \in Tokens, BeginExport(r, u)
  PROVE  FilesInv'
<1>1. \A q \in Requests : q # r => req'[q] = req[q]
  BY DEF BeginExport, Hold, ReqInv
<1>2. req'[r].op = "spend" /\ req'[r].id = u
  <2> DEFINE h == [Idle EXCEPT !.op = "spend", !.id = u]
  <2>1. h.op = "spend" /\ h.id = u
    BY DEF Idle
  <2> QED
    BY <2>1 DEF BeginExport, Hold, ReqInv
<1>3. tokens[u] = "valid" /\ UNCHANGED export
  BY DEF BeginExport
<1>4. \A t \in Tokens : Closed(t) => Closed(t)'
  BY <1>1, <1>2, <1>3 DEF Closed, InUse, Now, export
<1>5. \A t \in Tokens, q \in Requests : Loads(q, t)' => Loads(q, t)
  BY <1>1, <1>2 DEF Loads, Now
<1> QED
  BY <1>3, <1>4, <1>5 DEF FilesInv, export

LEMMA SpendKeepsFiles ==
  ASSUME FilesInv, ReqInv, NEW r \in Requests, Spend(r)
  PROVE  FilesInv'
<1>0. PICK t \in Tokens : t = req[r].id
  BY DEF Spend, Now, ReqInv, Fits
<1>1. req[r].id = t /\ Now(r, "spend") /\ req[r] \in Handlers
  BY <1>0 DEF Spend, Now, ReqInv, Fits
<1>2. \A q \in Requests : q # r => req'[q] = req[q]
  BY DEF Spend, Hold, ReqInv
<1>3. spent' = spent \cup {t} /\ UNCHANGED <<tokens, files>>
  BY <1>1 DEF Spend
<1>4. \A u \in Tokens : Closed(u) => Closed(u)'
  <2>1. req'[r].op # "spend"
    <3>1. [req[r] EXCEPT !.op = "load"].op = "load" /\ Idle.op = "idle"
      BY <1>1, MovesOn DEF Idle, Operations
    <3> QED
      BY <3>1 DEF Spend, Hold, ReqInv
  <2> QED
    BY <1>2, <1>3, <2>1 DEF Closed, InUse, Now
<1>5. Closed(t)'
  BY <1>3 DEF Closed
<1>6. CASE Unspent(t)
  <2>1. req'[r].op = "load" /\ req'[r].id = t
    <3>1. [req[r] EXCEPT !.op = "load"].op = "load" /\ [req[r] EXCEPT !.op = "load"].id = t
      BY <1>1, MovesOn DEF Operations
    <3> QED
      BY <1>1, <1>6, <3>1 DEF Spend, Hold, ReqInv
  <2>2. ~Closed(t)
    BY <1>1, <1>6 DEF Closed, Unspent, InUse
  <2>3. files[t] = 0 /\ \A q \in Requests : ~Loads(q, t)
    BY <1>1, <2>2 DEF FilesInv
  <2>4. \A u \in Tokens, q \in Requests : Loads(q, u)' => Loads(q, u) \/ (q = r /\ u = t)
    BY <1>2, <2>1 DEF Loads, Now
  <2> QED
    BY <1>3, <1>4, <1>5, <2>3, <2>4 DEF FilesInv
<1>7. CASE ~Unspent(t)
  <2>1. req'[r].op = "idle"
    BY <1>1, <1>7 DEF Spend, Hold, ReqInv, Idle
  <2>2. \A u \in Tokens, q \in Requests : Loads(q, u)' => Loads(q, u)
    BY <1>2, <2>1 DEF Loads, Now
  <2> QED
    BY <1>3, <1>4, <2>2 DEF FilesInv
<1> QED
  BY <1>6, <1>7

LEMMA LoadKeepsFiles ==
  ASSUME FilesInv, ReqInv, NEW r \in Requests, Load(r)
  PROVE  FilesInv'
<1>0. PICK t \in Tokens : t = req[r].id
  BY DEF Load, Now, ReqInv, Fits
<1>1. req[r].id = t /\ Loads(r, t)
  BY <1>0 DEF Load, Loads
<1>2. /\ \A q \in Requests : q # r => req'[q] = req[q]
      /\ req'[r].op = "idle"
  BY DEF Load, Finish, Hold, ReqInv, Idle
<1>3. files[t] = 0 /\ Closed(t) /\ \A q \in Requests : Loads(q, t) => q = r
  BY <1>1 DEF FilesInv
<1>4. UNCHANGED <<tokens, spent>>
  BY DEF Load
<1>5. \A u \in Tokens : Closed(u) => Closed(u)'
  BY <1>2, <1>4 DEF Closed, InUse, Now
<1>6. \A u \in Tokens, q \in Requests : Loads(q, u)' => Loads(q, u) /\ q # r
  BY <1>2 DEF Loads, Now
<1>7. files' \in [Tokens -> Nat] /\ (\A u \in Tokens : u # t => files'[u] = files[u])
      /\ files'[t] \in {0, 1}
  <2>1. CASE files' = [files EXCEPT ![t] = @ + 1]
    BY <1>1, <1>3, <2>1 DEF FilesInv
  <2>2. CASE UNCHANGED files
    BY <1>3, <2>2 DEF FilesInv
  <2> QED
    BY <1>1, <2>1, <2>2 DEF Load
<1>8. \A q \in Requests : ~Loads(q, t)'
  BY <1>3, <1>6
<1> QED
  BY <1>1, <1>3, <1>4, <1>5, <1>6, <1>7, <1>8 DEF FilesInv

LEMMA TokensKeepFiles ==
  ASSUME FilesInv, NEW u \in Tokens, MintToken(u) \/ TokenExpires(u)
  PROVE  FilesInv'
<1>1. /\ tokens' \in [Tokens -> {"none", "valid", "expired"}]
      /\ \A t \in Tokens : tokens[t] = "expired" => tokens'[t] = "expired"
      /\ UNCHANGED <<req, spent, files>>
  BY DEF MintToken, TokenExpires, FilesInv
<1>2. \A t \in Tokens : Closed(t) => Closed(t)'
  BY <1>1 DEF Closed, InUse, Now
<1> QED
  BY <1>1, <1>2 DEF FilesInv, Loads, Now

LEMMA FilesStep ==
  ASSUME Slow = FALSE, FilesInv, ReqInv, [Next]_vars
  PROVE  FilesInv'
<1>1. ASSUME UNCHANGED <<req, tokens, spent, files>> PROVE FilesInv'
  BY <1>1, SameRequests DEF Closed, InUse, Now
<1>2. ASSUME NEW r \in Requests, NEW c \in Cascades,
             BeginCreate(r, c) \/ \E original \in Cascades : BeginStartOver(r, c, original)
      PROVE FilesInv'
  <2>1. \E h : h.op = "again" /\ Hold(r, h)
    <3>1. [Idle EXCEPT !.op = "again", !.id = c].op = "again"
      BY DEF Idle
    <3>2. \A o : [Idle EXCEPT !.op = "again", !.id = c, !.original = o].op = "again"
      BY DEF Idle
    <3> QED
      BY <1>2, <3>1, <3>2 DEF BeginCreate, BeginStartOver
  <2>2. UNCHANGED export
    BY <1>2 DEF BeginCreate, BeginStartOver
  <2> QED
    BY <2>1, <2>2, OtherHandler
<1>3. ASSUME NEW r \in Requests, NEW s \in Searches, NEW name \in Names,
             NEW overwrite \in BOOLEAN, BeginSave(r, s, name, overwrite)
      PROVE FilesInv'
  <2>1. [Idle EXCEPT !.op = "save", !.id = s, !.name = name, !.overwrite = overwrite].op = "save"
    BY DEF Idle
  <2> QED
    BY <1>3, <2>1, OtherHandler DEF BeginSave
<1>4. ASSUME NEW r \in Requests, CheckCreate(r) PROVE FilesInv'
  <2>1. \A op \in Creating : [req[r] EXCEPT !.op = op].op = op
    BY MovesOn DEF ReqInv, Operations
  <2>2. \E h : h.op \in Creating \cup {"idle"} /\ Hold(r, h)
    BY <1>4, <2>1 DEF CheckCreate, Goes, Finish, Idle, Creating
  <2>3. UNCHANGED export
    BY <1>4 DEF CheckCreate
  <2> QED
    BY <2>2, <2>3, OtherHandler DEF Creating
<1>5. ASSUME NEW r \in Requests, Store(r) \/ StoreSearch(r) PROVE FilesInv'
  <2>1. Hold(r, Idle) /\ UNCHANGED export
    BY <1>5 DEF Store, StoreSearch, Finish
  <2> QED
    BY <2>1, OtherHandler DEF Idle
<1>6. ASSUME PruneTokens PROVE FilesInv'
  <2>1. UNCHANGED <<req, tokens, files>> /\ spent' = {t \in spent : tokens[t] # "expired" \/ InUse(t)}
    BY <1>6 DEF PruneTokens
  <2>2. \A t \in Tokens : Closed(t) => Closed(t)'
    BY <2>1 DEF Closed, InUse, Now
  <2> QED
    BY <2>1, <2>2, SameRequests
<1>7. ASSUME (\E s \in Searches : RemoveSearch(s))
             \/ (\E c \in Cascades : \/ Clear(c) \/ TrashCascade(c) \/ RestoreCascade(c)
                                     \/ RestoreQuiz(c) \/ PurgeQuiz(c) \/ PurgeCascade(c) \/ Ripen(c))
             \/ StartRun \/ PurgeUser \/ RunFails \/ UNCHANGED vars
      PROVE FilesInv'
  BY <1>1, <1>7 DEF RemoveSearch, Clear, TrashCascade, RestoreCascade, RestoreQuiz, PurgeQuiz,
     PurgeCascade, Ripen, Sync, StartRun, PurgeUser, RunFails, export, vars
<1> QED
  BY <1>2, <1>3, <1>4, <1>5, <1>6, <1>7, BeginExportKeepsFiles, SpendKeepsFiles, LoadKeepsFiles,
     TokensKeepFiles DEF Next, PurgeTask

\* A link is answered with at most one file, however many requests come with it
\* and whenever the record of its use is pruned, as long as no request is held
\* up between its look at the link's time and its record (export/mod.rs).
THEOREM LinksGiveOneFile ==
  ASSUME Slow = FALSE
  PROVE  Spec => []OneFilePerToken
<1>1. ReqInv /\ FilesInv /\ [Next]_vars => (ReqInv /\ FilesInv)'
  BY ReqInvStep, FilesStep
<1>2. FilesInv => OneFilePerToken
  BY DEF FilesInv, OneFilePerToken
<1> QED
  BY <1>1, <1>2, ReqInvInit, FilesInit, PTL DEF Spec
=============================================================================
