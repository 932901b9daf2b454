-------------------------------- MODULE Slots --------------------------------
(***************************************************************************)
(* What one user keeps on the server under a limit, and how it goes again: *)
(* the creation of cascades (cascade/routes.rs), saved searches            *)
(* (search/saved.rs), the Trash and the purge task (sync/ops.rs, purge.rs) *)
(* and the export tokens (export/mod.rs).                                  *)
(*                                                                         *)
(* A device mints an id when a button is pressed and repeats the request   *)
(* with it, so an id here is one press.  Whatever changes a user's rows    *)
(* locks the user's row first, and is one step; what a handler reads       *)
(* before that is a step of its own.                                       *)
(***************************************************************************)
EXTENDS Naturals, FiniteSets

CONSTANTS
  Requests,      \* requests that may be under way
  Cascades,      \* presses of Create Cascade or Start over
  Searches,      \* presses of Save
  Names,         \* names of saved searches
  Tokens,        \* export tokens
  Scenarios,     \* pairs of the cascades there are at the start, and what is asked for
  None,          \* no press, no name
  MaxCascades,   \* MAX_CASCADES_PER_USER
  MaxSearches,   \* MAX_SAVED_SEARCHES_PER_USER
  MaxPerRun,     \* PURGE_MAX_QUIZZES_PER_USER_PER_RUN
  MaxClears,     \* bounds the quizzes cleared
  MaxFailures,   \* bounds the purge runs that fail
  Slow           \* whether a redeemed token may expire and be pruned while a
                 \* second redemption is between its check and its insert

AllKinds == {"create", "start_over", "trash", "clear", "purge", "save", "export"}

ASSUME SlotsAssumption ==
  /\ IsFiniteSet(Cascades) /\ IsFiniteSet(Searches) /\ Cascades \cap Searches = {}
  /\ \A s \in Scenarios : /\ s.held \subseteq Cascades /\ s.asked \subseteq AllKinds
                          /\ Cardinality(s.held) <= MaxCascades
  /\ MaxCascades \in Nat \ {0} /\ MaxSearches \in Nat \ {0} /\ MaxPerRun \in Nat \ {0}
  /\ MaxClears \in Nat /\ MaxFailures \in Nat
  /\ Slow \in BOOLEAN
  /\ None \notin Cascades \cup Searches \cup Names

VARIABLES
  asked,      \* the kinds of requests and tasks of this behaviour
  cascades,   \* per press: "none", "active", "trashed", or "due" past the retention period
  cleared,    \* per cascade, a cleared quiz: "none", "fresh" or "due"
  searches,   \* per press, the name saved under, or None
  specs,      \* search_specs, each by the press whose cascade or search has it
  req,        \* per request, what its handler holds
  run,        \* the purge run that has the advisory lock, whichever instance it
              \* is of: its step, and whether the user was listed
  tokens,     \* per export token: "none", "valid" or "expired"
  spent,      \* export_tokens_spent
  files,      \* per token, the files it was answered with
  clears, failures

vars == <<asked, cascades, cleared, searches, specs, req, run, tokens, spent, files,
          clears, failures>>

Idle == [op |-> "idle", id |-> None, name |-> None, overwrite |-> FALSE, original |-> None]
NoRun == [step |-> "idle", listed |-> FALSE]

Init ==
  /\ \E s \in Scenarios :
       /\ asked = s.asked
       /\ cascades = [c \in Cascades |-> IF c \in s.held THEN "active" ELSE "none"]
       /\ specs = s.held
  /\ cleared = [c \in Cascades |-> "none"]
  /\ searches = [s \in Searches |-> None]
  /\ req = [r \in Requests |-> Idle]
  /\ run = NoRun
  /\ tokens = [t \in Tokens |-> "none"] /\ spent = {} /\ files = [t \in Tokens |-> 0]
  /\ clears = 0 /\ failures = 0

Asks(r, op) == req[r].op = "idle" /\ op \in asked
Now(r, op) == req[r].op = op
Hold(r, h) == req' = [req EXCEPT ![r] = h]
Finish(r) == Hold(r, Idle)

Held == {c \in Cascades : cascades[c] # "none"}
Saved == {s \in Searches : searches[s] # None}

trash == <<cascades, cleared, clears>>
purge == <<run, failures>>
export == <<tokens, spent, files>>

-----------------------------------------------------------------------------
(* Creating a cascade                                                      *)

\* A repeated request is answered with what the first one made.  Start over
\* reads the original's fields and spec.
BeginCreate(r, c) ==
  /\ Asks(r, "create")
  /\ c \notin Held
  /\ Hold(r, [Idle EXCEPT !.op = "again", !.id = c])
  /\ UNCHANGED <<asked, trash, searches, specs, purge, export>>

BeginStartOver(r, c, original) ==
  /\ Asks(r, "start_over")
  /\ c \notin Held /\ original \in Held
  /\ Hold(r, [Idle EXCEPT !.op = "again", !.id = c, !.original = original])
  /\ UNCHANGED <<asked, trash, searches, specs, purge, export>>

Goes(r, step) == Hold(r, [req[r] EXCEPT !.op = step])

\* store: the id is looked for once more, then the Source quiz's, then the
\* limit is looked at; after that the search runs, which may find nothing.
CheckCreate(r) ==
  /\ \/ Now(r, "again") /\ IF req[r].id \in Held THEN Finish(r) ELSE Goes(r, "source")
     \/ Now(r, "source") /\ IF req[r].id \in Held THEN Finish(r) ELSE Goes(r, "count")
     \/ Now(r, "count") /\ IF Cardinality(Held) >= MaxCascades THEN Finish(r) ELSE Goes(r, "store")
     \/ Now(r, "store") /\ Finish(r)
  /\ UNCHANGED <<asked, trash, searches, specs, purge, export>>

\* Mutant: the limit is not looked at again under the lock.
RoomSeen(held) == TRUE

Room(held) == Cardinality(held) < MaxCascades

\* insert_spec or copy_spec
NewSpec(r) == {req[r].id}

\* Under the lock of the user's row.  A spec that is gone cannot be copied.
Store(r) ==
  /\ Now(r, "store")
  /\ Finish(r)
  /\ IF \/ ~Room(Held) \/ req[r].id \in Held
        \/ req[r].original \notin specs \cup {None}
     THEN UNCHANGED <<cascades, specs>>
     ELSE /\ cascades' = [cascades EXCEPT ![req[r].id] = "active"]
          /\ specs' = specs \cup NewSpec(r)
  /\ UNCHANGED <<asked, cleared, clears, searches, purge, export>>

-----------------------------------------------------------------------------
(* Saved searches                                                          *)

BeginSave(r, s, name, overwrite) ==
  /\ Asks(r, "save")
  /\ s \notin Saved
  /\ Hold(r, [Idle EXCEPT !.op = "save", !.id = s, !.name = name, !.overwrite = overwrite])
  /\ UNCHANGED <<asked, trash, searches, specs, purge, export>>

CountAfter(old) == Cardinality(Saved \ old)

\* Under the lock of the user's row.  An overwrite deletes the replaced search
\* and its spec; a refusal rolls that back.
StoreSearch(r) ==
  /\ Now(r, "save")
  /\ Finish(r)
  /\ LET s == req[r].id
         old == {o \in Saved : searches[o] = req[r].name}
     IN IF (old # {} /\ ~req[r].overwrite) \/ CountAfter(old) >= MaxSearches
        THEN UNCHANGED <<searches, specs>>
        ELSE /\ searches' = [o \in Searches |-> IF o = s THEN req[r].name
                                                ELSE IF o \in old THEN None ELSE searches[o]]
             /\ specs' = (specs \ old) \cup {s}
  /\ UNCHANGED <<asked, trash, purge, export>>

RemoveSearch(s) ==
  /\ s \in Saved
  /\ searches' = [searches EXCEPT ![s] = None]
  /\ specs' = specs \ {s}
  /\ UNCHANGED <<asked, trash, req, purge, export>>

-----------------------------------------------------------------------------
(* The Trash                                                               *)

InTrash(c) == cascades[c] \in {"trashed", "due"}
Sync == "trash" \in asked /\ UNCHANGED <<asked, searches, req, purge, export>>

Clear(c) ==
  /\ "clear" \in asked /\ clears < MaxClears
  /\ cascades[c] = "active" /\ cleared[c] = "none"
  /\ cleared' = [cleared EXCEPT ![c] = "fresh"]
  /\ clears' = clears + 1
  /\ Sync /\ UNCHANGED <<cascades, specs>>

TrashCascade(c) ==
  /\ cascades[c] = "active"
  /\ cascades' = [cascades EXCEPT ![c] = "trashed"]
  /\ Sync /\ UNCHANGED <<cleared, clears, specs>>

\* restart_clocks
RestartClocks(c) == IF cleared[c] = "due" THEN "fresh" ELSE cleared[c]

RestoreCascade(c) ==
  /\ InTrash(c)
  /\ cascades' = [cascades EXCEPT ![c] = "active"]
  /\ cleared' = [cleared EXCEPT ![c] = RestartClocks(c)]
  /\ Sync /\ UNCHANGED <<clears, specs>>

\* Brings its cascade back.
RestoreQuiz(c) ==
  /\ cascades[c] # "none" /\ cleared[c] # "none"
  /\ cascades' = [cascades EXCEPT ![c] = "active"]
  /\ cleared' = [cleared EXCEPT ![c] = "none"]
  /\ Sync /\ UNCHANGED <<clears, specs>>

PurgeQuiz(c) ==
  /\ cascades[c] = "active" /\ cleared[c] # "none"
  /\ cleared' = [cleared EXCEPT ![c] = "none"]
  /\ Sync /\ UNCHANGED <<cascades, clears, specs>>

\* purge_cascade_rows
Without(S) ==
  /\ cascades' = [c \in Cascades |-> IF c \in S THEN "none" ELSE cascades[c]]
  /\ specs' = specs \ S

PurgeCascade(c) ==
  /\ InTrash(c)
  /\ Without({c})
  /\ cleared' = [cleared EXCEPT ![c] = "none"]
  /\ Sync /\ UNCHANGED clears

\* The retention period passes.
Ripen(c) ==
  /\ "purge" \in asked
  /\ \/ /\ cascades[c] = "trashed"
        /\ cascades' = [cascades EXCEPT ![c] = "due"] /\ UNCHANGED cleared
     \/ /\ cleared[c] = "fresh"
        /\ cleared' = [cleared EXCEPT ![c] = "due"] /\ UNCHANGED cascades
  /\ UNCHANGED <<asked, clears, searches, specs, req, purge, export>>

-----------------------------------------------------------------------------
(* The purge task                                                          *)

\* Mutant: quizzes of a trashed cascade are purged on their own.
WithoutTheirs == {c \in Cascades : cleared[c] = "due"}

DueQuizzes == {c \in Cascades : cascades[c] = "active" /\ cleared[c] = "due"}
DueCascades == {c \in Cascades : cascades[c] = "due"}

\* Mutant: users are listed for their trashed cascades only.
ListedFor == DueCascades

DueRows == DueQuizzes \cup DueCascades

\* pg_try_advisory_lock, and the users with anything past the retention period.
StartRun ==
  /\ "purge" \in asked
  /\ run = NoRun
  /\ run' = [step |-> "purge", listed |-> DueRows # {}]
  /\ UNCHANGED <<asked, trash, searches, specs, req, failures, export>>

Takes == IF Cardinality(DueQuizzes) <= MaxPerRun THEN {DueQuizzes}
         ELSE {S \in SUBSET DueQuizzes : Cardinality(S) = MaxPerRun}

\* The user's transaction: up to MaxPerRun cleared quizzes, then, if there were
\* fewer, every cascade.
PurgeUser ==
  /\ run.step = "purge"
  /\ run' = [run EXCEPT !.step = "prune"]
  /\ IF ~run.listed THEN UNCHANGED <<cascades, cleared, specs>>
     ELSE \E quizzes \in Takes :
            LET whole == IF Cardinality(quizzes) < MaxPerRun THEN DueCascades ELSE {} IN
            /\ Without(whole)
            /\ cleared' = [c \in Cascades |-> IF c \in quizzes \cup whole THEN "none" ELSE cleared[c]]
  /\ UNCHANGED <<asked, clears, searches, req, failures, export>>

InUse(t) == \E r \in Requests : req[r].id = t /\ Now(r, "spend")

PruneTokens ==
  /\ run.step = "prune"
  /\ run' = NoRun
  /\ spent' = {t \in spent : tokens[t] # "expired" \/ (~Slow /\ InUse(t))}
  /\ UNCHANGED <<asked, trash, searches, specs, req, failures, tokens, files>>

\* The instance stops, or a statement fails, for one because a listed user has
\* been deleted since; the lock goes with the connection or is released.
RunFails ==
  /\ run # NoRun /\ failures < MaxFailures
  /\ run' = NoRun /\ failures' = failures + 1
  /\ UNCHANGED <<asked, trash, searches, specs, req, export>>

-----------------------------------------------------------------------------
(* Exports                                                                 *)

MintToken(t) ==
  /\ "export" \in asked
  /\ tokens[t] = "none"
  /\ tokens' = [tokens EXCEPT ![t] = "valid"]
  /\ UNCHANGED <<asked, trash, searches, specs, req, purge, spent, files>>

TokenExpires(t) ==
  /\ tokens[t] = "valid"
  /\ tokens' = [tokens EXCEPT ![t] = "expired"]
  /\ UNCHANGED <<asked, trash, searches, specs, req, purge, spent, files>>

BeginExport(r, t) ==
  /\ Asks(r, "export")
  /\ tokens[t] = "valid"
  /\ Hold(r, [Idle EXCEPT !.op = "spend", !.id = t])
  /\ UNCHANGED <<asked, trash, searches, specs, purge, export>>

\* Mutant: the use is not looked up.
Unlooked(t) == TRUE

Unspent(t) == t \notin spent

\* The use is recorded before the rows are loaded, which may then be gone.
Spend(r) ==
  /\ Now(r, "spend")
  /\ LET t == req[r].id IN
     /\ spent' = spent \cup {t}
     /\ Hold(r, IF Unspent(t) THEN [req[r] EXCEPT !.op = "load"] ELSE Idle)
  /\ UNCHANGED <<asked, trash, searches, specs, purge, tokens, files>>

Load(r) ==
  /\ Now(r, "load")
  /\ \/ files' = [files EXCEPT ![req[r].id] = @ + 1]
     \/ UNCHANGED files
  /\ Finish(r)
  /\ UNCHANGED <<asked, trash, searches, specs, purge, tokens, spent>>

-----------------------------------------------------------------------------
PurgeTask == StartRun \/ PurgeUser \/ PruneTokens

Next ==
  \/ \E r \in Requests :
       \/ \E c \in Cascades : \/ BeginCreate(r, c)
                              \/ \E original \in Cascades : BeginStartOver(r, c, original)
       \/ CheckCreate(r) \/ Store(r)
       \/ \E s \in Searches, name \in Names, overwrite \in BOOLEAN : BeginSave(r, s, name, overwrite)
       \/ StoreSearch(r)
       \/ \E t \in Tokens : BeginExport(r, t)
       \/ Spend(r) \/ Load(r)
  \/ \E s \in Searches : RemoveSearch(s)
  \/ \E c \in Cascades : \/ Clear(c) \/ TrashCascade(c) \/ RestoreCascade(c) \/ RestoreQuiz(c)
                         \/ PurgeQuiz(c) \/ PurgeCascade(c) \/ Ripen(c)
  \/ \E t \in Tokens : MintToken(t) \/ TokenExpires(t)
  \/ PurgeTask \/ RunFails

Spec == Init /\ [][Next]_vars

\* The hourly task goes on.
FairSpec == Spec /\ WF_vars(PurgeTask)

-----------------------------------------------------------------------------
(* Properties                                                              *)

TypeOK ==
  /\ asked \subseteq AllKinds
  /\ cascades \in [Cascades -> {"none", "active", "trashed", "due"}]
  /\ cleared \in [Cascades -> {"none", "fresh", "due"}]
  /\ searches \in [Searches -> Names \cup {None}]
  /\ \A r \in Requests :
       /\ req[r].op \in {"idle", "again", "source", "count", "store", "save", "spend", "load"}
       /\ req[r].id \in Cascades \cup Searches \cup Tokens \cup {None}
       /\ req[r].original \in Cascades \cup {None}
  /\ run \in [step : {"idle", "purge", "prune"}, listed : BOOLEAN]
  /\ tokens \in [Tokens -> {"none", "valid", "expired"}] /\ spent \subseteq Tokens
  /\ files \in [Tokens -> Nat]
  /\ specs \subseteq Cascades \cup Searches

\* Two creations, or two saves, never both take the last slot, also between a
\* purge and a start over; the Trash counts.  Each cascade and each saved search
\* has a spec of its own, and no refusal, overwrite or purge leaves one behind.
WithinLimits ==
  /\ Cardinality(Held) <= MaxCascades
  /\ Cardinality(Saved) <= MaxSearches
  /\ specs = Held \cup Saved

\* A cleared quiz is purged after a full retention period in an active cascade,
\* and a cascade after one in the Trash: neither a restore that comes after
\* the purge run has listed the user nor the quizzes of a trashed cascade are
\* lost to it.
OnlyDueIsPurged ==
  [][run.step = "purge" /\ run'.step = "prune" =>
       \A c \in Cascades :
         /\ cascades[c] # "none" /\ cascades'[c] = "none" => cascades[c] = "due"
         /\ cascades'[c] # "none" /\ cleared[c] # cleared'[c] =>
              cascades[c] = "active" /\ cleared[c] = "due"]_vars

\* Whatever is past the retention period is purged or brought back, although
\* a run is bounded and may fail half way: again and again nothing is due.
TrashDrains == []<>(DueCascades = {} /\ DueQuizzes = {})

\* An export token is answered with at most one file, whatever instances it is
\* redeemed on and whenever its use is pruned.
OneFilePerToken == \A t \in Tokens : files[t] <= 1
=============================================================================
