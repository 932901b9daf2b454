------------------------------- MODULE Catalog -------------------------------
(***************************************************************************)
(* The catalog (catalog/mod.rs, store.rs, routes.rs).  Distributions,      *)
(* lexicons and leave sets are rows of the database; every instance of the *)
(* server builds an index of each in memory, its snapshot, and keeps it    *)
(* current by reconciling, once it is told of a change and by time.  What  *)
(* an instance has loaded it records in status rows, from which the public *)
(* listing is made.                                                        *)
(*                                                                         *)
(* The three serial ids are one counter here.  An instance id is minted by *)
(* each start of a process, so an instance that has stopped never returns. *)
(***************************************************************************)
EXTENDS Naturals, Sequences, FiniteSets

CONSTANTS
  Instances,   \* instance ids, one for each start of a process
  Names,       \* names given to distributions and lexicons
  Stored,      \* the rows there are before the first instance starts
  MaxItems,    \* bounds the uploads
  MaxErrors,   \* bounds the statements that fail and the stalls
  Faults       \* what goes wrong: "error", a failed statement of a reconcile;
               \* "status", a failed insert of a status row; "early", a request
               \* served before the startup load is complete; "stall", three
               \* minutes without a heartbeat of a running instance;
               \* "pruned", a purge run during a stall

Ids == 1 .. MaxItems
Kinds == {"distribution", "lexicon", "leave_set"}
NoParent == 0
Rows == [kind : Kinds, name : Names, parent : {NoParent} \cup Ids, deleted : BOOLEAN]
ParentKind == [lexicon |-> "distribution", leave_set |-> "lexicon"]

\* Two lists of a kind have two names; each lexicon has one set of leave values.
Clash(a, b) ==
  /\ a.kind = b.kind
  /\ IF a.kind = "leave_set" THEN a.parent = b.parent ELSE a.name = b.name

\* The references and the unique keys of the tables.
Consistent(rs) ==
  /\ \A id \in DOMAIN rs : rs[id].kind # "distribution" =>
       /\ rs[id].parent \in DOMAIN rs
       /\ rs[rs[id].parent].kind = ParentKind[rs[id].kind]
       /\ rs[rs[id].parent].deleted => rs[id].deleted
  /\ \A a, b \in DOMAIN rs : a # b /\ Clash(rs[a], rs[b]) => rs[a].deleted \/ rs[b].deleted

ASSUME CatalogAssumption ==
  /\ Stored \in Seq(Rows) /\ Len(Stored) <= MaxItems /\ Consistent(Stored)
  /\ MaxItems \in Nat /\ MaxErrors \in Nat
  /\ Faults \subseteq {"error", "status", "early", "stall", "pruned"}

VARIABLES
  rows,       \* letter_distributions, lexicons and leave_sets, by id
  snapshot,   \* per instance, the items it has an index of
  status,     \* catalog_instance_status: per instance and item, the heartbeat
  phase,      \* per instance, how far its startup is
  captured,   \* per instance, the snapshot write_all_status has read
  queue,      \* per instance, the reconciles waiting for its lock
  work,       \* per instance, the reconcile that holds the lock
  errors      \* statements that have failed, and stalls

vars == <<rows, snapshot, status, phase, captured, queue, work, errors>>

Idle == [step |-> "idle", boot |-> FALSE, items |-> {}, at |-> 0]

Init ==
  /\ rows = Stored
  /\ snapshot = [i \in Instances |-> {}]
  /\ status = [i \in Instances |-> [id \in Ids |-> "none"]]
  /\ phase = [i \in Instances |-> "new"]
  /\ captured = [i \in Instances |-> {}]
  /\ queue = [i \in Instances |-> {}]
  /\ work = [i \in Instances |-> Idle]
  /\ errors = 0

-----------------------------------------------------------------------------
(* Rows and requests                                                       *)

Exists(id) == id \in DOMAIN rows /\ ~rows[id].deleted
InDb(kind) == {id \in DOMAIN rows : Exists(id) /\ rows[id].kind = kind}
Running(i) == phase[i] \in {"starting", "booted", "ready"}

\* A request reaches a ready instance, or one that has bound its port and is
\* still loading.
Serves(i) == phase[i] = "ready" \/ ("early" \in Faults /\ Running(i))

\* The notification is delivered on commit to the instances whose listener is
\* connected, and the handler's instance reconciles in any case.
Committed(i) ==
  /\ \E heard \in SUBSET {j \in Instances : phase[j] = "ready"} :
       queue' = [j \in Instances |-> IF j \in heard \cup {i} THEN queue[j] \cup {"change"}
                                                             ELSE queue[j]]
  /\ UNCHANGED <<snapshot, status, phase, captured, work, errors>>

NameTaken(kind, name) == \E id \in InDb(kind) : rows[id].name = name

Insert(kind, name, parent) ==
  /\ Len(rows) < MaxItems
  /\ rows' = Append(rows, [kind |-> kind, name |-> name, parent |-> parent, deleted |-> FALSE])

\* Each upload looks at what it needs, parses for a while, and inserts; the
\* insert meets the same conditions again, as constraints of the tables.  An
\* upload that is refused changes nothing.
UploadDistribution(i, name) ==
  /\ Serves(i)
  /\ ~NameTaken("distribution", name)
  /\ Insert("distribution", name, NoParent)
  /\ Committed(i)

UploadLexicon(i, name, dist) ==
  /\ Serves(i)
  /\ ~NameTaken("lexicon", name)
  /\ dist \in InDb("distribution")
  /\ Insert("lexicon", name, dist)
  /\ Committed(i)

UploadLeaves(i, lexicon) ==
  /\ Serves(i)
  /\ lexicon \in InDb("lexicon")
  /\ \A id \in InDb("leave_set") : rows[id].parent # lexicon
  /\ Insert("leave_set", rows[lexicon].name, lexicon)
  /\ Committed(i)

\* Refused while something refers to the row; a deletion refused because of a
\* cascade changes nothing, so any deletion may be refused.
Delete(i, id) ==
  /\ Serves(i)
  /\ Exists(id)
  /\ \A c \in DOMAIN rows : Exists(c) => rows[c].parent # id
  /\ rows' = [rows EXCEPT ![id].deleted = TRUE]
  /\ Committed(i)

DeleteDistribution(i, id) == id \in InDb("distribution") /\ Delete(i, id)
DeleteLexicon(i, id) == id \in InDb("lexicon") /\ Delete(i, id)
DeleteLeaveSet(i, id) == id \in InDb("leave_set") /\ Delete(i, id)

-----------------------------------------------------------------------------
(* Reconcile                                                               *)

Now(i, step) == work[i].step = step
To(i, w) == work' = [work EXCEPT ![i] = w]

\* The lock is taken and the distributions are listed.
StartReconcile(i, why) ==
  /\ Now(i, "idle")
  /\ why \in queue[i]
  /\ queue' = [queue EXCEPT ![i] = @ \ {why}]
  /\ To(i, [step |-> "lexicons", boot |-> why = "boot", items |-> InDb("distribution"), at |-> 0])
  /\ UNCHANGED <<rows, snapshot, status, phase, captured, errors>>

\* Mutant: leave sets are listed before lexicons.
ChildrenFirst(step) == IF step = "lexicons" THEN "leave_set" ELSE "lexicon"

\* Each kind is listed by a statement of its own, parents first.
Listing(step) == IF step = "lexicons" THEN "lexicon" ELSE "leave_set"

\* With nothing left to build the lock is released; the startup goes on.
Building(w) == IF w.items = {} /\ ~w.boot THEN Idle ELSE [w EXCEPT !.step = "build", !.at = 0]

\* Once nothing is left to drop, items are those still to be built.
Dropping(i, w) ==
  IF snapshot[i] \subseteq w.items THEN Building([w EXCEPT !.items = @ \ snapshot[i]])
                                  ELSE [w EXCEPT !.step = "drop", !.at = 0]

List(i) ==
  /\ work[i].step \in {"lexicons", "leave_sets"}
  /\ LET w == [work[i] EXCEPT !.items = @ \cup InDb(Listing(work[i].step))]
     IN To(i, IF Now(i, "lexicons") THEN [w EXCEPT !.step = "leave_sets"] ELSE Dropping(i, w))
  /\ UNCHANGED <<rows, snapshot, status, phase, captured, queue, errors>>

Rank(id) == CASE rows[id].kind = "distribution" -> 1
              [] rows[id].kind = "lexicon" -> 2
              [] rows[id].kind = "leave_set" -> 3

\* What the database no longer has.
Stale(i) == snapshot[i] \ work[i].items

\* Leave sets, then lexicons, then distributions.
DropNext(i) == {id \in Stale(i) : \A o \in Stale(i) : Rank(id) >= Rank(o)}

Drop(i) ==
  /\ Now(i, "drop")
  /\ \E id \in DropNext(i) :
       /\ snapshot' = [snapshot EXCEPT ![i] = @ \ {id}]
       /\ To(i, [work[i] EXCEPT !.step = "drop_status", !.at = id])
  /\ UNCHANGED <<rows, status, phase, captured, queue, errors>>

DropStatus(i) ==
  /\ Now(i, "drop_status")
  /\ status' = [status EXCEPT ![i][work[i].at] = "none"]
  /\ To(i, Dropping(i, work[i]))
  /\ UNCHANGED <<rows, snapshot, phase, captured, queue, errors>>

\* Distributions, then lexicons, then leave sets, each by id.
BuildNext(i) == {id \in work[i].items : \A o \in work[i].items :
                   Rank(id) < Rank(o) \/ (Rank(id) = Rank(o) /\ id <= o)}

\* A parent without an index, or a row that is gone, is left to the next
\* reconcile.
Builds(i, id) ==
  /\ Exists(id)
  /\ rows[id].kind = "distribution" \/ rows[id].parent \in snapshot[i]

\* Mutant: rows are written while the startup load goes on.
AlwaysWrites(i) == TRUE

\* write_status writes nothing before the startup load is complete.
WritesStatus(i) == phase[i] = "ready"

Build(i) ==
  /\ Now(i, "build")
  /\ \E id \in BuildNext(i) :
       LET w == [work[i] EXCEPT !.items = @ \ {id}]
       IN IF ~Builds(i, id)
          THEN To(i, Building(w)) /\ UNCHANGED snapshot
          ELSE /\ snapshot' = [snapshot EXCEPT ![i] = @ \cup {id}]
               /\ To(i, IF WritesStatus(i) THEN [w EXCEPT !.step = "write_status", !.at = id]
                                           ELSE Building(w))
  /\ UNCHANGED <<rows, status, phase, captured, queue, errors>>

WriteStatus(i) ==
  /\ Now(i, "write_status")
  /\ status' = [status EXCEPT ![i][work[i].at] = "fresh"]
  /\ To(i, Building(work[i]))
  /\ UNCHANGED <<rows, snapshot, phase, captured, queue, errors>>

\* The startup's reconcile is complete.
Loaded(i) ==
  /\ Now(i, "build") /\ work[i].items = {}
  /\ To(i, Idle)
  /\ phase' = [phase EXCEPT ![i] = "booted"]
  /\ captured' = [captured EXCEPT ![i] = snapshot[i]]
  /\ UNCHANGED <<rows, snapshot, status, queue, errors>>

Stopped(i) ==
  /\ phase' = [phase EXCEPT ![i] = "down"]
  /\ snapshot' = [snapshot EXCEPT ![i] = {}]
  /\ captured' = [captured EXCEPT ![i] = {}]
  /\ queue' = [queue EXCEPT ![i] = {}]

\* A statement fails: the reconcile returns, and a startup exits.
Fail(i) ==
  /\ errors < MaxErrors
  /\ \/ "error" \in Faults /\ work[i].step \in {"lexicons", "leave_sets", "drop_status"}
     \/ "error" \in Faults /\ Now(i, "build") /\ work[i].items # {}
     \/ "status" \in Faults /\ Now(i, "write_status")
  /\ errors' = errors + 1
  /\ To(i, Idle)
  /\ IF work[i].boot THEN Stopped(i) ELSE UNCHANGED <<phase, snapshot, captured, queue>>
  /\ UNCHANGED <<rows, status>>

Reconcile(i) ==
  \/ \E why \in queue[i] : StartReconcile(i, why)
  \/ List(i) \/ Drop(i) \/ DropStatus(i) \/ Build(i) \/ WriteStatus(i) \/ Loaded(i)

-----------------------------------------------------------------------------
(* An instance's life, its heartbeat, and the purge task                   *)

Start(i) ==
  /\ phase[i] = "new"
  /\ phase' = [phase EXCEPT ![i] = "starting"]
  /\ queue' = [queue EXCEPT ![i] = {"boot"}]
  /\ UNCHANGED <<rows, snapshot, status, captured, work, errors>>

\* The rows of write_all_status in one transaction; ready; the listener's
\* first reconcile.
BecomeReady(i) ==
  /\ phase[i] = "booted"
  /\ status' = [status EXCEPT ![i] = [id \in Ids |-> IF id \in captured[i] THEN "fresh" ELSE @[id]]]
  /\ phase' = [phase EXCEPT ![i] = "ready"]
  /\ captured' = [captured EXCEPT ![i] = {}]
  /\ queue' = [queue EXCEPT ![i] = @ \cup {"change"}]
  /\ UNCHANGED <<rows, snapshot, work, errors>>

\* Mutant: only notifications cause a reconcile.
NoTick(i) == FALSE

\* The reconcile by time, and the one of a listener that has reconnected.
Tick(i) ==
  /\ phase[i] = "ready"
  /\ queue' = [queue EXCEPT ![i] = @ \cup {"change"}]
  /\ UNCHANGED <<rows, snapshot, status, phase, captured, work, errors>>

Crash(i) ==
  /\ Running(i)
  /\ Stopped(i)
  /\ To(i, Idle)
  /\ UNCHANGED <<rows, status, errors>>

Turned(i, from, to) ==
  /\ \E id \in Ids : status[i][id] = from
  /\ status' = [status EXCEPT ![i] = [id \in Ids |-> IF @[id] = from THEN to ELSE @[id]]]
  /\ UNCHANGED <<rows, snapshot, phase, captured, queue, work>>

\* Three minutes pass without a heartbeat.
Age(i) == phase[i] = "down" /\ Turned(i, "fresh", "stale") /\ UNCHANGED errors

Stall(i) ==
  /\ "stall" \in Faults /\ errors < MaxErrors
  /\ phase[i] = "ready" /\ Turned(i, "fresh", "stale")
  /\ errors' = errors + 1

Heartbeat(i) == phase[i] = "ready" /\ Turned(i, "stale", "fresh") /\ UNCHANGED errors

\* Of instances that are down, or were stalled when the task ran.
Prunes(i) == phase[i] = "down" \/ "pruned" \in Faults

Prune ==
  /\ \E i \in Instances, id \in Ids : Prunes(i) /\ status[i][id] = "stale"
  /\ status' = [i \in Instances |-> [id \in Ids |->
                  IF Prunes(i) /\ status[i][id] = "stale" THEN "none" ELSE status[i][id]]]
  /\ UNCHANGED <<rows, snapshot, phase, captured, queue, work, errors>>

Next ==
  \/ \E i \in Instances :
       \/ \E name \in Names : \/ UploadDistribution(i, name)
                              \/ \E dist \in Ids : UploadLexicon(i, name, dist)
       \/ \E id \in Ids : \/ UploadLeaves(i, id)
                          \/ DeleteDistribution(i, id)
                          \/ DeleteLexicon(i, id)
                          \/ DeleteLeaveSet(i, id)
       \/ Start(i) \/ Reconcile(i) \/ Fail(i) \/ BecomeReady(i) \/ Tick(i) \/ Crash(i)
       \/ Age(i) \/ Stall(i) \/ Heartbeat(i)
  \/ Prune

Spec == Init /\ [][Next]_vars

\* The background tasks of a running instance go on, and the clock too.
Fairness == \A i \in Instances : /\ WF_vars(Reconcile(i)) /\ WF_vars(BecomeReady(i))
                                 /\ WF_vars(Tick(i)) /\ WF_vars(Age(i))
                                 /\ WF_vars(Heartbeat(i))

FairSpec == Spec /\ Fairness

-----------------------------------------------------------------------------
(* What is read from the status rows                                       *)

LiveInstances == {i \in Instances : \E id \in Ids : status[i][id] = "fresh"}

\* Mutant: one live instance that has loaded it is enough.
LoadedBySome(id) == \E i \in LiveInstances : status[i][id] = "fresh"

LoadedByAll(id) == \A i \in LiveInstances : status[i][id] = "fresh"

\* GET /api/lexicons of instance i: the lexicons, and the leave sets whose
\* figures it shows with them.
Lexicons(i) == {id \in InDb("lexicon") : LoadedByAll(id) /\ id \in snapshot[i]}
Leaves(i) == {id \in InDb("leave_set") : /\ rows[id].parent \in Lexicons(i)
                                         /\ LoadedByAll(id) /\ id \in snapshot[i]}

-----------------------------------------------------------------------------
(* Properties                                                              *)

TypeOK ==
  /\ rows \in Seq(Rows) /\ Len(rows) <= MaxItems
  /\ snapshot \in [Instances -> SUBSET Ids]
  /\ captured \in [Instances -> SUBSET Ids]
  /\ status \in [Instances -> [Ids -> {"none", "fresh", "stale"}]]
  /\ phase \in [Instances -> {"new", "starting", "booted", "ready", "down"}]
  /\ queue \in [Instances -> SUBSET {"boot", "change"}]
  /\ work \in [Instances -> [step : {"idle", "lexicons", "leave_sets", "drop", "drop_status",
                                     "build", "write_status"},
                             boot : BOOLEAN, items : SUBSET Ids, at : {0} \cup Ids]]
  /\ errors \in 0 .. MaxErrors
  \* An instance writes no rows until its startup load is complete.
  /\ \A i \in Instances : \A id \in Ids :
       status[i][id] # "none" => phase[i] \in {"ready", "down"}

\* What an instance lists is in the snapshot of every running instance that
\* counts as live, at whatever step its reconcile is or has failed
\* (routes.rs: "no listed item can fail on another instance").
ListedIsServed ==
  \A i, j \in Instances :
    j \in LiveInstances /\ Running(j) => Lexicons(i) \cup Leaves(i) \subseteq snapshot[j]

\* A snapshot never has a lexicon without its distribution or leave values
\* without their lexicon, although the three kinds are listed by three
\* statements and dropped one by one; and never two lexicons of one name or two
\* leave sets of one lexicon, of which a lookup would take either, although a
\* list can be deleted and uploaded again between two of those statements
\* (mod.rs reconcile, Snapshot).
SnapshotsAreWhole ==
  \A i \in Instances :
    /\ \A id \in snapshot[i] :
         rows[id].kind # "distribution" => rows[id].parent \in snapshot[i]
    /\ \A a, b \in snapshot[i] : a # b => ~Clash(rows[a], rows[b])

\* A lexicon that is listed and not deleted stays listed, while its instance
\* runs, until an instance that is ready begins to count as live: one that is
\* still booting hides nothing (PLAN.md, Loading changes into running servers).
StartupHidesNothing ==
  [][\A j \in Instances : phase'[j] = phase[j] =>
       \A id \in Lexicons(j) :
         \/ id \in Lexicons(j)'
         \/ ~Exists(id)'
         \/ \E i \in LiveInstances' \ LiveInstances : phase'[i] = "ready"]_vars

\* Once nobody uploads or deletes any more, every ready instance lists every
\* lexicon and its leave values and has dropped what was deleted, whatever
\* notifications were lost, statements failed and instances stopped.
CatalogSettles ==
  <>[](\A i \in Instances : phase[i] = "ready" =>
         /\ \A id \in snapshot[i] : Exists(id)
         /\ Lexicons(i) = InDb("lexicon") /\ Leaves(i) = InDb("leave_set"))
=============================================================================
