---------------------------- MODULE ProjectStore ----------------------------
(***************************************************************************)
(* The project storage of the local API (storage.py) under concurrent      *)
(* requests.  Every EventStore object keeps a full copy of one project's   *)
(* rows in memory.  Three kinds of object exist: the process-wide store    *)
(* default_store() bound to the legacy project, the read views kept in a   *)
(* bounded LRU cache, and the stores opened for one revision-bound         *)
(* request.  A write builds its candidate from the copy in memory and      *)
(* commits it only if the durable revision is still the copy's.            *)
(*                                                                         *)
(* A load is a row of SELECTs on an autocommit connection, each its own    *)
(* read transaction, so other requests may commit between two of them.  It *)
(* is three steps here: the revision, the events, the remaining tables.    *)
(***************************************************************************)
EXTENDS ProjectData, Sequences, FiniteSets

CONSTANTS
    Thread,       \* request threads of the local HTTP server
    Slot,         \* identities of EventStore objects beside the process-wide one
    RootStore,    \* the EventStore default_store() returns
    None,         \* Python's None
    MaxViews,     \* MAX_CACHED_PROJECT_VIEWS
    MaxRevision,  \* bound: no write is requested beyond this revision
    Offered,      \* bound: the kinds of operation clients ask for
    Fault         \* faults that may happen: "write", "unconfirmed", "close", "read", "crash"

ASSUME StoreAssumption ==
    /\ RootStore \notin Slot
    /\ None \notin Slot \cup {RootStore} \cup Thread \cup Nat
    /\ MaxViews \in Nat \ {0}
    /\ MaxRevision \in Nat
    /\ Offered \subseteq {"append", "replace", "exclude", "label", "clear"}

StoreId == Slot \cup {RootStore}

VARIABLES
    status,    \* [Project -> "unborn" | "live" | "deleted"]   (table projects)
    durable,   \* [Project -> Rows]                            (the project's tables)
    active,    \* workspace_metadata.active_project_id
    heap,      \* [StoreId -> Store]: the EventStore objects of the process
    views,     \* _project_views, least recently used first
    viewLock,  \* the thread that holds _project_view_lock, or None
    req,       \* [Thread -> Request]: where each request stands
    acked,     \* [Project -> Nat]: the revision of the last revision-bound write answered "ok"
    answer     \* the answer the last step gave, or None

vars == <<status, durable, active, heap, views, viewLock, req, acked, answer>>

W == INSTANCE Workspace

Live == {p \in Project : status[p] = "live"}

Kinds == {"none", "read", "view_write", "bound_write", "root_write", "rename", "delete"}
Replies == {"ok", "conflict", "not_found", "invalid", "failed", "indeterminate", "recovery"}
Places == {"done", "lookup", "invalidate", "revision", "events", "rest", "use", "drop_view"}

(* open: not yet garbage; owner: the thread inside _mutation_lock.         *)
Store ==
    [open : BOOLEAN, project : Project, rows : Rows, blocked : BOOLEAN, owner : Thread \cup {None}]

(* why: what a load is for - a read view, a revision-bound store, the      *)
(* reconciliation of an uncertain commit, or that of a leaked connection.  *)
Request ==
    [pc : Places, kind : Kinds, project : Project, op : Operation \cup {None},
     expect : Nat \cup {None}, store : StoreId \cup {None}, buf : Rows,
     why : {"none", "view", "bound", "reconcile", "leaked"}, wrote : BOOLEAN]

Garbage ==
    [open |-> FALSE, project |-> Legacy, rows |-> NoRows, blocked |-> FALSE, owner |-> None]

Idle ==
    [pc |-> "done", kind |-> "none", project |-> Legacy, op |-> None, expect |-> None,
     store |-> None, buf |-> NoRows, why |-> "none", wrote |-> FALSE]

Loaded(p, rows) ==
    [open |-> TRUE, project |-> p, rows |-> rows, blocked |-> FALSE, owner |-> None]

Offers == {op \in Operation : op.kind \in Offered}

Opened == heap[RootStore].open

(* Objects no cache entry and no request refers to are reclaimed.          *)
Swept(h, vs, rq) ==
    [s \in StoreId |->
        IF \/ s = RootStore
           \/ \E i \in DOMAIN vs : vs[i] = s
           \/ \E t \in Thread : rq[t].store = s
        THEN h[s] ELSE Garbage]

Fresh(s) == s \in Slot /\ ~heap[s].open /\ \A t \in Thread : req[t].store # s

Init ==
    /\ W!Init
    /\ heap = [s \in StoreId |-> Garbage]
    /\ views = <<>>
    /\ viewLock = None
    /\ req = [t \in Thread |-> Idle]
    /\ acked = [p \in Project |-> 0]
    /\ answer = None

-----------------------------------------------------------------------------
(* Requests.                                                               *)

(* The bound of the model: writes already accepted count.                  *)
Pending(p) == {t \in Thread : req[t].pc # "done" /\ req[t].kind # "read" /\ req[t].project = p}
WithinBound(p) == durable[p].rev + Cardinality(Pending(p)) < MaxRevision

Arrive(t, request) ==
    /\ Opened
    /\ req[t].pc = "done"
    /\ req' = [req EXCEPT ![t] = request]
    /\ heap' = Swept(heap, views, req')
    /\ answer' = None
    /\ UNCHANGED <<status, durable, active, views, viewLock, acked>>

(* A dashboard read: for_project(p).snapshot().                            *)
ArriveRead(t, p) ==
    Arrive(t, [Idle EXCEPT !.pc = "lookup", !.kind = "read", !.project = p])

(* A write that carries no revision, such as the audit row of a stopped    *)
(* recording, goes through the shared read view.                           *)
ArriveViewWrite(t, p, op) ==
    /\ WithinBound(p)
    /\ Arrive(t, [Idle EXCEPT !.pc = "lookup", !.kind = "view_write", !.project = p, !.op = op])

(* A write that carries the revision the client last saw.                  *)
ArriveBoundWrite(t, p, op, seen) ==
    /\ WithinBound(p)
    /\ seen <= durable[p].rev
    /\ Arrive(t, [Idle EXCEPT !.pc = "invalidate", !.kind = "bound_write", !.project = p,
                              !.op = op, !.expect = seen])

(* A recorded event of the legacy project: default_store().append.  The    *)
(* agent exists only after a start request went through default_store(),   *)
(* and posts its first event an interval later: seeding is over by then.   *)
Seeding(t) == req[t].kind = "root_write" /\ req[t].op # None /\ req[t].op.kind = "replace"

ArriveRootWrite(t, op) ==
    /\ WithinBound(Legacy)
    /\ \A u \in Thread : ~Seeding(u)
    /\ Arrive(t, [Idle EXCEPT !.pc = "use", !.kind = "root_write", !.op = op, !.store = RootStore])

(* Mutant: the initialized flag is not consulted.                          *)
NeedsSeedWhenEmpty(rows) == rows.events = {}

NeedsSeed(rows) == rows.events = {} /\ ~rows.initialized

(* The first use of default_store() in a process opens the legacy project  *)
(* and seeds the sample into a workspace nobody has written to.  Nothing   *)
(* is returned, and no request can be served, if that project is gone.     *)
Open(t, sample) ==
    LET rows == durable[Legacy]
    IN  /\ ~Opened
        /\ Legacy \in Live
        /\ heap' = [heap EXCEPT ![RootStore] = Loaded(Legacy, rows)]
        /\ req' = IF NeedsSeed(rows)
                  THEN [req EXCEPT ![t] =
                          [Idle EXCEPT !.pc = "use", !.kind = "root_write", !.store = RootStore,
                                       !.op = [kind |-> "replace", event |-> sample]]]
                  ELSE req
        /\ answer' = None
        /\ UNCHANGED <<status, durable, active, views, viewLock, acked>>

(* The answer ends the request and drops its reference to a store.         *)
Answer(t, h, vs, reply) ==
    /\ req' = [req EXCEPT ![t] = Idle]
    /\ heap' = Swept(h, vs, req')
    /\ answer' = [reply |-> reply, wrote |-> req[t].wrote]

-----------------------------------------------------------------------------
(* for_project and the view cache.                                         *)

CachedAt(p) == {i \in DOMAIN views : heap[views[i]].project = p}
Without(i) == [j \in 1 .. Len(views) - 1 |-> IF j < i THEN views[j] ELSE views[j + 1]]

(* A hit moves the view to the recent end.                                 *)
LookupHit(t) ==
    /\ req[t].pc = "lookup"
    /\ viewLock = None
    /\ \E i \in CachedAt(req[t].project) :
          /\ views' = Append(Without(i), views[i])
          /\ req' = [req EXCEPT ![t].pc = "use", ![t].store = views[i]]
    /\ answer' = None
    /\ UNCHANGED <<status, durable, active, heap, viewLock, acked>>

(* Mutant: a miss does not wait for the view lock.                         *)
LookupMissUnlocked(t) ==
    /\ req[t].pc = "lookup"
    /\ CachedAt(req[t].project) = {}
    /\ \E s \in Slot :
          /\ Fresh(s)
          /\ req' = [req EXCEPT ![t].pc = "revision", ![t].store = s, ![t].why = "view"]
    /\ viewLock' = t
    /\ answer' = None
    /\ UNCHANGED <<status, durable, active, heap, views, acked>>

(* A miss builds the view while it holds the lock.                         *)
LookupMiss(t) ==
    /\ req[t].pc = "lookup"
    /\ viewLock = None
    /\ CachedAt(req[t].project) = {}
    /\ \E s \in Slot :
          /\ Fresh(s)
          /\ req' = [req EXCEPT ![t].pc = "revision", ![t].store = s, ![t].why = "view"]
    /\ viewLock' = t
    /\ answer' = None
    /\ UNCHANGED <<status, durable, active, heap, views, acked>>

Dropped(p) ==
    IF CachedAt(p) = {} THEN views ELSE Without(CHOOSE i \in CachedAt(p) : TRUE)

(* A revision-bound request drops the read view, then loads for itself.    *)
Invalidate(t) ==
    /\ req[t].pc = "invalidate"
    /\ viewLock = None
    /\ \E s \in Slot :
          /\ Fresh(s)
          /\ views' = Dropped(req[t].project)
          /\ req' = [req EXCEPT ![t].pc = "revision", ![t].store = s, ![t].why = "bound"]
    /\ heap' = Swept(heap, views', req')
    /\ answer' = None
    /\ UNCHANGED <<status, durable, active, viewLock, acked>>

(* _load, first SELECT: the revision, checked against the expected one.    *)
LoadRevision(t) ==
    LET p == req[t].project
    IN  /\ req[t].pc = "revision"
        /\ p \in Live
        /\ req[t].expect \in {None, durable[p].rev}
        /\ req' = [req EXCEPT ![t].pc = "events", ![t].buf = [NoRows EXCEPT !.rev = durable[p].rev]]
        /\ answer' = None
        /\ UNCHANGED <<status, durable, active, heap, views, viewLock, acked>>

LoadEvents(t) ==
    /\ req[t].pc = "events"
    /\ req' = [req EXCEPT ![t].pc = "rest", ![t].buf.events = durable[req[t].project].events]
    /\ answer' = None
    /\ UNCHANGED <<status, durable, active, heap, views, viewLock, acked>>

(* Mutant: the revision is read with the last tables, not first.           *)
RestRevisionLast(t) ==
    LET p == req[t].project
    IN  [req[t].buf EXCEPT !.labels = durable[p].labels, !.initialized = durable[p].initialized,
                           !.rev = durable[p].rev]

(* The rows in memory once the last SELECT of a load has run.              *)
Rest(t) ==
    LET p == req[t].project
    IN  [req[t].buf EXCEPT !.labels = durable[p].labels, !.initialized = durable[p].initialized]

(* Mutant: the eviction lets one view too many stay.                       *)
ViewLoadedOneTooMany(t) ==
    LET s == req[t].store
        grown == Append(views, s)
    IN  /\ req[t].pc = "rest" /\ req[t].why = "view"
        /\ views' = IF Len(grown) > MaxViews + 1 THEN Tail(grown) ELSE grown
        /\ viewLock' = None
        /\ req' = [req EXCEPT ![t].pc = "use", ![t].why = "none", ![t].buf = NoRows]
        /\ heap' = Swept([heap EXCEPT ![s] = Loaded(req[t].project, Rest(t))], views', req')
        /\ answer' = None
        /\ UNCHANGED <<status, durable, active, acked>>

(* A view is cached, the least recently used one evicted.                  *)
ViewLoaded(t) ==
    LET s == req[t].store
        grown == Append(views, s)
    IN  /\ req[t].pc = "rest" /\ req[t].why = "view"
        /\ views' = IF Len(grown) > MaxViews THEN Tail(grown) ELSE grown
        /\ viewLock' = None
        /\ req' = [req EXCEPT ![t].pc = "use", ![t].why = "none", ![t].buf = NoRows]
        /\ heap' = Swept([heap EXCEPT ![s] = Loaded(req[t].project, Rest(t))], views', req')
        /\ answer' = None
        /\ UNCHANGED <<status, durable, active, acked>>

BoundLoaded(t) ==
    /\ req[t].pc = "rest" /\ req[t].why = "bound"
    /\ req' = [req EXCEPT ![t].pc = "use", ![t].why = "none", ![t].buf = NoRows]
    /\ heap' = [heap EXCEPT ![req[t].store] = Loaded(req[t].project, Rest(t))]
    /\ answer' = None
    /\ UNCHANGED <<status, durable, active, views, viewLock, acked>>

(* Mutant: an uncertain commit is answered as one that changed nothing.    *)
ReconciledAsFailure(t) ==
    LET s == req[t].store
    IN  /\ req[t].pc = "rest" /\ req[t].why = "reconcile"
        /\ Answer(t, [heap EXCEPT ![s].rows = Rest(t), ![s].owner = None], views, "failed")
        /\ UNCHANGED <<status, durable, active, views, viewLock, acked>>

(* Memory converged with SQLite after an uncertain commit.                 *)
Reconciled(t) ==
    LET s == req[t].store
    IN  /\ req[t].pc = "rest" /\ req[t].why = "reconcile"
        /\ Answer(t, [heap EXCEPT ![s].rows = Rest(t), ![s].owner = None], views, "indeterminate")
        /\ UNCHANGED <<status, durable, active, views, viewLock, acked>>

(* Memory converged after a connection leaked: the store fails closed.     *)
LeakContained(t) ==
    LET s == req[t].store
    IN  /\ req[t].pc = "rest" /\ req[t].why = "leaked"
        /\ Answer(t, [heap EXCEPT ![s].rows = Rest(t), ![s].owner = None, ![s].blocked = TRUE],
                  views, "recovery")
        /\ UNCHANGED <<status, durable, active, views, viewLock, acked>>

(* A load that raises: the project is gone, its revision is not the        *)
(* expected one, or SQLite cannot be read.                                 *)
LoadError(t) ==
    LET p == req[t].project
    IN  IF p \notin Live THEN "not_found"
        ELSE IF req[t].expect \notin {None, durable[p].rev} THEN "conflict" ELSE "ok"

LoadRaises(t, error) ==
    \/ req[t].pc = "revision" /\ error = LoadError(t) /\ error # "ok"
    \/ req[t].pc \in {"revision", "events", "rest"} /\ "read" \in Fault /\ error = "failed"

OpeningFails(t) ==
    /\ req[t].why \in {"view", "bound"}
    /\ \E error \in Replies : LoadRaises(t, error) /\ Answer(t, heap, views, error)
    /\ viewLock' = IF req[t].why = "view" THEN None ELSE viewLock
    /\ UNCHANGED <<status, durable, active, views, acked>>

(* A reconciliation that cannot load leaves memory alone and fails closed. *)
ReconcileFails(t) ==
    LET s == req[t].store
    IN  /\ req[t].why \in {"reconcile", "leaked"}
        /\ \E error \in Replies : LoadRaises(t, error)
        /\ Answer(t, [heap EXCEPT ![s].owner = None, ![s].blocked = TRUE], views, "recovery")
        /\ UNCHANGED <<status, durable, active, views, viewLock, acked>>

-----------------------------------------------------------------------------
(* Snapshots and writes.                                                   *)

Ready(t) == req[t].pc = "use" /\ heap[req[t].store].owner = None

(* The reader's answer: one snapshot taken under the mutation lock.        *)
ReadSnapshot(t) ==
    /\ Ready(t) /\ req[t].kind = "read"
    /\ Answer(t, heap, views, "ok")
    /\ UNCHANGED <<status, durable, active, views, viewLock, acked>>

Writing(t) == Ready(t) /\ req[t].kind # "read"
Memory(t) == heap[req[t].store].rows
NeedsCommit(t) == Writing(t) /\ Accepts(req[t].op, Memory(t)) /\ ~IsNoOp(req[t].op, Memory(t))

(* Operations that end before _commit_candidate.                           *)
WriteEndsEarly(t) ==
    /\ Writing(t) /\ ~NeedsCommit(t)
    /\ Answer(t, heap, views, IF Accepts(req[t].op, Memory(t)) THEN "ok" ELSE "invalid")
    /\ UNCHANGED <<status, durable, active, views, viewLock, acked>>

WriteBlocked(t) ==
    /\ NeedsCommit(t) /\ heap[req[t].store].blocked
    /\ Answer(t, heap, views, "recovery")
    /\ UNCHANGED <<status, durable, active, views, viewLock, acked>>

(* Mutant: the durable revision is not compared with that of the copy.     *)
VerdictOfRequest(t) ==
    LET p == req[t].project
    IN  IF p \notin Live THEN "not_found"
        ELSE IF req[t].expect \notin {None, durable[p].rev} THEN "conflict" ELSE "ok"

(* _assert_expected_project_revision, inside BEGIN IMMEDIATE.              *)
Verdict(t) ==
    LET p == req[t].project
    IN  IF p \notin Live THEN "not_found"
        ELSE IF \/ req[t].expect \notin {None, durable[p].rev}
                \/ durable[p].rev # Memory(t).rev
             THEN "conflict" ELSE "ok"

Committing(t) == NeedsCommit(t) /\ ~heap[req[t].store].blocked

(* The transaction's effect, then memory takes the committed candidate.    *)
Persist(t) ==
    durable' = [durable EXCEPT ![req[t].project] = Candidate(req[t].op, Memory(t))]

CommitSucceeds(t) ==
    LET p == req[t].project
        rows == Candidate(req[t].op, Memory(t))
    IN  /\ Committing(t) /\ Verdict(t) = "ok"
        /\ Persist(t)
        /\ req' = [req EXCEPT ![t] = Idle]
        /\ heap' = Swept([heap EXCEPT ![req[t].store].rows = rows], views, req')
        /\ answer' = [reply |-> "ok", wrote |-> TRUE]
        /\ acked' = IF req[t].kind = "bound_write" THEN [acked EXCEPT ![p] = rows.rev] ELSE acked
        /\ UNCHANGED <<status, active, views, viewLock>>

(* A refused or failed write whose rollback is confirmed.                  *)
CommitRefused(t) ==
    /\ Committing(t)
    /\ \E reply \in {"not_found", "conflict", "failed"} :
          /\ IF reply = "failed" THEN "write" \in Fault /\ Verdict(t) = "ok" ELSE reply = Verdict(t)
          /\ Answer(t, heap, views, reply)
    /\ UNCHANGED <<status, durable, active, views, viewLock, acked>>

(* An error after COMMIT, a COMMIT of unknown outcome or a rollback that   *)
(* cannot be confirmed ("unconfirmed"), or a connection that cannot be     *)
(* closed ("close"): the rows may have been written or not, and memory is  *)
(* reloaded under the mutation lock.                                       *)
CommitUncertain(t, fault) ==
    LET why == IF fault = "close" THEN "leaked" ELSE "reconcile"
    IN  /\ fault \in Fault \cap {"unconfirmed", "close"}
        /\ Committing(t)
        /\ \E wrote \in BOOLEAN :
              /\ wrote => Verdict(t) = "ok"
              /\ IF wrote THEN Persist(t) ELSE UNCHANGED durable
              /\ req' = [req EXCEPT ![t].pc = "revision", ![t].why = why, ![t].wrote = wrote]
        /\ heap' = [heap EXCEPT ![req[t].store].owner = t]
        /\ answer' = None
        /\ UNCHANGED <<status, active, views, viewLock, acked>>

-----------------------------------------------------------------------------
(* The project catalogue.  Each operation is one transaction on a          *)
(* connection of its own; a rename or delete drops the view afterwards.    *)

CreateProject(t, p) ==
    /\ Opened /\ req[t].pc = "done"
    /\ status[p] = "unborn"
    /\ status' = [status EXCEPT ![p] = "live"]
    /\ answer' = None
    /\ UNCHANGED <<durable, active, heap, views, viewLock, req, acked>>

SelectProject(t, p) ==
    /\ Opened /\ req[t].pc = "done"
    /\ p \in Live
    /\ active' = p
    /\ answer' = None
    /\ UNCHANGED <<status, durable, heap, views, viewLock, req, acked>>

ThenDropView(t, kind, p) ==
    req' = [req EXCEPT ![t] = [Idle EXCEPT !.pc = "drop_view", !.kind = kind, !.project = p,
                                           !.wrote = TRUE]]

RenameProject(t, p, seen) ==
    /\ Opened /\ req[t].pc = "done"
    /\ p \in Live /\ WithinBound(p)
    /\ seen \in {None, durable[p].rev}
    /\ durable' = [durable EXCEPT ![p].rev = @ + 1]
    /\ ThenDropView(t, "rename", p)
    /\ answer' = None
    /\ UNCHANGED <<status, active, heap, views, viewLock, acked>>

(* Mutant: deleting the active project names no heir.                      *)
DeleteProjectOnly(t, p, seen) ==
    /\ Opened /\ req[t].pc = "done"
    /\ p \in Live
    /\ seen \in {None, durable[p].rev}
    /\ durable[p].events = {}
    /\ Live # {p}
    /\ status' = [status EXCEPT ![p] = "deleted"]
    /\ durable' = [durable EXCEPT ![p] = NoRows]
    /\ ThenDropView(t, "delete", p)
    /\ answer' = None
    /\ UNCHANGED <<active, heap, views, viewLock, acked>>

(* heir: the most recently updated other project.                          *)
DeleteProject(t, p, seen) ==
    /\ Opened /\ req[t].pc = "done"
    /\ p \in Live
    /\ seen \in {None, durable[p].rev}
    /\ durable[p].events = {}
    /\ \E heir \in Live \ {p} : active' = IF active = p THEN heir ELSE active
    /\ status' = [status EXCEPT ![p] = "deleted"]
    /\ durable' = [durable EXCEPT ![p] = NoRows]
    /\ ThenDropView(t, "delete", p)
    /\ answer' = None
    /\ UNCHANGED <<heap, views, viewLock, acked>>

(* Mutant: the view is dropped without waiting for one being built.        *)
DropViewUnlocked(t) ==
    /\ req[t].pc = "drop_view"
    /\ views' = Dropped(req[t].project)
    /\ Answer(t, heap, views', "ok")
    /\ UNCHANGED <<status, durable, active, viewLock, acked>>

DropView(t) ==
    /\ req[t].pc = "drop_view"
    /\ viewLock = None
    /\ views' = Dropped(req[t].project)
    /\ Answer(t, heap, views', "ok")
    /\ UNCHANGED <<status, durable, active, viewLock, acked>>

-----------------------------------------------------------------------------
(* A crash or restart of the API process loses everything but SQLite.      *)
Crash ==
    /\ "crash" \in Fault
    /\ heap' = [s \in StoreId |-> Garbage]
    /\ views' = <<>>
    /\ viewLock' = None
    /\ req' = [t \in Thread |-> Idle]
    /\ answer' = None
    /\ UNCHANGED <<status, durable, active, acked>>

(* The steps a request takes once it has arrived.                          *)
Step(t) ==
    \/ LookupHit(t) \/ LookupMiss(t) \/ Invalidate(t)
    \/ LoadRevision(t) \/ LoadEvents(t)
    \/ ViewLoaded(t) \/ BoundLoaded(t) \/ Reconciled(t) \/ LeakContained(t)
    \/ OpeningFails(t) \/ ReconcileFails(t)
    \/ ReadSnapshot(t)
    \/ WriteEndsEarly(t) \/ WriteBlocked(t)
    \/ CommitSucceeds(t) \/ CommitRefused(t)
    \/ \E fault \in Fault : CommitUncertain(t, fault)
    \/ DropView(t)

Arrival(t) ==
    \E p \in Project :
        \/ ArriveRead(t, p)
        \/ \E op \in Offers : ArriveViewWrite(t, p, op)
        \/ \E op \in Offers, seen \in 0 .. MaxRevision : ArriveBoundWrite(t, p, op, seen)
        \/ CreateProject(t, p)
        \/ SelectProject(t, p)
        \/ \E seen \in {None, durable[p].rev} : RenameProject(t, p, seen) \/ DeleteProject(t, p, seen)

Next ==
    \/ \E t \in Thread :
          \/ Step(t)
          \/ Arrival(t)
          \/ \E op \in Offers : op.kind = "append" /\ ArriveRootWrite(t, op)
          \/ \E sample \in Event : Open(t, sample)
    \/ Crash

Spec == Init /\ [][Next]_vars

(* A request thread that has work keeps running; nothing forces a client   *)
(* to send a request, a fault to happen or the process to crash.           *)
Fairness == \A t \in Thread : WF_vars(Step(t))

FairSpec == Spec /\ Fairness

-----------------------------------------------------------------------------
(* Properties.                                                             *)

(* Every variable has its type and the cache holds at most MaxViews objects*)
TypeOK ==
    /\ W!TypeOK
    /\ heap \in [StoreId -> Store]
    /\ views \in Seq(Slot) /\ Len(views) <= MaxViews
    /\ viewLock \in Thread \cup {None}
    /\ req \in [Thread -> Request]
    /\ acked \in [Project -> Nat]
    /\ answer \in [reply : Replies, wrote : BOOLEAN] \cup {None}

(* A copy in memory is never ahead of SQLite, and a copy that carries the  *)
(* durable revision is the durable rows: this is why comparing revisions   *)
(* is enough for _commit_candidate to detect every intervening write, also *)
(* for a copy whose SELECTs were interleaved with another commit.          *)
CopyAgrees(p, rows) ==
    p \in Live => /\ rows.rev <= durable[p].rev
                  /\ rows.rev = durable[p].rev => rows = durable[p]

Coherent == \A s \in StoreId : heap[s].open => CopyAgrees(heap[s].project, heap[s].rows)

(* What the workspace promises of its catalogue holds of the database      *)
(* behind the stores: delete_project always leaves an active project, and  *)
(* _candidate no label whose event is gone.                                *)
CatalogueSound == W!WorkspaceInv

(* No update is lost: whatever the interleaving of loads, writes, faults   *)
(* and restarts, the database moves only by the workspace's own steps, an  *)
(* operation always applied to the rows the previous write left.           *)
ImplementsWorkspace == W!Spec

(* The answers of _commit_candidate: a write refused or answered with "No  *)
(* changes were applied" did not reach SQLite, not even through a fault    *)
(* whose outcome was uncertain when it happened.                           *)
RefusedMeansUnchanged ==
    answer # None /\ answer.reply \in {"conflict", "not_found", "invalid", "failed"} => ~answer.wrote

(* for_project builds a missing view under _project_view_lock, so parallel *)
(* dashboard reads never cache two views of one project.                   *)
OneViewPerProject ==
    \A i, j \in DOMAIN views : heap[views[i]].project = heap[views[j]].project => i = j

(* A deleted project leaves the view cache: delete_project drops the view  *)
(* after its transaction, and a view being built meanwhile is dropped too. *)
NoViewOfDeletedProject ==
    \A i \in DOMAIN views :
        LET p == heap[views[i]].project
        IN  p \notin Live => \E t \in Thread : req[t].pc = "drop_view" /\ req[t].project = p

(* default_store seeds the sample only into a workspace nobody wrote to,   *)
(* even when another request writes between its snapshot and its commit,   *)
(* and never again after the user cleared the data and restarted.          *)
NeverReseeds ==
    [][\A t \in Thread :
          Seeding(t) /\ req'[t] # req[t] /\ durable' # durable
              => durable[Legacy].events = {} /\ ~durable[Legacy].initialized]_vars

(* storage.py:245: "Drop any read view so the next unversioned dashboard   *)
(* refresh cannot reuse a stale pre-mutation snapshot."  A cached view is  *)
(* at least as recent as the last revision-bound write that was answered.  *)
NoStaleRefresh ==
    \A i \in DOMAIN views :
        LET view == heap[views[i]] IN view.project \in Live => view.rows.rev >= acked[view.project]

(* storage.py:125: "One self-consistent local state observed by a reader   *)
(* or mutation."  Every copy a request can snapshot satisfies what         *)
(* _candidate enforces, labels only on events that exist.                  *)
SelfConsistentSnapshot ==
    \A s \in StoreId : heap[s].open => heap[s].rows.labels \subseteq heap[s].rows.events

(* storage.py:407: "keep at least one project available".  After a restart *)
(* the store of the process opens again.                                   *)
Reopens == ~Opened ~> Opened

(* The desktop starts the process and asks for its projects.               *)
RestartSpec == FairSpec /\ WF_vars(\E t \in Thread, sample \in Event : Open(t, sample))
=============================================================================
