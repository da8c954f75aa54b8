------------------------- MODULE ProjectStoreProofs -------------------------
(***************************************************************************)
(* Proofs about ProjectStore for any number of threads, projects, events,  *)
(* stores, cached views and revisions, with every fault.                   *)
(***************************************************************************)
EXTENDS ProjectStore, SequenceTheorems, TLAPS

Loading(t) == req[t].pc \in {"revision", "events", "rest"}
Opening(t) == Loading(t) /\ req[t].why \in {"view", "bound"}
Repairing(t) == Loading(t) /\ req[t].why \in {"reconcile", "leaked"}

(* A request that reaches an operation carries one, and a load says why.   *)
WellFormed(r) ==
    /\ r.kind \in {"view_write", "bound_write", "root_write"} => r.op \in Operation
    /\ r.pc \in {"use", "revision", "events", "rest"}
          => r.kind \in {"read", "view_write", "bound_write", "root_write"}
    /\ r.pc \in {"revision", "events", "rest"} <=> r.why # "none"
    /\ r.pc \in {"done", "lookup", "invalidate", "drop_view"} <=> r.store = None

RequestShape == \A t \in Thread : WellFormed(req[t])

(* The object a request refers to: one being built is referenced by        *)
(* nothing else, any other is an open copy of the request's project.       *)
References ==
    \A t \in Thread :
        /\ req[t].pc = "use" \/ Repairing(t)
              => heap[req[t].store].open /\ heap[req[t].store].project = req[t].project
        /\ Opening(t) =>
              /\ req[t].store \in Slot
              /\ ~heap[req[t].store].open
              /\ \A u \in Thread \ {t} : req[u].store # req[t].store

CachedViewsOpen == \A i \in DOMAIN views : heap[views[i]].open

RootBound == Opened => heap[RootStore].project = Legacy

Bindings == References /\ CachedViewsOpen /\ RootBound

(* Identifiers are fresh: nothing refers to a project yet to be created.   *)
NoneUnborn ==
    /\ \A s \in StoreId : heap[s].open => status[heap[s].project] # "unborn"
    /\ \A t \in Thread : req[t].pc \in {"events", "rest"} => status[req[t].project] # "unborn"

(* What an unfinished load has read so far.                                *)
LoadsAgree ==
    \A t \in Thread :
        LET p == req[t].project
        IN  /\ req[t].pc \in {"events", "rest"} /\ p \in Live => req[t].buf.rev <= durable[p].rev
            /\ req[t].pc = "rest" /\ p \in Live /\ req[t].buf.rev = durable[p].rev
                  => req[t].buf.events = durable[p].events

IInv ==
    /\ TypeOK
    /\ RequestShape
    /\ Bindings
    /\ NoneUnborn
    /\ LoadsAgree
    /\ Coherent
-----------------------------------------------------------------------------
(* Operators.                                                              *)

LEMMA NoRowsType == NoRows \in Rows
  BY DEF NoRows, Rows

LEMMA EditedRows ==
  ASSUME NEW op \in Operation, NEW rows \in Rows
  PROVE  Edited(op, rows) \in Rows /\ Edited(op, rows).rev = rows.rev
<1>1. CASE op.kind = "append"
  BY <1>1 DEF Edited, Operation, Rows
<1>2. CASE op.kind = "replace"
  BY <1>2 DEF Edited, Operation, Rows
<1>3. CASE op.kind = "exclude"
  BY <1>3 DEF Edited, Operation, Rows
<1>4. CASE op.kind = "label"
  BY <1>4 DEF Edited, Operation, Rows
<1>5. CASE op.kind = "clear"
  BY <1>5 DEF Edited, Operation, Rows
<1>6. QED BY <1>1, <1>2, <1>3, <1>4, <1>5 DEF Operation

LEMMA CandidateRows ==
  ASSUME NEW op \in Operation, NEW rows \in Rows
  PROVE  /\ Candidate(op, rows) \in Rows
         /\ Candidate(op, rows).rev = rows.rev + 1
<1> DEFINE edited == Edited(op, rows)
           live == edited.labels \cap edited.events
           next == edited.rev + 1
<1>1. edited \in Rows /\ edited.rev = rows.rev
  BY EditedRows
<1>2. live \in SUBSET Event /\ next \in Nat
  BY <1>1 DEF Rows
<1>3. Candidate(op, rows) = [edited EXCEPT !.labels = live, !.rev = next]
  BY DEF Candidate
<1>4. next = rows.rev + 1
  BY <1>1
<1>5. edited \in Rows
  BY <1>1
<1> HIDE DEF edited, live, next
<1>6. QED BY <1>2, <1>3, <1>4, <1>5 DEF Rows

LEMMA GarbageType == Garbage \in Store /\ ~Garbage.open
  BY NoRowsType, LegacyAssumption DEF Garbage, Store

LEMMA IdleType == Idle \in Request
  BY NoRowsType, LegacyAssumption DEF Idle, Request, Places, Kinds

LEMMA LoadedType ==
  ASSUME NEW p \in Project, NEW rows \in Rows
  PROVE  Loaded(p, rows) \in Store
  BY DEF Loaded, Store

LEMMA SweptType ==
  ASSUME NEW h \in [StoreId -> Store], NEW vs, NEW rq
  PROVE  Swept(h, vs, rq) \in [StoreId -> Store]
  BY GarbageType DEF Swept

(* Removing a view, or moving one to the recent end.                       *)
LEMMA WithoutType ==
  ASSUME views \in Seq(Slot), NEW i \in DOMAIN views
  PROVE  /\ Without(i) \in Seq(Slot)
         /\ Len(Without(i)) = Len(views) - 1
         /\ \A j \in DOMAIN Without(i) : \E k \in DOMAIN views \ {i} : Without(i)[j] = views[k]
<1> DEFINE e(j) == IF j < i THEN views[j] ELSE views[j + 1]
<1>1. Len(views) \in Nat /\ DOMAIN views = 1 .. Len(views) /\ i \in 1 .. Len(views)
  BY LenProperties
<1>2. \A j \in 1 .. Len(views) - 1 : \E k \in DOMAIN views \ {i} : e(j) = views[k]
  <2> SUFFICES ASSUME NEW j \in 1 .. Len(views) - 1
               PROVE  \E k \in DOMAIN views \ {i} : e(j) = views[k]
    OBVIOUS
  <2>1. CASE j < i
    BY <1>1, <2>1
  <2>2. CASE ~(j < i)
    BY <1>1, <2>2
  <2>3. QED BY <2>1, <2>2
<1>3. \A k \in DOMAIN views : views[k] \in Slot
  BY <1>1, ElementOfSeq
<1>4. \A j \in 1 .. Len(views) - 1 : e(j) \in Slot
  BY <1>2, <1>3
<1>5. Without(i) = [j \in 1 .. Len(views) - 1 |-> e(j)]
  BY DEF Without
<1>6. Len(views) - 1 \in Nat
  BY <1>1
<1> HIDE DEF e
<1>7. Without(i) \in Seq(Slot)
  <2>1. Without(i) \in [1 .. Len(views) - 1 -> Slot]
    BY <1>4, <1>5
  <2>2. QED BY <2>1, <1>6, SeqDef
<1>8. Len(Without(i)) = Len(views) - 1 /\ DOMAIN Without(i) = 1 .. Len(views) - 1
  BY <1>5, <1>6, <1>7, LenProperties
<1>9. QED BY <1>2, <1>5, <1>7, <1>8
-----------------------------------------------------------------------------
(* Types.                                                                  *)

LEMMA WorkspaceTypes ==
  W!TypeOK <=> /\ status \in [Project -> {"unborn", "live", "deleted"}]
               /\ durable \in [Project -> Rows]
               /\ active \in Project
  BY DEF W!TypeOK, W!Rows, Rows

LEMMA WorkspaceTypesNext ==
  W!TypeOK' <=> /\ status' \in [Project -> {"unborn", "live", "deleted"}]
                /\ durable' \in [Project -> Rows]
                /\ active' \in Project
  BY DEF W!TypeOK, W!Rows, Rows

LEMMA RowsUpdate ==
  ASSUME NEW rows \in Rows, NEW rev \in Nat, NEW events \in SUBSET Event,
         NEW labels \in SUBSET Event, NEW initialized \in BOOLEAN
  PROVE  /\ [rows EXCEPT !.rev = rev] \in Rows
         /\ [rows EXCEPT !.events = events] \in Rows
         /\ [rows EXCEPT !.labels = labels, !.initialized = initialized] \in Rows
  BY DEF Rows

(* The forms in which a step moves its request.                            *)
LEMMA RequestUpdate ==
  ASSUME NEW r \in Request, NEW pc \in Places, NEW store \in StoreId \cup {None},
         NEW why \in {"none", "view", "bound", "reconcile", "leaked"}, NEW buf \in Rows,
         NEW wrote \in BOOLEAN
  PROVE  /\ [r EXCEPT !.pc = pc, !.store = store] \in Request
         /\ [r EXCEPT !.pc = pc, !.store = store, !.why = why] \in Request
         /\ [r EXCEPT !.pc = pc, !.buf = buf] \in Request
         /\ [r EXCEPT !.pc = pc, !.why = why, !.buf = buf] \in Request
         /\ [r EXCEPT !.pc = pc, !.why = why, !.wrote = wrote] \in Request
  BY DEF Request

LEMMA AnswerTypes ==
  ASSUME TypeOK, NEW t \in Thread, NEW h \in [StoreId -> Store], NEW vs,
         NEW reply \in Replies, Answer(t, h, vs, reply)
  PROVE  /\ req' \in [Thread -> Request]
         /\ heap' \in [StoreId -> Store]
         /\ answer' \in [reply : Replies, wrote : BOOLEAN]
<1>1. req \in [Thread -> Request]
  BY DEF TypeOK
<1>2. req' \in [Thread -> Request]
  BY <1>1, IdleType DEF Answer
<1>3. heap' \in [StoreId -> Store]
  BY SweptType DEF Answer
<1>4. req[t].wrote \in BOOLEAN
  BY <1>1 DEF Request
<1>5. QED BY <1>2, <1>3, <1>4 DEF Answer

LEMMA StoreUpdate ==
  ASSUME heap \in [StoreId -> Store], NEW s \in StoreId, NEW rows \in Rows,
         NEW owner \in Thread \cup {None}, NEW blocked \in BOOLEAN
  PROVE  /\ [heap EXCEPT ![s].rows = rows] \in [StoreId -> Store]
         /\ [heap EXCEPT ![s].owner = owner] \in [StoreId -> Store]
         /\ [heap EXCEPT ![s].owner = owner, ![s].blocked = blocked] \in [StoreId -> Store]
         /\ [heap EXCEPT ![s].rows = rows, ![s].owner = owner] \in [StoreId -> Store]
         /\ [heap EXCEPT ![s].rows = rows, ![s].owner = owner, ![s].blocked = blocked]
               \in [StoreId -> Store]
  BY DEF Store

(* What a request names.                                                   *)
LEMMA RequestTypes ==
  ASSUME TypeOK, NEW t \in Thread
  PROVE  /\ req[t] \in Request
         /\ req[t].project \in Project
         /\ req[t].buf \in Rows
         /\ durable[req[t].project] \in Rows
         /\ durable[req[t].project].rev \in Nat
         /\ durable[req[t].project].events \in SUBSET Event
         /\ durable[req[t].project].labels \in SUBSET Event
         /\ durable[req[t].project].initialized \in BOOLEAN
<1>1. req[t] \in Request /\ req[t].project \in Project /\ req[t].buf \in Rows
  BY DEF TypeOK, Request
<1>2. durable \in [Project -> Rows]
  BY WorkspaceTypes DEF TypeOK
<1>3. durable[req[t].project] \in Rows
  BY <1>1, <1>2
<1>4. QED BY <1>1, <1>3 DEF Rows

LEMMA RestType ==
  ASSUME TypeOK, NEW t \in Thread
  PROVE  Rest(t) \in Rows
  BY RequestTypes, RowsUpdate DEF Rest

LEMMA MemoryType ==
  ASSUME TypeOK, NEW t \in Thread, req[t].store # None
  PROVE  /\ req[t].store \in StoreId
         /\ Memory(t) \in Rows
<1>1. req[t].store \in StoreId
  BY DEF TypeOK, Request
<1>2. heap[req[t].store] \in Store
  BY <1>1 DEF TypeOK
<1>3. QED BY <1>1, <1>2 DEF Memory, Store

LEMMA DroppedType ==
  ASSUME views \in Seq(Slot), NEW p
  PROVE  Dropped(p) \in Seq(Slot) /\ Len(Dropped(p)) <= Len(views)
<1>1. CASE CachedAt(p) = {}
  BY <1>1, LenProperties DEF Dropped
<1>2. CASE CachedAt(p) # {}
  <2>1. PICK i \in DOMAIN views : Dropped(p) = Without(i)
    BY <1>2 DEF Dropped, CachedAt
  <2>2. QED BY <2>1, WithoutType, LenProperties
<1>3. QED BY <1>1, <1>2

LEMMA StepTypes ==
  ASSUME TypeOK, RequestShape, References, NEW t \in Thread, Step(t)
  PROVE  TypeOK'
<1> USE DEF TypeOK
<1> DEFINE r == req[t]
           p == r.project
           s == r.store
<1>a. /\ req \in [Thread -> Request] /\ r \in Request
      /\ p \in Project /\ r.buf \in Rows /\ durable[p] \in Rows
      /\ \A f \in Request : [req EXCEPT ![t] = f] \in [Thread -> Request]
  BY RequestTypes
<1>1. CASE LookupHit(t)
  <2> PICK i \in CachedAt(p) :
         /\ views' = Append(Without(i), views[i])
         /\ req' = [req EXCEPT ![t].pc = "use", ![t].store = views[i]]
    BY <1>1 DEF LookupHit
  <2>1. i \in DOMAIN views /\ i \in 1 .. Len(views) /\ views[i] \in Slot
    BY ElementOfSeq, LenProperties DEF CachedAt
  <2>2. Without(i) \in Seq(Slot) /\ Len(Without(i)) = Len(views) - 1
    BY <2>1, WithoutType
  <2>3. views' \in Seq(Slot) /\ Len(views') = Len(views)
    BY <2>1, <2>2
  <2>4. [r EXCEPT !.pc = "use", !.store = views[i]] \in Request
    BY <2>1, <1>a, RequestUpdate, NoRowsType DEF Places, StoreId
  <2>5. req' \in [Thread -> Request]
    BY <2>4, <1>a
  <2>6. QED BY <1>1, <2>3, <2>5 DEF LookupHit, W!TypeOK
<1>2. CASE LookupMiss(t)
  <2>1. PICK x \in Slot : req' = [req EXCEPT ![t].pc = "revision", ![t].store = x, ![t].why = "view"]
    BY <1>2 DEF LookupMiss
  <2>2. [r EXCEPT !.pc = "revision", !.store = x, !.why = "view"] \in Request
    BY <1>a, RequestUpdate DEF Places, StoreId
  <2>3. req' \in [Thread -> Request]
    BY <2>1, <2>2, <1>a
  <2>4. QED BY <1>2, <2>3 DEF LookupMiss, W!TypeOK
<1>4. CASE LoadRevision(t)
  <2>1. [NoRows EXCEPT !.rev = durable[p].rev] \in Rows
    BY NoRowsType, RequestTypes, RowsUpdate
  <2>2. [r EXCEPT !.pc = "events", !.buf = [NoRows EXCEPT !.rev = durable[p].rev]] \in Request
    BY <1>a, <2>1, RequestUpdate DEF Places
  <2>3. req' \in [Thread -> Request]
    BY <1>4, <1>a, <2>2 DEF LoadRevision
  <2>4. QED BY <1>4, <2>3 DEF LoadRevision, W!TypeOK
<1>5. CASE LoadEvents(t)
  <2>1. [r.buf EXCEPT !.events = durable[p].events] \in Rows
    BY RequestTypes, RowsUpdate
  <2>2. [r EXCEPT !.pc = "rest", !.buf = [r.buf EXCEPT !.events = durable[p].events]] \in Request
    BY <1>a, <2>1, RequestUpdate DEF Places
  <2>3. req' \in [Thread -> Request]
    BY <1>5, <1>a, <2>2 DEF LoadEvents
  <2>4. QED BY <1>5, <2>3 DEF LoadEvents, W!TypeOK
<1>6. CASE ViewLoaded(t)
  <2> DEFINE grown == Append(views, s)
  <2>1. s \in Slot
    BY <1>6 DEF ViewLoaded, References, Opening, Loading
  <2>2. grown \in Seq(Slot) /\ Len(grown) = Len(views) + 1 /\ Len(views) \in Nat
    BY <2>1, LenProperties
  <2>3. views' \in Seq(Slot) /\ Len(views') <= MaxViews
    <3>1. CASE Len(grown) > MaxViews
      <4>1. grown # << >>
        BY <2>2, EmptySeq
      <4>2. Tail(grown) \in Seq(Slot) /\ Len(Tail(grown)) = Len(grown) - 1
        BY <4>1, <2>2, HeadTailProperties
      <4>3. QED BY <1>6, <2>2, <3>1, <4>2, StoreAssumption DEF ViewLoaded
    <3>2. CASE ~(Len(grown) > MaxViews)
      BY <1>6, <2>2, <3>2, StoreAssumption DEF ViewLoaded
    <3>3. QED BY <3>1, <3>2
  <2>4. [r EXCEPT !.pc = "use", !.why = "none", !.buf = NoRows] \in Request
    BY <1>a, NoRowsType, RequestUpdate DEF Places
  <2>5. req' \in [Thread -> Request]
    BY <1>6, <1>a, <2>4 DEF ViewLoaded
  <2>6. [heap EXCEPT ![s] = Loaded(p, Rest(t))] \in [StoreId -> Store]
    BY RestType, LoadedType, <2>1, <1>a DEF StoreId
  <2>7. heap' \in [StoreId -> Store]
    BY <1>6, <2>6, SweptType DEF ViewLoaded
  <2>8. QED BY <1>6, <2>3, <2>5, <2>7 DEF ViewLoaded, W!TypeOK
<1>7. CASE BoundLoaded(t)
  <2>1. [r EXCEPT !.pc = "use", !.why = "none", !.buf = NoRows] \in Request
    BY <1>a, NoRowsType, RequestUpdate DEF Places
  <2>2. req' \in [Thread -> Request]
    BY <1>7, <1>a, <2>1 DEF BoundLoaded
  <2>3. heap' \in [StoreId -> Store]
    BY <1>7, <1>a, RestType, LoadedType DEF BoundLoaded
  <2>4. QED BY <1>7, <2>2, <2>3 DEF BoundLoaded, W!TypeOK
<1>8. CASE Reconciled(t)
  <2> DEFINE h == [heap EXCEPT ![s].rows = Rest(t), ![s].owner = None]
  <2>1. s \in StoreId
    BY <1>8, MemoryType DEF Reconciled, RequestShape, WellFormed
  <2>2. h \in [StoreId -> Store]
    BY <2>1, RestType, StoreUpdate
  <2> HIDE DEF h
  <2>3. Answer(t, h, views, "indeterminate")
    BY <1>8 DEF Reconciled, h
  <2>4. QED BY <1>8, <2>2, <2>3, AnswerTypes DEF Reconciled, Replies, W!TypeOK
<1>3. CASE Invalidate(t)
  <2>1. PICK x \in Slot :
          req' = [req EXCEPT ![t].pc = "revision", ![t].store = x, ![t].why = "bound"]
    BY <1>3 DEF Invalidate
  <2>2. [r EXCEPT !.pc = "revision", !.store = x, !.why = "bound"] \in Request
    BY <1>a, RequestUpdate DEF Places, StoreId
  <2>3. req' \in [Thread -> Request]
    BY <2>1, <2>2, <1>a
  <2>4. heap' \in [StoreId -> Store]
    BY <1>3, SweptType DEF Invalidate
  <2>5. views' \in Seq(Slot) /\ Len(views') <= MaxViews
    BY <1>3, DroppedType, LenProperties, StoreAssumption DEF Invalidate
  <2>6. QED BY <1>3, <2>3, <2>4, <2>5 DEF Invalidate, W!TypeOK
<1>9. CASE LeakContained(t)
  <2> DEFINE h == [heap EXCEPT ![s].rows = Rest(t), ![s].owner = None, ![s].blocked = TRUE]
  <2>1. s \in StoreId
    BY <1>9, MemoryType DEF LeakContained, RequestShape, WellFormed
  <2>2. h \in [StoreId -> Store]
    BY <2>1, RestType, StoreUpdate
  <2> HIDE DEF h
  <2>3. Answer(t, h, views, "recovery")
    BY <1>9 DEF LeakContained, h
  <2>4. QED BY <1>9, <2>2, <2>3, AnswerTypes DEF LeakContained, Replies, W!TypeOK
<1>10. CASE OpeningFails(t)
  <2>1. PICK error \in Replies : Answer(t, heap, views, error)
    BY <1>10 DEF OpeningFails
  <2>2. QED BY <1>10, <2>1, AnswerTypes DEF OpeningFails, W!TypeOK
<1>11. CASE ReconcileFails(t)
  <2> DEFINE h == [heap EXCEPT ![s].owner = None, ![s].blocked = TRUE]
  <2>1. s \in StoreId
    BY <1>11, MemoryType DEF ReconcileFails, RequestShape, WellFormed
  <2>2. h \in [StoreId -> Store]
    BY <2>1, NoRowsType, StoreUpdate
  <2> HIDE DEF h
  <2>3. Answer(t, h, views, "recovery")
    BY <1>11 DEF ReconcileFails, h
  <2>4. QED BY <1>11, <2>2, <2>3, AnswerTypes DEF ReconcileFails, Replies, W!TypeOK
<1>12. CASE ReadSnapshot(t)
  BY <1>12, AnswerTypes DEF ReadSnapshot, Replies, W!TypeOK
<1>13. CASE WriteEndsEarly(t)
  BY <1>13, AnswerTypes DEF WriteEndsEarly, Replies, W!TypeOK
<1>14. CASE WriteBlocked(t)
  BY <1>14, AnswerTypes DEF WriteBlocked, Replies, W!TypeOK
<1>15. CASE CommitSucceeds(t)
  <2>1. req' \in [Thread -> Request]
    BY <1>15, <1>a, IdleType DEF CommitSucceeds
  <2>2. s \in StoreId /\ Memory(t) \in Rows /\ r.op \in Operation
    BY <1>15, MemoryType DEF CommitSucceeds, Committing, NeedsCommit, Writing, Ready,
                        RequestShape, WellFormed
  <2> DEFINE rows == Candidate(r.op, Memory(t))
  <2>3. rows \in Rows /\ rows.rev \in Nat
    BY <2>2, CandidateRows DEF Rows
  <2>4. durable' = [durable EXCEPT ![p] = rows]
    BY <1>15 DEF CommitSucceeds, Persist
  <2>5. heap' = Swept([heap EXCEPT ![s].rows = rows], views, req')
    BY <1>15 DEF CommitSucceeds
  <2>6. acked' \in {acked, [acked EXCEPT ![p] = rows.rev]}
    BY <1>15 DEF CommitSucceeds
  <2> HIDE DEF rows
  <2>7. durable' \in [Project -> Rows]
    BY <2>3, <2>4, WorkspaceTypes
  <2>8. heap' \in [StoreId -> Store]
    BY <2>2, <2>3, <2>5, StoreUpdate, SweptType
  <2>9. acked' \in [Project -> Nat]
    BY <2>3, <2>6, <1>a
  <2>10. QED BY <1>15, <2>1, <2>7, <2>8, <2>9, WorkspaceTypes, WorkspaceTypesNext DEF CommitSucceeds, Replies
<1>16. CASE CommitRefused(t)
  <2>1. PICK reply \in Replies : Answer(t, heap, views, reply)
    BY <1>16 DEF CommitRefused, Replies
  <2>2. QED BY <1>16, <2>1, AnswerTypes DEF CommitRefused, W!TypeOK
<1>17. ASSUME NEW fault \in Fault, CommitUncertain(t, fault)
       PROVE  TypeOK'
  <2>1. s \in StoreId /\ Memory(t) \in Rows /\ r.op \in Operation
    BY <1>17, MemoryType DEF CommitUncertain, Committing, NeedsCommit, Writing, Ready,
                        RequestShape, WellFormed
  <2>2. PICK wrote \in BOOLEAN, why \in {"leaked", "reconcile"} :
           /\ durable' \in {durable, [durable EXCEPT ![p] = Candidate(r.op, Memory(t))]}
           /\ req' = [req EXCEPT ![t].pc = "revision", ![t].why = why, ![t].wrote = wrote]
    BY <1>17 DEF CommitUncertain, Persist
  <2>3. [r EXCEPT !.pc = "revision", !.why = why, !.wrote = wrote] \in Request
    <3>1. r \in Request
      BY <1>a
    <3>2. QED BY <3>1 DEF Request, Places
  <2>4. req' \in [Thread -> Request]
    BY <2>2, <2>3, <1>a
  <2>5. Candidate(r.op, Memory(t)) \in Rows
    BY <2>1, CandidateRows
  <2>6. durable' \in [Project -> Rows]
    BY <2>2, <2>5, WorkspaceTypes
  <2>7. heap' \in [StoreId -> Store]
    BY <1>17, <2>1, StoreUpdate, NoRowsType DEF CommitUncertain
  <2>8. QED BY <1>17, <2>4, <2>6, <2>7, WorkspaceTypes, WorkspaceTypesNext DEF CommitUncertain
<1>18. CASE DropView(t)
  <2>1. views' \in Seq(Slot) /\ Len(views') <= MaxViews
    BY <1>18, DroppedType, LenProperties, StoreAssumption DEF DropView
  <2>2. Answer(t, heap, views', "ok")
    BY <1>18 DEF DropView
  <2>3. QED BY <1>18, <2>1, <2>2, AnswerTypes DEF DropView, Replies, W!TypeOK
<1>19. QED
  BY <1>1, <1>2, <1>3, <1>4, <1>5, <1>6, <1>7, <1>8, <1>9, <1>10, <1>11, <1>12, <1>13, <1>14,
     <1>15, <1>16, <1>17, <1>18 DEF Step

LEMMA ArriveTypes ==
  ASSUME TypeOK, NEW t \in Thread, NEW request \in Request, Arrive(t, request)
  PROVE  TypeOK'
<1>1. req' \in [Thread -> Request]
  BY DEF TypeOK, Arrive
<1>2. heap' \in [StoreId -> Store]
  BY SweptType DEF TypeOK, Arrive
<1>3. QED BY <1>1, <1>2 DEF TypeOK, W!TypeOK, Arrive

LEMMA ArrivalTypes ==
  ASSUME TypeOK, NEW t \in Thread, Arrival(t)
  PROVE  TypeOK'
<1> USE DEF TypeOK
<1> PICK p \in Project :
      \/ ArriveRead(t, p)
      \/ \E op \in Offers : ArriveViewWrite(t, p, op)
      \/ \E op \in Offers, seen \in 0 .. MaxRevision : ArriveBoundWrite(t, p, op, seen)
      \/ CreateProject(t, p)
      \/ SelectProject(t, p)
      \/ \E seen \in {None, durable[p].rev} : RenameProject(t, p, seen) \/ DeleteProject(t, p, seen)
  BY DEF Arrival
<1>1. CASE ArriveRead(t, p)
  <2>1. [Idle EXCEPT !.pc = "lookup", !.kind = "read", !.project = p] \in Request
    BY IdleType DEF Request, Places, Kinds
  <2>2. QED BY <1>1, <2>1, ArriveTypes DEF ArriveRead
<1>2. ASSUME NEW op \in Offers, ArriveViewWrite(t, p, op)
      PROVE  TypeOK'
  <2>1. [Idle EXCEPT !.pc = "lookup", !.kind = "view_write", !.project = p, !.op = op] \in Request
    BY IdleType DEF Request, Places, Kinds, Offers
  <2>2. QED BY <1>2, <2>1, ArriveTypes DEF ArriveViewWrite
<1>3. ASSUME NEW op \in Offers, NEW seen \in 0 .. MaxRevision, ArriveBoundWrite(t, p, op, seen)
      PROVE  TypeOK'
  <2>1. [Idle EXCEPT !.pc = "invalidate", !.kind = "bound_write", !.project = p,
                     !.op = op, !.expect = seen] \in Request
    <3>1. seen \in Nat /\ op \in Operation
      BY StoreAssumption DEF Offers
    <3>2. QED BY <3>1, IdleType DEF Request, Places, Kinds
  <2>2. QED BY <1>3, <2>1, ArriveTypes DEF ArriveBoundWrite
<1>4. CASE CreateProject(t, p)
  BY <1>4 DEF CreateProject, W!TypeOK
<1>5. CASE SelectProject(t, p)
  BY <1>5 DEF SelectProject, W!TypeOK
<1>a. ASSUME NEW kind \in {"rename", "delete"}, ThenDropView(t, kind, p)
      PROVE  req' \in [Thread -> Request]
  <2>1. [Idle EXCEPT !.pc = "drop_view", !.kind = kind, !.project = p, !.wrote = TRUE] \in Request
    BY IdleType DEF Request, Places, Kinds
  <2>2. QED BY <1>a, <2>1 DEF ThenDropView
<1>6. ASSUME NEW seen, RenameProject(t, p, seen)
      PROVE  TypeOK'
  <2>1. durable \in [Project -> Rows] /\ durable[p] \in Rows /\ durable[p].rev + 1 \in Nat
    BY WorkspaceTypes DEF Rows
  <2>2. [durable[p] EXCEPT !.rev = @ + 1] \in Rows
    BY <2>1, RowsUpdate
  <2>3. durable' = [durable EXCEPT ![p] = [durable[p] EXCEPT !.rev = @ + 1]]
    BY <1>6 DEF RenameProject
  <2>4. durable' \in [Project -> Rows]
    BY <2>1, <2>2, <2>3
  <2>5. QED BY <1>6, <1>a, <2>4, WorkspaceTypes, WorkspaceTypesNext DEF RenameProject
<1>7. ASSUME NEW seen, DeleteProject(t, p, seen)
      PROVE  TypeOK'
  <2>1. status' \in [Project -> {"unborn", "live", "deleted"}]
    BY <1>7, WorkspaceTypes DEF DeleteProject
  <2>2. durable' \in [Project -> Rows]
    BY <1>7, NoRowsType, WorkspaceTypes DEF DeleteProject
  <2>3. active' \in Project
    BY <1>7, WorkspaceTypes DEF DeleteProject, Live
  <2>4. QED BY <1>7, <1>a, <2>1, <2>2, <2>3, WorkspaceTypesNext DEF DeleteProject
<1>8. QED BY <1>1, <1>2, <1>3, <1>4, <1>5, <1>6, <1>7

LEMMA RootTypes ==
  ASSUME TypeOK, NEW t \in Thread
  PROVE  /\ \A op \in Offers : op.kind = "append" /\ ArriveRootWrite(t, op) => TypeOK'
         /\ \A sample \in Event : Open(t, sample) => TypeOK'
<1>1. ASSUME NEW op \in Offers, ArriveRootWrite(t, op)
      PROVE  TypeOK'
  <2>1. [Idle EXCEPT !.pc = "use", !.kind = "root_write", !.op = op, !.store = RootStore]
           \in Request
    BY IdleType DEF Request, Places, Kinds, Offers, StoreId
  <2>2. QED BY <1>1, <2>1, ArriveTypes DEF ArriveRootWrite
<1>2. ASSUME NEW sample \in Event, Open(t, sample)
      PROVE  TypeOK'
  <2> DEFINE op == [kind |-> "replace", event |-> sample]
             seeding == [Idle EXCEPT !.pc = "use", !.kind = "root_write", !.store = RootStore,
                                     !.op = op]
  <2>1. op \in Operation
    BY DEF Operation
  <2>2. seeding \in Request
    BY <2>1, IdleType DEF Request, Places, Kinds, StoreId
  <2>3. req' \in {req, [req EXCEPT ![t] = seeding]}
    BY <1>2 DEF Open
  <2>4. req' \in [Thread -> Request]
    BY <2>2, <2>3 DEF TypeOK
  <2>5. durable[Legacy] \in Rows
    BY WorkspaceTypes, LegacyAssumption DEF TypeOK
  <2>6. heap' \in [StoreId -> Store]
    BY <1>2, <2>5, LoadedType, LegacyAssumption DEF Open, TypeOK, StoreId
  <2>7. QED BY <1>2, <2>4, <2>6 DEF Open, TypeOK, W!TypeOK
<1>3. QED BY <1>1, <1>2

LEMMA CrashTypes ==
  ASSUME TypeOK, Crash
  PROVE  TypeOK'
<1>1. views' \in Seq(Slot) /\ Len(views') <= MaxViews
  BY EmptySeq, StoreAssumption DEF Crash
<1>2. QED BY <1>1, GarbageType, IdleType DEF Crash, TypeOK, W!TypeOK

LEMMA TypesPreserved ==
  ASSUME TypeOK, RequestShape, References, [Next]_vars
  PROVE  TypeOK'
<1>1. CASE UNCHANGED vars
  BY <1>1 DEF vars, TypeOK, W!TypeOK
<1>2. CASE Next
  BY <1>2, StepTypes, ArrivalTypes, RootTypes, CrashTypes DEF Next
<1>3. QED BY <1>1, <1>2

-----------------------------------------------------------------------------
(* Every request stays well formed.                                        *)

LEMMA IdleWellFormed == WellFormed(Idle)
  BY DEF WellFormed, Idle

LEMMA CachedIsSlot ==
  ASSUME views \in Seq(Slot), NEW i \in DOMAIN views
  PROVE  views[i] \in Slot
  BY ElementOfSeq, LenProperties

LEMMA StepShape ==
  ASSUME TypeOK, RequestShape, NEW t \in Thread, Step(t)
  PROVE  RequestShape'
<1>1. req \in [Thread -> Request] /\ req[t] \in Request /\ WellFormed(req[t])
  BY DEF TypeOK, RequestShape
<1>2. WellFormed(req'[t]) /\ \E x : req' = [req EXCEPT ![t] = x]
  <2> USE <1>1 DEF Request
  <2>1. CASE LookupHit(t)
    <3>1. \A i \in CachedAt(req[t].project) : views[i] # None
      BY CachedIsSlot, StoreAssumption DEF TypeOK, CachedAt
    <3>2. QED BY <2>1, <3>1 DEF LookupHit, WellFormed
  <2>2. CASE LookupMiss(t)
    BY <2>2, StoreAssumption DEF LookupMiss, WellFormed
  <2>3. CASE Invalidate(t)
    BY <2>3, StoreAssumption DEF Invalidate, WellFormed
  <2>4. CASE LoadRevision(t)
    BY <2>4 DEF LoadRevision, WellFormed
  <2>5. CASE LoadEvents(t)
    BY <2>5 DEF LoadEvents, WellFormed
  <2>6. CASE ViewLoaded(t)
    BY <2>6 DEF ViewLoaded, WellFormed
  <2>7. CASE BoundLoaded(t)
    BY <2>7 DEF BoundLoaded, WellFormed
  <2>8. CASE Reconciled(t)
    BY <2>8, IdleWellFormed DEF Reconciled, Answer
  <2>9. CASE LeakContained(t)
    BY <2>9, IdleWellFormed DEF LeakContained, Answer
  <2>10. CASE OpeningFails(t)
    BY <2>10, IdleWellFormed DEF OpeningFails, Answer
  <2>11. CASE ReconcileFails(t)
    BY <2>11, IdleWellFormed DEF ReconcileFails, Answer
  <2>12. CASE ReadSnapshot(t)
    BY <2>12, IdleWellFormed DEF ReadSnapshot, Answer
  <2>13. CASE WriteEndsEarly(t)
    BY <2>13, IdleWellFormed DEF WriteEndsEarly, Answer
  <2>14. CASE WriteBlocked(t)
    BY <2>14, IdleWellFormed DEF WriteBlocked, Answer
  <2>15. CASE CommitSucceeds(t)
    BY <2>15, IdleWellFormed DEF CommitSucceeds, Answer
  <2>16. CASE CommitRefused(t)
    BY <2>16, IdleWellFormed DEF CommitRefused, Answer
  <2>17. CASE DropView(t)
    BY <2>17, IdleWellFormed DEF DropView, Answer
  <2>18. ASSUME NEW fault \in Fault, CommitUncertain(t, fault)
        PROVE  WellFormed(req'[t]) /\ \E x : req' = [req EXCEPT ![t] = x]
    BY <2>18 DEF CommitUncertain, Committing, NeedsCommit, Writing, Ready, WellFormed
  <2>19. QED
    BY <2>1, <2>2, <2>3, <2>4, <2>5, <2>6, <2>7, <2>8, <2>9, <2>10, <2>11, <2>12, <2>13, <2>14, <2>15, <2>16, <2>17, <2>18 DEF Step
<1>3. QED
  BY <1>1, <1>2 DEF RequestShape

LEMMA ArrivalShape ==
  ASSUME TypeOK, RequestShape, NEW t \in Thread, Arrival(t)
  PROVE  RequestShape'
<1>1. WellFormed(req'[t]) /\ \E x : req' = [req EXCEPT ![t] = x]
  <2> USE StoreAssumption DEF TypeOK, RequestShape, WellFormed, Idle
  <2> PICK p \in Project :
        \/ ArriveRead(t, p)
        \/ \E op \in Offers : ArriveViewWrite(t, p, op)
        \/ \E op \in Offers, seen \in 0 .. MaxRevision : ArriveBoundWrite(t, p, op, seen)
        \/ CreateProject(t, p)
        \/ SelectProject(t, p)
        \/ \E seen \in {None, durable[p].rev} : RenameProject(t, p, seen) \/ DeleteProject(t, p, seen)
    BY DEF Arrival
  <2>1. CASE ArriveRead(t, p)
    BY <2>1 DEF ArriveRead, Arrive
  <2>2. ASSUME NEW op \in Offers, ArriveViewWrite(t, p, op)
        PROVE  WellFormed(req'[t]) /\ \E x : req' = [req EXCEPT ![t] = x]
    BY <2>2 DEF ArriveViewWrite, Arrive, Offers
  <2>3. ASSUME NEW op \in Offers, NEW seen \in 0 .. MaxRevision, ArriveBoundWrite(t, p, op, seen)
        PROVE  WellFormed(req'[t]) /\ \E x : req' = [req EXCEPT ![t] = x]
    BY <2>3 DEF ArriveBoundWrite, Arrive, Offers
  <2>4. CASE CreateProject(t, p)
    BY <2>4 DEF CreateProject
  <2>5. CASE SelectProject(t, p)
    BY <2>5 DEF SelectProject
  <2>6. ASSUME NEW seen, RenameProject(t, p, seen)
        PROVE  WellFormed(req'[t]) /\ \E x : req' = [req EXCEPT ![t] = x]
    BY <2>6 DEF RenameProject, ThenDropView
  <2>7. ASSUME NEW seen, DeleteProject(t, p, seen)
        PROVE  WellFormed(req'[t]) /\ \E x : req' = [req EXCEPT ![t] = x]
    BY <2>7 DEF DeleteProject, ThenDropView
  <2>8. QED BY <2>1, <2>2, <2>3, <2>4, <2>5, <2>6, <2>7
<1>2. QED
  BY <1>1 DEF RequestShape, TypeOK

LEMMA ShapePreserved ==
  ASSUME TypeOK, RequestShape, [Next]_vars
  PROVE  RequestShape'
<1>1. ASSUME NEW t \in Thread, NEW op \in Offers, ArriveRootWrite(t, op)
      PROVE  RequestShape'
  BY <1>1, StoreAssumption
     DEF ArriveRootWrite, Arrive, TypeOK, RequestShape, WellFormed, Idle, Offers
<1>2. ASSUME NEW t \in Thread, NEW sample \in Event, Open(t, sample)
      PROVE  RequestShape'
  <2>1. [kind |-> "replace", event |-> sample] \in Operation
    BY DEF Operation
  <2>2. QED
    BY <1>2, <2>1, StoreAssumption DEF Open, TypeOK, RequestShape, WellFormed, Idle
<1>3. CASE Crash
  BY <1>3, IdleWellFormed DEF Crash, RequestShape
<1>4. CASE UNCHANGED vars
  BY <1>4 DEF vars, RequestShape
<1>5. QED
  BY <1>1, <1>2, <1>3, <1>4, StepShape, ArrivalShape DEF Next

-----------------------------------------------------------------------------
(* Which object a request and a cache entry refer to.                      *)

SameBinding(h) ==
    \A s \in StoreId : h[s].open = heap[s].open /\ h[s].project = heap[s].project

Moved(h) == heap' = h \/ heap' = Swept(h, views', req')

LEMMA MovedHeap ==
  ASSUME NEW h \in [StoreId -> Store], Moved(h), NEW s \in StoreId
  PROVE  /\ heap'[s] \in {h[s], Garbage}
         /\ s = RootStore => heap'[s] = h[s]
         /\ (\E i \in DOMAIN views' : views'[i] = s) => heap'[s] = h[s]
         /\ (\E t \in Thread : req'[t].store = s) => heap'[s] = h[s]
  BY DEF Moved, Swept

(* A step of t that leaves every object bound as it was.                   *)
LEMMA SameBindingKeeps ==
  ASSUME TypeOK, TypeOK', RequestShape, RequestShape', Bindings, NEW t \in Thread, NEW h \in [StoreId -> Store],
         SameBinding(h), Moved(h), NEW r, req' = [req EXCEPT ![t] = r],
         r.pc = "use" \/ Repairing(t)' => h[r.store].open /\ h[r.store].project = r.project,
         Opening(t)' => /\ r.store \in Slot /\ ~h[r.store].open
                        /\ \A u \in Thread \ {t} : req[u].store # r.store,
         \A u \in Thread \ {t} : Opening(u) => req[u].store # r.store,
         \A i \in DOMAIN views' : h[views'[i]].open
  PROVE  Bindings'
<1>1. req \in [Thread -> Request] /\ req' \in [Thread -> Request] /\ req'[t] = r
  BY DEF TypeOK
<1>2. ASSUME NEW u \in Thread, req'[u].pc = "use" \/ Loading(u)'
      PROVE  req'[u].store \in StoreId /\ heap'[req'[u].store] = h[req'[u].store]
  <2>1. req'[u].store \in StoreId
    BY <1>1, <1>2 DEF Request, RequestShape, WellFormed, Loading
  <2>2. QED BY <2>1, MovedHeap
<1>3. References'
  <2> SUFFICES ASSUME NEW u \in Thread
               PROVE  /\ req'[u].pc = "use" \/ Repairing(u)'
                            => /\ heap'[req'[u].store].open
                               /\ heap'[req'[u].store].project = req'[u].project
                      /\ Opening(u)' =>
                            /\ req'[u].store \in Slot
                            /\ ~heap'[req'[u].store].open
                            /\ \A v \in Thread \ {u} : req'[v].store # req'[u].store
    BY DEF References
  <2>1. CASE u = t
    BY <1>1, <1>2, <2>1 DEF Opening, Repairing
  <2>2. CASE u # t
    <3>1. req'[u] = req[u] /\ \A v \in Thread \ {t} : req'[v] = req[v]
      BY <1>1, <2>2
    <3>2. ASSUME req[u].pc = "use" \/ Repairing(u)
          PROVE  heap'[req[u].store].open /\ heap'[req[u].store].project = req[u].project
      BY <1>2, <3>1, <3>2 DEF Bindings, References, Repairing, Loading, SameBinding
    <3>3. ASSUME Opening(u)
          PROVE  /\ req[u].store \in Slot
                 /\ ~heap'[req[u].store].open
                 /\ \A v \in Thread \ {u} : req'[v].store # req[u].store
      BY <1>1, <1>2, <2>2, <3>1, <3>3 DEF Bindings, References, Opening, Loading, SameBinding
    <3>4. QED BY <3>1, <3>2, <3>3 DEF Opening, Repairing, Loading
  <2>3. QED BY <2>1, <2>2
<1>4. CachedViewsOpen'
  <2> SUFFICES ASSUME NEW i \in DOMAIN views'
               PROVE  heap'[views'[i]].open
    BY DEF CachedViewsOpen
  <2>1. views'[i] \in StoreId
    BY ElementOfSeq, LenProperties DEF TypeOK, StoreId
  <2>2. QED BY <2>1, MovedHeap
<1>5. RootBound'
  <2>1. RootStore \in StoreId
    BY DEF StoreId
  <2>2. heap'[RootStore] = h[RootStore]
    BY <2>1, MovedHeap
  <2>3. QED BY <2>1, <2>2 DEF Bindings, RootBound, Opened, SameBinding
<1>6. QED BY <1>3, <1>4, <1>5 DEF Bindings

LEMMA DroppedRange ==
  ASSUME views \in Seq(Slot), NEW p
  PROVE  \A j \in DOMAIN Dropped(p) : \E i \in DOMAIN views : Dropped(p)[j] = views[i]
<1>1. CASE CachedAt(p) = {}
  BY <1>1 DEF Dropped
<1>2. CASE CachedAt(p) # {}
  <2>1. PICK i \in DOMAIN views : Dropped(p) = Without(i)
    BY <1>2 DEF Dropped, CachedAt
  <2>2. QED BY <2>1, WithoutType
<1>3. QED BY <1>1, <1>2

(* The end of a request, whatever it did to the rows of its store.         *)
LEMMA AnswerKeepsBindings ==
  ASSUME TypeOK, TypeOK', RequestShape, RequestShape', Bindings, NEW t \in Thread,
         NEW h \in [StoreId -> Store], SameBinding(h), NEW reply,
         Answer(t, h, views', reply),
         \A i \in DOMAIN views' : h[views'[i]].open
  PROVE  Bindings'
<1>1. Moved(h) /\ req' = [req EXCEPT ![t] = Idle]
  BY DEF Moved, Answer
<1>2. \A u \in Thread : Opening(u) => req[u].store # None
  BY StoreAssumption DEF Bindings, References
<1>3. req'[t] = Idle
  BY <1>1 DEF TypeOK
<1>4. ~Opening(t)' /\ ~Repairing(t)'
  BY <1>3 DEF Opening, Repairing, Loading, Idle
<1>5. Idle.store = None /\ Idle.pc # "use"
  BY DEF Idle
<1>6. QED BY <1>1, <1>2, <1>4, <1>5, SameBindingKeeps

LEMMA StepBindings ==
  ASSUME TypeOK, TypeOK', RequestShape, RequestShape', Bindings, NEW t \in Thread, Step(t)
  PROVE  Bindings'
<1> DEFINE r == req[t]
           s == r.store
<1>a. /\ req \in [Thread -> Request] /\ r \in Request /\ heap \in [StoreId -> Store]
      /\ \A f : [req EXCEPT ![t] = f][t] = f
  BY DEF TypeOK
<1>b. SameBinding(heap) /\ \A i \in DOMAIN views : heap[views[i]].open
  BY DEF SameBinding, Bindings, CachedViewsOpen
<1>c. views \in Seq(Slot)
  BY DEF TypeOK
<1>d. \A u \in Thread : Opening(u) => \A i \in DOMAIN views : req[u].store # views[i]
  BY <1>b DEF Bindings, References
<1>e. \A u \in Thread : Opening(u) => \A v \in Thread \ {u} : req[v].store # req[u].store
  BY DEF Bindings, References
<1>f. ASSUME UNCHANGED <<heap, views>>, NEW pc, pc # "use", NEW buf,
             req' = [req EXCEPT ![t] = [r EXCEPT !.pc = pc, !.buf = buf]],
             Loading(t), pc \in {"revision", "events", "rest"}
      PROVE  Bindings'
  <2> DEFINE q == [r EXCEPT !.pc = pc, !.buf = buf]
  <2>1. q.pc = pc /\ q.store = s /\ q.project = r.project /\ q.why = r.why /\ req'[t] = q
    BY <1>a, <1>f DEF Request
  <2> HIDE DEF q
  <2>2. /\ Opening(t)' <=> Opening(t)
        /\ Repairing(t)' <=> Repairing(t)
    BY <1>f, <2>1 DEF Opening, Repairing, Loading
  <2>3. Moved(heap)
    BY <1>f DEF Moved
  <2>4. req' = [req EXCEPT ![t] = q]
    BY <1>f DEF q
  <2>5. \A i \in DOMAIN views' : heap[views'[i]].open
    BY <1>b, <1>f
  <2>6. q.pc = "use" \/ Repairing(t)' => heap[q.store].open /\ heap[q.store].project = q.project
    BY <1>f, <2>1, <2>2 DEF Bindings, References
  <2>7. Opening(t)' => /\ q.store \in Slot /\ ~heap[q.store].open
                       /\ \A u \in Thread \ {t} : req[u].store # q.store
    BY <2>1, <2>2 DEF Bindings, References
  <2>8. \A u \in Thread \ {t} : Opening(u) => req[u].store # q.store
    BY <1>e, <2>1
  <2>9. QED BY <1>a, <1>b, <2>3, <2>4, <2>5, <2>6, <2>7, <2>8, SameBindingKeeps, ZenonT(60)
<1>1. CASE LookupHit(t)
  <2>0. PICK i \in CachedAt(r.project) :
         /\ views' = Append(Without(i), views[i])
         /\ req' = [req EXCEPT ![t].pc = "use", ![t].store = views[i]]
    BY <1>1 DEF LookupHit
  <2> DEFINE q == [r EXCEPT !.pc = "use", !.store = views[i]]
  <2>1. i \in DOMAIN views /\ views[i] \in Slot /\ heap[views[i]].project = r.project
    BY <1>c, CachedIsSlot DEF CachedAt
  <2>2. q.pc = "use" /\ q.store = views[i] /\ q.project = r.project
    BY <1>a DEF Request
  <2>3. req' = [req EXCEPT ![t] = q]
    BY <2>0
  <2> HIDE DEF q
  <2>4. Moved(heap)
    BY <1>1 DEF LookupHit, Moved
  <2>5. \A j \in DOMAIN views' : \E k \in DOMAIN views : views'[j] = views[k]
    BY <1>c, <2>0, <2>1, WithoutType
  <2>6. Opening(t)' => /\ q.store \in Slot /\ ~heap[q.store].open
                       /\ \A u \in Thread \ {t} : req[u].store # q.store
    BY <1>a, <2>2, <2>3 DEF Opening, Loading
  <2>7. \A u \in Thread \ {t} : Opening(u) => req[u].store # q.store
    BY <1>d, <2>1, <2>2
  <2>8. q.pc = "use" \/ Repairing(t)' => heap[q.store].open /\ heap[q.store].project = q.project
    BY <1>b, <2>1, <2>2
  <2>9. \A j \in DOMAIN views' : heap[views'[j]].open
    BY <1>b, <2>5
  <2>10. QED BY <1>a, <1>b, <2>3, <2>4, <2>6, <2>7, <2>8, <2>9, SameBindingKeeps, ZenonT(60)
<1>2. ASSUME NEW x \in Slot, Fresh(x), NEW why \in {"view", "bound"},
             req' = [req EXCEPT ![t].pc = "revision", ![t].store = x, ![t].why = why],
             Moved(heap), \A j \in DOMAIN views' : heap[views'[j]].open
      PROVE  Bindings'
  <2> DEFINE q == [r EXCEPT !.pc = "revision", !.store = x, !.why = why]
  <2>1. q.pc = "revision" /\ q.store = x /\ q.why = why
    BY <1>a DEF Request
  <2>2. req' = [req EXCEPT ![t] = q]
    BY <1>2
  <2> HIDE DEF q
  <2>3. q.pc = "use" \/ Repairing(t)' => heap[q.store].open /\ heap[q.store].project = q.project
    BY <1>a, <2>1, <2>2, <1>2 DEF Repairing
  <2>4. /\ q.store \in Slot /\ ~heap[q.store].open
        /\ \A u \in Thread \ {t} : req[u].store # q.store
    BY <1>2, <2>1 DEF Fresh
  <2>5. Moved(heap) /\ \A j \in DOMAIN views' : heap[views'[j]].open
    BY <1>2
  <2>6. /\ Opening(t)' => /\ q.store \in Slot /\ ~heap[q.store].open
                          /\ \A u \in Thread \ {t} : req[u].store # q.store
        /\ \A u \in Thread \ {t} : Opening(u) => req[u].store # q.store
    BY <2>4
  <2>7. QED BY <1>a, <1>b, <2>2, <2>3, <2>5, <2>6, SameBindingKeeps, ZenonT(60)
<1>3. CASE LookupMiss(t)
  BY <1>3, <1>2, <1>b DEF LookupMiss, Moved
<1>4. CASE Invalidate(t)
  <2>1. \A j \in DOMAIN views' : heap[views'[j]].open
    BY <1>4, <1>b, <1>c, DroppedRange DEF Invalidate
  <2>2. QED BY <1>4, <1>2, <2>1 DEF Invalidate, Moved
<1>5. CASE LoadRevision(t)
  BY <1>5, <1>f DEF LoadRevision, Loading
<1>6. CASE LoadEvents(t)
  <2>1. req' = [req EXCEPT ![t] = [r EXCEPT !.pc = "rest",
                                           !.buf = [r.buf EXCEPT !.events = durable[r.project].events]]]
    BY <1>6 DEF LoadEvents
  <2>2. QED BY <1>6, <1>f, <2>1 DEF LoadEvents, Loading
<1>7. ASSUME req' = [req EXCEPT ![t] = [r EXCEPT !.pc = "use", !.why = "none", !.buf = NoRows]],
             Opening(t), Moved([heap EXCEPT ![s] = Loaded(r.project, Rest(t))]),
             \A j \in DOMAIN views' : views'[j] = s \/ \E i \in DOMAIN views : views'[j] = views[i]
      PROVE  Bindings'
  <2> DEFINE h == [heap EXCEPT ![s] = Loaded(r.project, Rest(t))]
             q == [r EXCEPT !.pc = "use", !.why = "none", !.buf = NoRows]
  <2>1. s \in Slot /\ ~heap[s].open /\ \A u \in Thread \ {t} : req[u].store # s
    BY <1>7 DEF Bindings, References
  <2>2. h \in [StoreId -> Store] /\ h[s].open /\ h[s].project = r.project
    BY <1>a, <2>1, RestType, LoadedType, RequestTypes DEF StoreId, Loaded
  <2>3. \A x \in StoreId \ {s} : h[x] = heap[x]
    BY <1>a
  <2>4. q.pc = "use" /\ q.store = s /\ q.project = r.project /\ req' = [req EXCEPT ![t] = q]
    BY <1>a, <1>7 DEF Request
  <2>5. Moved(h)
    BY <1>7
  <2> HIDE DEF h, q
  <2>6. References'
    <3> SUFFICES ASSUME NEW u \in Thread
                 PROVE  /\ req'[u].pc = "use" \/ Repairing(u)'
                              => /\ heap'[req'[u].store].open
                                 /\ heap'[req'[u].store].project = req'[u].project
                        /\ Opening(u)' =>
                              /\ req'[u].store \in Slot
                              /\ ~heap'[req'[u].store].open
                              /\ \A v \in Thread \ {u} : req'[v].store # req'[u].store
      BY DEF References
    <3>1. CASE u = t
      <4>1. req'[u] = q
        BY <1>a, <2>4, <3>1
      <4>2. heap'[s] = h[s]
        <5>1. s \in StoreId /\ \E v \in Thread : req'[v].store = s
          BY <2>1, <2>4, <3>1, <4>1 DEF StoreId
        <5>2. QED BY <2>2, <2>5, <5>1, MovedHeap
      <4>3. QED BY <2>2, <2>4, <4>1, <4>2 DEF Opening, Loading
    <3>2. CASE u # t
      <4>1. req'[u] = req[u] /\ \A v \in Thread \ {t} : req'[v] = req[v]
        BY <1>a, <2>4, <3>2
      <4>2. req[u].store # s /\ (req[u].pc = "use" \/ Loading(u) => req[u].store \in StoreId)
        BY <1>a, <2>1, <3>2 DEF RequestShape, WellFormed, Request, Loading
      <4>3. req[u].pc = "use" \/ Loading(u) => heap'[req[u].store] = heap[req[u].store]
        BY <2>2, <2>3, <2>5, <4>1, <4>2, MovedHeap
      <4>4. req'[t].store = s
        BY <1>a, <2>4
      <4>5. QED
        BY <4>1, <4>2, <4>3, <4>4 DEF Bindings, References, Opening, Repairing, Loading
    <3>3. QED BY <3>1, <3>2
  <2>7. CachedViewsOpen'
    <3> SUFFICES ASSUME NEW j \in DOMAIN views'
                 PROVE  heap'[views'[j]].open
      BY DEF CachedViewsOpen
    <3>1. views'[j] \in StoreId
      BY ElementOfSeq, LenProperties DEF TypeOK, StoreId
    <3>2. h[views'[j]].open
      BY <1>7, <1>b, <2>2, <2>3, <3>1
    <3>3. QED BY <2>2, <2>5, <3>1, <3>2, MovedHeap
  <2>8. RootBound'
    <3>1. RootStore \in StoreId /\ RootStore # s
      BY <2>1, StoreAssumption DEF StoreId
    <3>2. heap'[RootStore] = heap[RootStore]
      BY <2>2, <2>3, <2>5, <3>1, MovedHeap
    <3>3. QED BY <3>2 DEF Bindings, RootBound, Opened
  <2>9. QED BY <2>6, <2>7, <2>8 DEF Bindings
<1>8. CASE ViewLoaded(t)
  <2>1. s \in Slot /\ Opening(t)
    BY <1>8 DEF ViewLoaded, Bindings, References, Opening, Loading
  <2>2. ASSUME NEW j \in DOMAIN views'
        PROVE  views'[j] = s \/ \E i \in DOMAIN views : views'[j] = views[i]
    <3> DEFINE grown == Append(views, s)
    <3>1. grown \in Seq(Slot) /\ Len(grown) = Len(views) + 1 /\ Len(views) \in Nat
          /\ DOMAIN views = 1 .. Len(views)
      BY <1>c, <2>1, LenProperties
    <3>2. \A k \in 1 .. Len(grown) : grown[k] = s \/ \E i \in DOMAIN views : grown[k] = views[i]
      BY <1>c, <2>1, <3>1
    <3>3. CASE views' = grown
      BY <3>1, <3>2, <3>3, LenProperties
    <3>4. CASE views' = Tail(grown)
      <4>1. grown # << >>
        BY <3>1, EmptySeq
      <4>2. /\ Tail(grown) \in Seq(Slot) /\ Len(Tail(grown)) = Len(grown) - 1
            /\ \A k \in 1 .. Len(Tail(grown)) : Tail(grown)[k] = grown[k + 1]
        BY <3>1, <4>1, HeadTailProperties
      <4>3. j \in 1 .. Len(Tail(grown))
        BY <3>4, <4>2, LenProperties
      <4>4. j + 1 \in 1 .. Len(grown)
        BY <3>1, <4>2, <4>3
      <4>5. QED BY <3>2, <3>4, <4>2, <4>3, <4>4
    <3>5. QED BY <1>8, <3>3, <3>4 DEF ViewLoaded
  <2>3. req' = [req EXCEPT ![t] = [r EXCEPT !.pc = "use", !.why = "none", !.buf = NoRows]]
    BY <1>8 DEF ViewLoaded
  <2>4. QED BY <1>8, <1>7, <2>1, <2>2, <2>3 DEF ViewLoaded, Moved
<1>9. CASE BoundLoaded(t)
  <2>1. req' = [req EXCEPT ![t] = [r EXCEPT !.pc = "use", !.why = "none", !.buf = NoRows]]
    BY <1>9 DEF BoundLoaded
  <2>2. Opening(t)
    BY <1>9 DEF BoundLoaded, Opening, Loading
  <2>3. QED BY <1>9, <1>7, <2>1, <2>2 DEF BoundLoaded, Moved
<1>g. ASSUME NEW reply, Answer(t, heap, views', reply), UNCHANGED views
      PROVE  Bindings'
  BY <1>a, <1>b, <1>g, AnswerKeepsBindings
<1>h. ASSUME s \in StoreId, NEW rows \in Rows, NEW blocked \in BOOLEAN, NEW reply,
             NEW h \in {[heap EXCEPT ![s].rows = rows, ![s].owner = None],
                        [heap EXCEPT ![s].rows = rows, ![s].owner = None, ![s].blocked = blocked],
                        [heap EXCEPT ![s].owner = None, ![s].blocked = blocked]},
             Answer(t, h, views, reply), UNCHANGED views
      PROVE  Bindings'
  <2>1. h \in [StoreId -> Store]
    BY <1>a, <1>h DEF Store
  <2>2. SameBinding(h)
    BY <1>a, <1>h DEF SameBinding, Store
  <2>3. \A i \in DOMAIN views' : h[views'[i]].open
    BY <1>b, <1>c, <1>h, <2>2, CachedIsSlot DEF SameBinding, StoreId
  <2>4. Answer(t, h, views', reply)
    BY <1>h
  <2>5. QED BY <2>1, <2>2, <2>3, <2>4, AnswerKeepsBindings
<1>10. CASE Reconciled(t)
  BY <1>10, <1>h, RestType, MemoryType DEF Reconciled, RequestShape, WellFormed
<1>11. CASE LeakContained(t)
  BY <1>11, <1>h, RestType, MemoryType DEF LeakContained, RequestShape, WellFormed
<1>12. CASE ReconcileFails(t)
  BY <1>12, <1>h, NoRowsType, MemoryType DEF ReconcileFails, RequestShape, WellFormed
<1>13. CASE OpeningFails(t)
  BY <1>13, <1>g DEF OpeningFails
<1>14. CASE ReadSnapshot(t) \/ WriteEndsEarly(t) \/ WriteBlocked(t) \/ CommitRefused(t)
  BY <1>14, <1>g DEF ReadSnapshot, WriteEndsEarly, WriteBlocked, CommitRefused
<1>15. CASE CommitSucceeds(t)
  <2> DEFINE rows == Candidate(r.op, Memory(t))
             h == [heap EXCEPT ![s].rows = rows]
  <2>1. s \in StoreId /\ rows \in Rows
    BY <1>15, MemoryType, CandidateRows
       DEF CommitSucceeds, Committing, NeedsCommit, Writing, Ready, RequestShape, WellFormed
  <2> HIDE DEF rows
  <2>2. h \in [StoreId -> Store] /\ SameBinding(h)
    <3>1. h \in [StoreId -> Store]
      BY <1>a, <2>1 DEF Store
    <3>2. SameBinding(h)
      BY <1>a, <2>1 DEF SameBinding, Store
    <3>3. QED BY <3>1, <3>2
  <2>3. /\ req' = [req EXCEPT ![t] = Idle] /\ heap' = Swept(h, views', req')
        /\ views' = views
        /\ answer' = [reply |-> "ok", wrote |-> TRUE]
    BY <1>15 DEF CommitSucceeds, rows
  <2> HIDE DEF h
  <2>4. \A i \in DOMAIN views' : h[views'[i]].open
    BY <1>b, <1>c, <2>2, <2>3, CachedIsSlot DEF SameBinding, StoreId
  <2>5. Moved(h) /\ Idle.store = None /\ Idle.pc # "use"
    BY <2>3 DEF Moved, Idle
  <2>6. ~Opening(t)' /\ ~Repairing(t)'
    BY <1>a, <2>3 DEF Opening, Repairing, Loading, Idle
  <2>7. \A u \in Thread : Opening(u) => req[u].store # None
    BY StoreAssumption DEF Bindings, References
  <2>8. QED BY <2>2, <2>3, <2>4, <2>5, <2>6, <2>7, SameBindingKeeps
<1>16. ASSUME NEW fault \in Fault, CommitUncertain(t, fault)
       PROVE  Bindings'
  <2>1. PICK wrote \in BOOLEAN, why \in {"leaked", "reconcile"} :
           req' = [req EXCEPT ![t].pc = "revision", ![t].why = why, ![t].wrote = wrote]
    BY <1>16 DEF CommitUncertain
  <2> DEFINE h == [heap EXCEPT ![s].owner = t]
             q == [r EXCEPT !.pc = "revision", !.why = why, !.wrote = wrote]
  <2>2. s \in StoreId /\ r.pc = "use"
    BY <1>16, MemoryType
       DEF CommitUncertain, Committing, NeedsCommit, Writing, Ready, RequestShape, WellFormed
  <2>3. h \in [StoreId -> Store] /\ SameBinding(h)
    <3>1. h \in [StoreId -> Store]
      BY <1>a, <2>2 DEF Store
    <3>2. SameBinding(h)
      BY <1>a, <2>2 DEF SameBinding, Store
    <3>3. QED BY <3>1, <3>2
  <2>4. q.pc = "revision" /\ q.store = s /\ q.project = r.project /\ q.why = why
    BY <1>a DEF Request
  <2>5. req' = [req EXCEPT ![t] = q]
    BY <2>1
  <2>6. Moved(h) /\ views' = views
    BY <1>16 DEF CommitUncertain, Moved
  <2> HIDE DEF h, q
  <2>7. ~Opening(t)'
    BY <1>a, <2>4, <2>5 DEF Opening
  <2>8. h[q.store].open /\ h[q.store].project = q.project
    BY <2>2, <2>3, <2>4 DEF Bindings, References, SameBinding
  <2>9. \A u \in Thread \ {t} : Opening(u) => req[u].store # q.store
    BY <1>e, <2>4
  <2>10. \A i \in DOMAIN views' : h[views'[i]].open
    BY <1>b, <1>c, <2>3, <2>6, CachedIsSlot DEF SameBinding, StoreId
  <2>11. /\ q.pc = "use" \/ Repairing(t)' => h[q.store].open /\ h[q.store].project = q.project
         /\ Opening(t)' => /\ q.store \in Slot /\ ~h[q.store].open
                           /\ \A u \in Thread \ {t} : req[u].store # q.store
    BY <2>7, <2>8
  <2>12. QED BY <2>3, <2>5, <2>6, <2>9, <2>10, <2>11, SameBindingKeeps, ZenonT(60)
<1>17. CASE DropView(t)
  <2>1. \A j \in DOMAIN views' : heap[views'[j]].open
    BY <1>17, <1>b, <1>c, DroppedRange DEF DropView
  <2>2. QED BY <1>17, <1>a, <1>b, <2>1, AnswerKeepsBindings DEF DropView
<1>18. QED
  BY <1>1, <1>3, <1>4, <1>5, <1>6, <1>8, <1>9, <1>10, <1>11, <1>12, <1>13, <1>14, <1>15, <1>16,
     <1>17 DEF Step

(* A new request refers to no object, or to the process-wide one.          *)
LEMMA ArriveKeepsBindings ==
  ASSUME TypeOK, TypeOK', RequestShape, RequestShape', Bindings, NEW t \in Thread,
         NEW r \in Request, req' = [req EXCEPT ![t] = r], UNCHANGED views,
         Moved(heap), r.pc \notin {"revision", "events", "rest"},
         r.pc = "use" => /\ r.store = RootStore /\ r.project = Legacy /\ Opened,
         r.store \in {None, RootStore}
  PROVE  Bindings'
<1>1. heap \in [StoreId -> Store] /\ SameBinding(heap)
  BY DEF TypeOK, SameBinding
<1>2. req'[t] = r
  BY DEF TypeOK
<1>3. ~Opening(t)' /\ ~Repairing(t)'
  BY <1>2 DEF Opening, Repairing, Loading
<1>4. r.pc = "use" \/ Repairing(t)' => heap[r.store].open /\ heap[r.store].project = r.project
  BY <1>3 DEF Bindings, RootBound, Opened
<1>5. \A u \in Thread \ {t} : Opening(u) => req[u].store # r.store
  BY StoreAssumption DEF Bindings, References
<1>6. \A i \in DOMAIN views' : heap[views'[i]].open
  BY DEF Bindings, CachedViewsOpen
<1>7. Opening(t)' => /\ r.store \in Slot /\ ~heap[r.store].open
                     /\ \A u \in Thread \ {t} : req[u].store # r.store
  BY <1>3
<1>8. QED BY <1>1, <1>4, <1>5, <1>6, <1>7, SameBindingKeeps, ZenonT(60)

LEMMA ArrivalBindings ==
  ASSUME TypeOK, TypeOK', RequestShape, RequestShape', Bindings, NEW t \in Thread, Arrival(t)
  PROVE  Bindings'
<1>1. req' \in [Thread -> Request] /\ req \in [Thread -> Request]
  BY DEF TypeOK
<1>2. ASSUME NEW r, req' = [req EXCEPT ![t] = r], UNCHANGED views, Moved(heap),
             r.pc \in {"lookup", "invalidate", "drop_view"}, r.store = None
      PROVE  Bindings'
  <2>1. r \in Request
    BY <1>1, <1>2
  <2>2. QED BY <1>2, <2>1, ArriveKeepsBindings
<1>3. CASE UNCHANGED <<heap, views, req>>
  BY <1>3 DEF Bindings, References, CachedViewsOpen, RootBound, Opened, Opening, Repairing, Loading
<1> PICK p \in Project :
      \/ ArriveRead(t, p)
      \/ \E op \in Offers : ArriveViewWrite(t, p, op)
      \/ \E op \in Offers, seen \in 0 .. MaxRevision : ArriveBoundWrite(t, p, op, seen)
      \/ CreateProject(t, p)
      \/ SelectProject(t, p)
      \/ \E seen \in {None, durable[p].rev} : RenameProject(t, p, seen) \/ DeleteProject(t, p, seen)
  BY DEF Arrival
<1>4. ASSUME NEW r, Arrive(t, r), r.pc \in {"lookup", "invalidate"}, r.store = None
      PROVE  Bindings'
  BY <1>2, <1>4 DEF Arrive, Moved
<1>5. CASE ArriveRead(t, p)
  BY <1>4, <1>5 DEF ArriveRead, Idle
<1>6. CASE \E op \in Offers : ArriveViewWrite(t, p, op)
  BY <1>4, <1>6 DEF ArriveViewWrite, Idle
<1>7. CASE \E op \in Offers, seen \in 0 .. MaxRevision : ArriveBoundWrite(t, p, op, seen)
  BY <1>4, <1>7 DEF ArriveBoundWrite, Idle
<1>8. CASE CreateProject(t, p) \/ SelectProject(t, p)
  BY <1>3, <1>8 DEF CreateProject, SelectProject
<1>9. ASSUME NEW kind, ThenDropView(t, kind, p), UNCHANGED <<heap, views>>
      PROVE  Bindings'
  <2> DEFINE r == [Idle EXCEPT !.pc = "drop_view", !.kind = kind, !.project = p, !.wrote = TRUE]
  <2>1. req' = [req EXCEPT ![t] = r] /\ r.pc = "drop_view" /\ r.store = None
    BY <1>9 DEF ThenDropView, Idle
  <2> HIDE DEF r
  <2>2. QED BY <1>2, <1>9, <2>1 DEF Moved
<1>10. ASSUME NEW seen, RenameProject(t, p, seen) \/ DeleteProject(t, p, seen)
       PROVE  Bindings'
  BY <1>9, <1>10 DEF RenameProject, DeleteProject
<1>11. QED BY <1>5, <1>6, <1>7, <1>8, <1>10

LEMMA BindingsPreserved ==
  ASSUME TypeOK, TypeOK', RequestShape, RequestShape', Bindings, [Next]_vars
  PROVE  Bindings'
<1>1. ASSUME NEW t \in Thread, NEW op \in Offers, ArriveRootWrite(t, op)
      PROVE  Bindings'
  <2> DEFINE r == [Idle EXCEPT !.pc = "use", !.kind = "root_write", !.op = op, !.store = RootStore]
  <2>1. /\ req' = [req EXCEPT ![t] = r] /\ UNCHANGED views /\ Moved(heap) /\ Opened
        /\ r.pc = "use" /\ r.store = RootStore /\ r.project = Legacy
    BY <1>1 DEF ArriveRootWrite, Arrive, Moved, Idle
  <2>2. r \in Request
    BY IdleType DEF Request, Places, Kinds, Offers, StoreId
  <2> HIDE DEF r
  <2>3. QED BY <2>1, <2>2, ArriveKeepsBindings
<1>2. ASSUME NEW t \in Thread, NEW sample \in Event, Open(t, sample)
      PROVE  Bindings'
  <2>1. /\ req \in [Thread -> Request] /\ heap \in [StoreId -> Store]
        /\ \A u \in Thread : req[u].pc = "use" \/ Loading(u) => req[u].store \in StoreId
        /\ \A i \in DOMAIN views : views[i] \in Slot
    BY CachedIsSlot DEF TypeOK, RequestShape, WellFormed, Loading, Request
  <2>2. /\ heap'[RootStore].open /\ heap'[RootStore].project = Legacy
        /\ \A s \in StoreId \ {RootStore} : heap'[s] = heap[s]
        /\ UNCHANGED views
    BY <1>2, <2>1 DEF Open, Loaded, StoreId
  <2>3. \A u \in Thread : (req[u].pc = "use" \/ Repairing(u)) => req[u].store # RootStore
    BY <1>2 DEF Open, Opened, Bindings, References
  <2>4. \A u \in Thread : Opening(u) => req[u].store # RootStore
    BY StoreAssumption DEF Bindings, References
  <2>5. \A u \in Thread : req'[u] = req[u] \/ (/\ u = t /\ req'[u].pc = "use"
                                                /\ req'[u].store = RootStore /\ req'[u].project = Legacy)
    BY <1>2, <2>1 DEF Open, Idle
  <2>6. References'
    BY <2>1, <2>2, <2>3, <2>4, <2>5 DEF Bindings, References, Opening, Repairing, Loading
  <2>7. CachedViewsOpen'
    BY <2>1, <2>2, StoreAssumption DEF Bindings, CachedViewsOpen, StoreId
  <2>8. QED BY <2>2, <2>6, <2>7 DEF Bindings, RootBound
<1>3. CASE Crash
  BY <1>3, GarbageType
     DEF Crash, Bindings, References, CachedViewsOpen, RootBound, Opened, Opening, Repairing,
         Loading, Idle, StoreId
<1>4. CASE UNCHANGED vars
  BY <1>4
     DEF vars, Bindings, References, CachedViewsOpen, RootBound, Opened, Opening, Repairing, Loading
<1>5. QED
  BY <1>1, <1>2, <1>3, <1>4, StepBindings, ArrivalBindings DEF Next

-----------------------------------------------------------------------------
(* Every step is a step of the workspace, or leaves the database alone.    *)

(* The workspace's operators are those of this module.                     *)
LEMMA WorkspaceOperators ==
  /\ W!Live = Live
  /\ \A op, rows : /\ W!Accepts(op, rows) = Accepts(op, rows)
                   /\ W!IsNoOp(op, rows) = IsNoOp(op, rows)
                   /\ W!Candidate(op, rows) = Candidate(op, rows)
  /\ W!Operation = Operation
  /\ W!NoRows = NoRows
  BY DEF W!Live, Live, W!Accepts, Accepts, W!IsNoOp, IsNoOp, W!Candidate, Candidate, W!Edited,
         Edited, W!Operation, Operation, W!NoRows, NoRows

LEMMA CommitRefines ==
  ASSUME IInv, NEW t \in Thread, Committing(t), Verdict(t) = "ok", Persist(t),
         UNCHANGED <<status, active>>
  PROVE  W!Next
<1> DEFINE p == req[t].project
           op == req[t].op
<1>1. /\ req[t].pc = "use" /\ op \in Operation
      /\ Accepts(op, Memory(t)) /\ ~IsNoOp(op, Memory(t))
  BY DEF Committing, NeedsCommit, Writing, Ready, IInv, RequestShape, WellFormed
<1>2. p \in Project /\ p \in Live /\ durable[p].rev = Memory(t).rev
  BY RequestTypes DEF Verdict, IInv
<1>3. Memory(t) = durable[p]
  <2>1. req[t].store \in StoreId
    BY <1>1, MemoryType DEF IInv, RequestShape, WellFormed
  <2>2. heap[req[t].store].open /\ heap[req[t].store].project = p
    BY <1>1 DEF IInv, Bindings, References
  <2>3. QED BY <1>2, <2>1, <2>2 DEF IInv, Coherent, CopyAgrees, Memory
<1>4. durable' = [durable EXCEPT ![p] = Candidate(op, durable[p])]
  BY <1>3 DEF Persist
<1>5. W!Change(p, op)
  BY <1>1, <1>2, <1>3, <1>4, WorkspaceOperators DEF W!Change
<1>6. QED BY <1>1, <1>2, <1>5, WorkspaceOperators DEF W!Next

LEMMA StepRefines ==
  ASSUME IInv, [Next]_vars
  PROVE  [W!Next]_(W!workspaceVars)
<1> USE DEF W!workspaceVars
<1>1. ASSUME NEW t \in Thread, Step(t)
      PROVE  [W!Next]_(W!workspaceVars)
  <2>1. CASE CommitSucceeds(t)
    BY <2>1, CommitRefines DEF CommitSucceeds
  <2>2. ASSUME NEW fault \in Fault, CommitUncertain(t, fault)
        PROVE  [W!Next]_(W!workspaceVars)
    BY <2>2, CommitRefines DEF CommitUncertain
  <2>3. CASE UNCHANGED <<status, durable, active>>
    BY <2>3
  <2>4. QED
    BY <1>1, <2>1, <2>2, <2>3
       DEF Step, LookupHit, LookupMiss, Invalidate, LoadRevision, LoadEvents, ViewLoaded,
           BoundLoaded, Reconciled, LeakContained, OpeningFails, ReconcileFails, ReadSnapshot,
           WriteEndsEarly, WriteBlocked, CommitRefused, DropView
<1>2. ASSUME NEW t \in Thread, Arrival(t)
      PROVE  [W!Next]_(W!workspaceVars)
  <2> PICK p \in Project :
        \/ ArriveRead(t, p)
        \/ \E op \in Offers : ArriveViewWrite(t, p, op)
        \/ \E op \in Offers, seen \in 0 .. MaxRevision : ArriveBoundWrite(t, p, op, seen)
        \/ CreateProject(t, p)
        \/ SelectProject(t, p)
        \/ \E seen \in {None, durable[p].rev} : RenameProject(t, p, seen) \/ DeleteProject(t, p, seen)
    BY <1>2 DEF Arrival
  <2>1. CASE \/ ArriveRead(t, p)
             \/ \E op \in Offers : ArriveViewWrite(t, p, op)
             \/ \E op \in Offers, seen \in 0 .. MaxRevision : ArriveBoundWrite(t, p, op, seen)
    BY <2>1 DEF ArriveRead, ArriveViewWrite, ArriveBoundWrite, Arrive
  <2>2. CASE CreateProject(t, p)
    BY <2>2 DEF CreateProject, W!Next, W!Create
  <2>3. CASE SelectProject(t, p)
    BY <2>3, WorkspaceOperators DEF SelectProject, W!Next, W!Select
  <2>4. ASSUME NEW seen, RenameProject(t, p, seen)
        PROVE  W!Next
    BY <2>4, WorkspaceOperators DEF RenameProject, W!Next, W!Rename
  <2>5. ASSUME NEW seen, DeleteProject(t, p, seen)
        PROVE  W!Next
    BY <2>5, WorkspaceOperators DEF DeleteProject, W!Next, W!Delete
  <2>6. QED BY <2>1, <2>2, <2>3, <2>4, <2>5
<1>3. ASSUME NEW t \in Thread,
             \/ \E op \in Offers : ArriveRootWrite(t, op)
             \/ \E sample \in Event : Open(t, sample)
      PROVE  UNCHANGED <<status, durable, active>>
  BY <1>3 DEF ArriveRootWrite, Arrive, Open
<1>4. CASE Crash
  BY <1>4 DEF Crash
<1>5. CASE UNCHANGED vars
  BY <1>5 DEF vars
<1>6. QED BY <1>1, <1>2, <1>3, <1>4, <1>5 DEF Next

-----------------------------------------------------------------------------
(* Copies in memory agree with the database.                               *)

(* What a step of the workspace may do to a project.                       *)
Progress ==
    \A p \in Project :
        \/ status'[p] = status[p] /\ durable'[p] = durable[p]
        \/ status[p] = "live" /\ status'[p] = "live" /\ durable'[p].rev = durable[p].rev + 1
        \/ status[p] = "unborn" /\ status'[p] = "live"
        \/ status'[p] = "deleted"

LEMMA WorkspaceProgress ==
  ASSUME TypeOK, [W!Next]_(W!workspaceVars)
  PROVE  Progress
<1>1. /\ status \in [Project -> {"unborn", "live", "deleted"}]
      /\ durable \in [Project -> Rows]
  BY WorkspaceTypes DEF TypeOK
<1>2. CASE UNCHANGED W!workspaceVars
  BY <1>2 DEF Progress, W!workspaceVars
<1>3. ASSUME NEW p \in Project, NEW op \in Operation, W!Change(p, op)
      PROVE  Progress
  <2>1. Candidate(op, durable[p]).rev = durable[p].rev + 1
    BY <1>1, CandidateRows
  <2>2. /\ p \in Live /\ status' = status
        /\ durable' = [durable EXCEPT ![p] = Candidate(op, durable[p])]
    BY <1>3, WorkspaceOperators DEF W!Change
  <2> HIDE DEF Candidate
  <2>3. QED BY <1>1, <2>1, <2>2 DEF Progress, Live
<1>4. ASSUME NEW p \in Project, W!Create(p) \/ W!Select(p)
      PROVE  Progress
  BY <1>1, <1>4 DEF Progress, W!Create, W!Select
<1>5. ASSUME NEW p \in Project, W!Rename(p)
      PROVE  Progress
  <2>1. /\ p \in Live /\ status' = status
        /\ durable' = [durable EXCEPT ![p] = [durable[p] EXCEPT !.rev = durable[p].rev + 1]]
    BY <1>5, WorkspaceOperators DEF W!Rename
  <2>2. [durable[p] EXCEPT !.rev = durable[p].rev + 1].rev = durable[p].rev + 1
    BY <1>1 DEF Rows
  <2>3. QED BY <1>1, <2>1, <2>2 DEF Progress, Live
<1>6. ASSUME NEW p \in Project, W!Delete(p)
      PROVE  Progress
  BY <1>1, <1>6 DEF Progress, W!Delete
<1>7. QED
  BY <1>2, <1>3, <1>4, <1>5, <1>6, WorkspaceOperators DEF W!Next

(* A copy that is left alone keeps agreeing, a live project's rows having  *)
(* moved to a revision no copy has.                                        *)
LEMMA OldCopyAgrees ==
  ASSUME TypeOK, TypeOK', Progress, NEW p \in Project, NEW rows \in Rows,
         status[p] # "unborn", CopyAgrees(p, rows)
  PROVE  status'[p] # "unborn" /\ CopyAgrees(p, rows)'
<1>1. /\ durable[p] \in Rows /\ durable[p].rev \in Nat /\ rows.rev \in Nat
      /\ status \in [Project -> {"unborn", "live", "deleted"}]
  BY WorkspaceTypes DEF TypeOK, Rows
<1>2. QED
  BY <1>1 DEF Progress, CopyAgrees, Live

Partial(p, pc, buf) ==
    p \in Live => /\ buf.rev <= durable[p].rev
                  /\ pc = "rest" /\ buf.rev = durable[p].rev => buf.events = durable[p].events

LEMMA OldLoadAgrees ==
  ASSUME TypeOK, TypeOK', Progress, NEW p \in Project, NEW buf \in Rows, NEW pc,
         status[p] # "unborn", Partial(p, pc, buf)
  PROVE  status'[p] # "unborn" /\ Partial(p, pc, buf)'
<1>1. /\ durable[p] \in Rows /\ durable[p].rev \in Nat /\ buf.rev \in Nat
      /\ status \in [Project -> {"unborn", "live", "deleted"}]
  BY WorkspaceTypes DEF TypeOK, Rows
<1>2. QED
  BY <1>1 DEF Progress, Partial, Live

(* A finished load agrees although its SELECTs are separate transactions.  *)
LEMMA FinishedLoadAgrees ==
  ASSUME TypeOK, NoneUnborn, LoadsAgree, NEW t \in Thread, req[t].pc = "rest"
  PROVE  status[req[t].project] # "unborn" /\ CopyAgrees(req[t].project, Rest(t))
<1> DEFINE p == req[t].project
           buf == req[t].buf
<1>1. p \in Project /\ buf \in Rows /\ durable[p] \in Rows /\ status[p] # "unborn"
  BY RequestTypes DEF NoneUnborn
<1>2. Rest(t) \in Rows /\ Rest(t).rev = buf.rev /\ Rest(t).events = buf.events
      /\ Rest(t).labels = durable[p].labels /\ Rest(t).initialized = durable[p].initialized
  BY <1>1, RestType DEF Rest, Rows
<1>3. ASSUME p \in Live
      PROVE  /\ buf.rev <= durable[p].rev
             /\ buf.rev = durable[p].rev => buf.events = durable[p].events
  BY <1>3 DEF LoadsAgree
<1>4. ASSUME p \in Live, Rest(t).rev = durable[p].rev
      PROVE  Rest(t) = durable[p]
  BY <1>1, <1>2, <1>3, <1>4 DEF Rows
<1>5. QED BY <1>1, <1>2, <1>3, <1>4 DEF CopyAgrees

CopiesKept ==
    \A s \in StoreId : heap'[s].open =>
        \/ heap[s].open /\ heap'[s].project = heap[s].project /\ heap'[s].rows = heap[s].rows
        \/ status'[heap'[s].project] # "unborn" /\ CopyAgrees(heap[s].project, heap[s].rows)'

LoadsKept ==
    \A t \in Thread : req'[t].pc \in {"events", "rest"} =>
        \/ req'[t].pc = req[t].pc /\ req'[t].project = req[t].project /\ req'[t].buf = req[t].buf
        \/ /\ status'[req'[t].project] # "unborn"
           /\ Partial(req[t].project, req[t].pc, req[t].buf)'

LEMMA AgreementKept ==
  ASSUME IInv, TypeOK', Progress, CopiesKept, LoadsKept
  PROVE  NoneUnborn' /\ LoadsAgree' /\ Coherent'
<1>1. /\ heap \in [StoreId -> Store] /\ req \in [Thread -> Request]
      /\ TypeOK /\ NoneUnborn /\ LoadsAgree /\ Coherent
  BY DEF IInv, TypeOK
<1>2. ASSUME NEW s \in StoreId, heap'[s].open
      PROVE  status'[heap'[s].project] # "unborn" /\ CopyAgrees(heap[s].project, heap[s].rows)'
  <2>1. CASE heap[s].open /\ heap'[s].project = heap[s].project /\ heap'[s].rows = heap[s].rows
    <3> DEFINE p == heap[s].project
               rows == heap[s].rows
    <3>1. p \in Project /\ rows \in Rows /\ status[p] # "unborn" /\ CopyAgrees(p, rows)
      BY <1>1, <2>1 DEF Store, NoneUnborn, Coherent
    <3>2. /\ status'[p] # "unborn"
          /\ p \in Live' => /\ rows.rev <= durable'[p].rev
                            /\ rows.rev = durable'[p].rev => rows = durable'[p]
      BY <1>1, <3>1, OldCopyAgrees DEF CopyAgrees
    <3>3. QED BY <2>1, <3>2 DEF CopyAgrees
  <2>2. QED BY <1>2, <2>1 DEF CopiesKept
<1>3. ASSUME NEW t \in Thread, req'[t].pc \in {"events", "rest"}
      PROVE  status'[req'[t].project] # "unborn" /\ Partial(req[t].project, req[t].pc, req[t].buf)'
  <2>1. CASE req'[t].pc = req[t].pc /\ req'[t].project = req[t].project /\ req'[t].buf = req[t].buf
    <3> DEFINE p == req[t].project
               buf == req[t].buf
               pc == req[t].pc
    <3>1. p \in Project /\ buf \in Rows /\ status[p] # "unborn" /\ Partial(p, pc, buf)
      BY <1>1, <1>3, <2>1, RequestTypes DEF NoneUnborn, LoadsAgree, Partial
    <3>2. /\ status'[p] # "unborn"
          /\ p \in Live' => /\ buf.rev <= durable'[p].rev
                            /\ pc = "rest" /\ buf.rev = durable'[p].rev => buf.events = durable'[p].events
      BY <1>1, <3>1, OldLoadAgrees DEF Partial
    <3>3. QED BY <2>1, <3>2 DEF Partial
  <2>2. QED BY <1>3, <2>1 DEF LoadsKept
<1>4. QED BY <1>2, <1>3 DEF NoneUnborn, LoadsAgree, Coherent, Partial

(* Objects whose rows a step does not change, and the sweep.               *)
LEMMA SweepKeepsCopies ==
  ASSUME NEW h \in [StoreId -> Store], Moved(h),
         \A s \in StoreId : h[s].open =>
            \/ heap[s].open /\ h[s].project = heap[s].project /\ h[s].rows = heap[s].rows
            \/ /\ status'[h[s].project] # "unborn"
               /\ h[s].project \in Live' =>
                     /\ h[s].rows.rev <= durable'[h[s].project].rev
                     /\ h[s].rows.rev = durable'[h[s].project].rev
                           => h[s].rows = durable'[h[s].project]
  PROVE  CopiesKept
<1> SUFFICES ASSUME NEW s \in StoreId, heap'[s].open
             PROVE  \/ /\ heap[s].open /\ heap'[s].project = heap[s].project
                       /\ heap'[s].rows = heap[s].rows
                    \/ /\ status'[heap'[s].project] # "unborn"
                       /\ CopyAgrees(heap[s].project, heap[s].rows)'
  BY DEF CopiesKept
<1>1. heap'[s] = h[s]
  BY MovedHeap, GarbageType
<1>2. QED BY <1>1 DEF CopyAgrees

LEMMA StepLoads ==
  ASSUME IInv, TypeOK', NEW t \in Thread, Step(t)
  PROVE  LoadsKept
<1>1. req \in [Thread -> Request] /\ req[t] \in Request
  BY DEF IInv, TypeOK
<1>2. CASE req'[t].pc \notin {"events", "rest"} /\ \A u \in Thread \ {t} : req'[u] = req[u]
  BY <1>1, <1>2 DEF LoadsKept
<1>3. CASE LoadRevision(t)
  <2> DEFINE p == req[t].project
  <2>1. /\ req'[t].pc = "events" /\ req'[t].project = p
        /\ req'[t].buf.rev = durable[p].rev
        /\ p \in Live /\ status' = status /\ durable' = durable
        /\ \A u \in Thread \ {t} : req'[u] = req[u]
    BY <1>1, <1>3 DEF LoadRevision, Request, NoRows
  <2>2. durable[p].rev \in Nat
    BY RequestTypes DEF IInv
  <2>3. QED BY <2>1, <2>2 DEF LoadsKept, Partial, Live
<1>4. CASE LoadEvents(t)
  <2> DEFINE p == req[t].project
  <2>1. /\ req'[t].pc = "rest" /\ req'[t].project = p /\ req[t].pc = "events"
        /\ req'[t].buf.rev = req[t].buf.rev /\ req'[t].buf.events = durable[p].events
        /\ status' = status /\ durable' = durable
        /\ \A u \in Thread \ {t} : req'[u] = req[u]
    BY <1>1, <1>4 DEF LoadEvents, Request, Rows
  <2>2. status[p] # "unborn" /\ (p \in Live => req[t].buf.rev <= durable[p].rev)
    BY <2>1 DEF IInv, NoneUnborn, LoadsAgree
  <2>3. QED BY <2>1, <2>2 DEF LoadsKept, Partial, Live
<1>5. ASSUME ~LoadRevision(t), ~LoadEvents(t)
      PROVE  req'[t].pc \notin {"events", "rest"} /\ \A u \in Thread \ {t} : req'[u] = req[u]
  <2> USE <1>1 DEF Request
  <2>1. CASE LookupHit(t)
    BY <2>1 DEF LookupHit
  <2>2. CASE LookupMiss(t)
    BY <2>2 DEF LookupMiss
  <2>3. CASE Invalidate(t)
    BY <2>3 DEF Invalidate
  <2>4. CASE ViewLoaded(t)
    BY <2>4 DEF ViewLoaded
  <2>5. CASE BoundLoaded(t)
    BY <2>5 DEF BoundLoaded
  <2>6. CASE Reconciled(t)
    BY <2>6 DEF Reconciled, Answer, Idle
  <2>7. CASE LeakContained(t)
    BY <2>7 DEF LeakContained, Answer, Idle
  <2>8. CASE OpeningFails(t)
    BY <2>8 DEF OpeningFails, Answer, Idle
  <2>9. CASE ReconcileFails(t)
    BY <2>9 DEF ReconcileFails, Answer, Idle
  <2>10. CASE ReadSnapshot(t)
    BY <2>10 DEF ReadSnapshot, Answer, Idle
  <2>11. CASE WriteEndsEarly(t)
    BY <2>11 DEF WriteEndsEarly, Answer, Idle
  <2>12. CASE WriteBlocked(t)
    BY <2>12 DEF WriteBlocked, Answer, Idle
  <2>13. CASE CommitSucceeds(t)
    BY <2>13 DEF CommitSucceeds, Answer, Idle
  <2>14. CASE CommitRefused(t)
    BY <2>14 DEF CommitRefused, Answer, Idle
  <2>15. CASE DropView(t)
    BY <2>15 DEF DropView, Answer, Idle
  <2>16. ASSUME NEW fault \in Fault, CommitUncertain(t, fault)
        PROVE  req'[t].pc \notin {"events", "rest"} /\ \A u \in Thread \ {t} : req'[u] = req[u]
    BY <2>16 DEF CommitUncertain
  <2>17. QED
    BY <1>5, <2>1, <2>2, <2>3, <2>4, <2>5, <2>6, <2>7, <2>8, <2>9, <2>10, <2>11, <2>12, <2>13, <2>14, <2>15, <2>16 DEF Step
<1>6. QED BY <1>2, <1>3, <1>4, <1>5

LEMMA StepCopies ==
  ASSUME IInv, TypeOK', NEW t \in Thread, Step(t)
  PROVE  CopiesKept
<1> DEFINE r == req[t]
           s == r.store
           p == r.project
<1>a. /\ heap \in [StoreId -> Store] /\ req \in [Thread -> Request] /\ r \in Request
      /\ TypeOK /\ NoneUnborn /\ LoadsAgree /\ Coherent /\ RequestShape /\ Bindings
  BY DEF IInv, TypeOK
<1>b. ASSUME UNCHANGED heap
      PROVE  CopiesKept
  BY <1>b DEF CopiesKept
<1>c. ASSUME Moved(heap)
      PROVE  CopiesKept
  BY <1>a, <1>c, SweepKeepsCopies
<1>d. ASSUME UNCHANGED <<status, durable>>, r.pc = "rest", s \in StoreId,
             NEW h \in [StoreId -> Store], Moved(h), h[s].rows = Rest(t), h[s].project = p,
             \A x \in StoreId \ {s} : h[x] = heap[x]
      PROVE  CopiesKept
  <2>1. status[p] # "unborn" /\ CopyAgrees(p, Rest(t))
    BY <1>a, <1>d, FinishedLoadAgrees
  <2>2. ASSUME NEW x \in StoreId, h[x].open
        PROVE  \/ heap[x].open /\ h[x].project = heap[x].project /\ h[x].rows = heap[x].rows
               \/ /\ status'[h[x].project] # "unborn"
                  /\ h[x].project \in Live' =>
                        /\ h[x].rows.rev <= durable'[h[x].project].rev
                        /\ h[x].rows.rev = durable'[h[x].project].rev
                              => h[x].rows = durable'[h[x].project]
    BY <1>d, <2>1, <2>2 DEF CopyAgrees, Live
  <2>3. QED BY <1>d, <2>2, SweepKeepsCopies
<1>e. r.pc = "rest" => s \in StoreId
  BY <1>a, MemoryType DEF RequestShape, WellFormed
<1>f. Loaded(p, Rest(t)) \in Store /\ Loaded(p, Rest(t)).rows = Rest(t) /\ Loaded(p, Rest(t)).project = p
  BY <1>a, RestType, LoadedType, RequestTypes DEF Loaded
<1>1. CASE LookupHit(t) \/ LookupMiss(t) \/ LoadRevision(t) \/ LoadEvents(t)
  BY <1>1, <1>b DEF LookupHit, LookupMiss, LoadRevision, LoadEvents
<1>2. CASE Invalidate(t) \/ DropView(t)
  BY <1>2, <1>c DEF Invalidate, DropView, Answer, Moved
<1>3. CASE OpeningFails(t) \/ ReadSnapshot(t) \/ WriteEndsEarly(t) \/ WriteBlocked(t) \/ CommitRefused(t)
  BY <1>3, <1>c
     DEF OpeningFails, ReadSnapshot, WriteEndsEarly, WriteBlocked, CommitRefused, Answer, Moved
<1>4. CASE ViewLoaded(t) \/ BoundLoaded(t)
  <2> DEFINE h == [heap EXCEPT ![s] = Loaded(p, Rest(t))]
  <2>1. h \in [StoreId -> Store] /\ Moved(h) /\ r.pc = "rest" /\ UNCHANGED <<status, durable>>
    BY <1>4, <1>a, <1>f DEF ViewLoaded, BoundLoaded, Moved
  <2>2. h[s].rows = Rest(t) /\ h[s].project = p /\ \A x \in StoreId \ {s} : h[x] = heap[x]
    BY <1>a, <1>e, <1>f, <2>1
  <2> HIDE DEF h
  <2>3. QED BY <1>d, <1>e, <2>1, <2>2
<1>5. ASSUME r.pc = "rest", r.why \in {"reconcile", "leaked"}
      PROVE  heap[s].project = p
  BY <1>a, <1>5 DEF Bindings, References, Repairing, Loading
<1>6. CASE Reconciled(t)
  <2> DEFINE h == [heap EXCEPT ![s].rows = Rest(t), ![s].owner = None]
  <2>1. r.pc = "rest" /\ r.why = "reconcile" /\ Moved(h) /\ UNCHANGED <<status, durable>>
    BY <1>6 DEF Reconciled, Answer, Moved
  <2>2. h \in [StoreId -> Store]
    BY <1>a, <1>e, <2>1, RestType DEF Store
  <2>3. h[s].rows = Rest(t) /\ h[s].project = p /\ \A x \in StoreId \ {s} : h[x] = heap[x]
    BY <1>a, <1>e, <1>5, <2>1 DEF Store
  <2> HIDE DEF h
  <2>4. QED BY <1>d, <1>e, <2>1, <2>2, <2>3
<1>7. CASE LeakContained(t)
  <2> DEFINE h == [heap EXCEPT ![s].rows = Rest(t), ![s].owner = None, ![s].blocked = TRUE]
  <2>1. r.pc = "rest" /\ r.why = "leaked" /\ Moved(h) /\ UNCHANGED <<status, durable>>
    BY <1>7 DEF LeakContained, Answer, Moved
  <2>2. h \in [StoreId -> Store]
    BY <1>a, <1>e, <2>1, RestType DEF Store
  <2>3. h[s].rows = Rest(t) /\ h[s].project = p /\ \A x \in StoreId \ {s} : h[x] = heap[x]
    BY <1>a, <1>e, <1>5, <2>1 DEF Store
  <2> HIDE DEF h
  <2>4. QED BY <1>d, <1>e, <2>1, <2>2, <2>3
<1>g. ASSUME NEW h \in [StoreId -> Store], Moved(h),
             \A x \in StoreId : /\ h[x].open = heap[x].open /\ h[x].project = heap[x].project
                                /\ h[x].rows = heap[x].rows
      PROVE  CopiesKept
  BY <1>g, SweepKeepsCopies
<1>8. CASE ReconcileFails(t)
  <2> DEFINE h == [heap EXCEPT ![s].owner = None, ![s].blocked = TRUE]
  <2>1. s \in StoreId
    BY <1>8, <1>a, MemoryType DEF ReconcileFails, RequestShape, WellFormed
  <2>2. h \in [StoreId -> Store] /\ Moved(h)
    BY <1>8, <1>a, <2>1 DEF Store, ReconcileFails, Answer, Moved
  <2>3. \A x \in StoreId : /\ h[x].open = heap[x].open /\ h[x].project = heap[x].project
                           /\ h[x].rows = heap[x].rows
    BY <1>a, <2>1 DEF Store
  <2> HIDE DEF h
  <2>4. QED BY <1>g, <2>2, <2>3
<1>9. ASSUME NEW fault \in Fault, CommitUncertain(t, fault)
      PROVE  CopiesKept
  <2> DEFINE h == [heap EXCEPT ![s].owner = t]
  <2>1. s \in StoreId
    BY <1>9, <1>a, MemoryType
       DEF CommitUncertain, Committing, NeedsCommit, Writing, Ready, RequestShape, WellFormed
  <2>2. h \in [StoreId -> Store] /\ Moved(h)
    BY <1>9, <1>a, <2>1 DEF Store, CommitUncertain, Moved
  <2>3. \A x \in StoreId : /\ h[x].open = heap[x].open /\ h[x].project = heap[x].project
                           /\ h[x].rows = heap[x].rows
    BY <1>a, <2>1 DEF Store
  <2> HIDE DEF h
  <2>4. QED BY <1>g, <2>2, <2>3
<1>10. CASE CommitSucceeds(t)
  <2> DEFINE rows == Candidate(r.op, Memory(t))
             h == [heap EXCEPT ![s].rows = rows]
  <2>1. /\ s \in StoreId /\ rows \in Rows /\ p \in Project /\ p \in Live
        /\ heap[s].project = p
    BY <1>10, <1>a, MemoryType, CandidateRows, RequestTypes
       DEF CommitSucceeds, Committing, NeedsCommit, Writing, Ready, RequestShape, WellFormed,
           Verdict, Bindings, References
  <2>2. durable' = [durable EXCEPT ![p] = rows] /\ status' = status /\ Moved(h)
    BY <1>10 DEF CommitSucceeds, Persist, Moved
  <2> HIDE DEF rows
  <2>3. h \in [StoreId -> Store] /\ h[s].rows = rows /\ h[s].project = p
        /\ \A x \in StoreId \ {s} : h[x] = heap[x]
    BY <1>a, <2>1 DEF Store
  <2>4. durable'[p] = rows /\ status'[p] # "unborn" /\ rows.rev \in Nat
    BY <1>a, <2>1, <2>2, WorkspaceTypes DEF Live, TypeOK, Rows
  <2> HIDE DEF h
  <2>5. ASSUME NEW x \in StoreId, h[x].open
        PROVE  \/ heap[x].open /\ h[x].project = heap[x].project /\ h[x].rows = heap[x].rows
               \/ /\ status'[h[x].project] # "unborn"
                  /\ h[x].project \in Live' =>
                        /\ h[x].rows.rev <= durable'[h[x].project].rev
                        /\ h[x].rows.rev = durable'[h[x].project].rev
                              => h[x].rows = durable'[h[x].project]
    BY <2>3, <2>4, <2>5
  <2>6. QED BY <2>2, <2>3, <2>5, SweepKeepsCopies
<1>11. QED
  BY <1>1, <1>2, <1>3, <1>4, <1>6, <1>7, <1>8, <1>9, <1>10 DEF Step

LEMMA ArrivalAgreement ==
  ASSUME IInv, NEW t \in Thread, Arrival(t)
  PROVE  CopiesKept /\ LoadsKept
<1>1. /\ heap \in [StoreId -> Store] /\ req \in [Thread -> Request]
  BY DEF IInv, TypeOK
<1> PICK p \in Project :
      \/ ArriveRead(t, p)
      \/ \E op \in Offers : ArriveViewWrite(t, p, op)
      \/ \E op \in Offers, seen \in 0 .. MaxRevision : ArriveBoundWrite(t, p, op, seen)
      \/ CreateProject(t, p)
      \/ SelectProject(t, p)
      \/ \E seen \in {None, durable[p].rev} : RenameProject(t, p, seen) \/ DeleteProject(t, p, seen)
  BY DEF Arrival
<1>2. Moved(heap)
  BY DEF ArriveRead, ArriveViewWrite, ArriveBoundWrite, Arrive, CreateProject, SelectProject,
         RenameProject, DeleteProject, Moved
<1>3. /\ req'[t].pc \in {"events", "rest"} => req'[t] = req[t]
      /\ \A u \in Thread \ {t} : req'[u] = req[u]
  <2>1. ASSUME NEW r, Arrive(t, r), r.pc \in {"lookup", "invalidate"}
        PROVE  req'[t].pc \notin {"events", "rest"} /\ \A u \in Thread \ {t} : req'[u] = req[u]
    BY <1>1, <2>1 DEF Arrive
  <2>2. CASE ArriveRead(t, p)
    BY <2>1, <2>2 DEF ArriveRead, Idle
  <2>3. CASE \E op \in Offers : ArriveViewWrite(t, p, op)
    BY <2>1, <2>3 DEF ArriveViewWrite, Idle
  <2>4. CASE \E op \in Offers, seen \in 0 .. MaxRevision : ArriveBoundWrite(t, p, op, seen)
    BY <2>1, <2>4 DEF ArriveBoundWrite, Idle
  <2>5. CASE CreateProject(t, p) \/ SelectProject(t, p)
    BY <2>5 DEF CreateProject, SelectProject
  <2>6. ASSUME NEW kind, ThenDropView(t, kind, p)
        PROVE  req'[t].pc \notin {"events", "rest"} /\ \A u \in Thread \ {t} : req'[u] = req[u]
    BY <1>1, <2>6 DEF ThenDropView, Idle
  <2>7. ASSUME NEW seen, RenameProject(t, p, seen) \/ DeleteProject(t, p, seen)
        PROVE  req'[t].pc \notin {"events", "rest"} /\ \A u \in Thread \ {t} : req'[u] = req[u]
    BY <2>6, <2>7 DEF RenameProject, DeleteProject
  <2>8. QED BY <2>2, <2>3, <2>4, <2>5, <2>7
<1>4. CopiesKept
  BY <1>1, <1>2, SweepKeepsCopies
<1>5. LoadsKept
  BY <1>3 DEF LoadsKept
<1>6. QED BY <1>4, <1>5

LEMMA RootAgreement ==
  ASSUME IInv, TypeOK', NEW t \in Thread,
         \/ \E op \in Offers : ArriveRootWrite(t, op)
         \/ \E sample \in Event : Open(t, sample)
  PROVE  CopiesKept /\ LoadsKept
<1>1. /\ heap \in [StoreId -> Store] /\ req \in [Thread -> Request] /\ durable[Legacy] \in Rows
  BY WorkspaceTypes, LegacyAssumption DEF IInv, TypeOK
<1>2. CASE \E op \in Offers : ArriveRootWrite(t, op)
  <2>1. Moved(heap)
    BY <1>2 DEF ArriveRootWrite, Arrive, Moved
  <2>2. \A u \in Thread : req'[u].pc \in {"events", "rest"} => req'[u] = req[u]
    BY <1>1, <1>2 DEF ArriveRootWrite, Arrive, Idle
  <2>3. QED BY <1>1, <2>1, <2>2, SweepKeepsCopies DEF LoadsKept
<1>3. ASSUME NEW sample \in Event, Open(t, sample)
      PROVE  CopiesKept /\ LoadsKept
  <2>1. \A u \in Thread : req'[u].pc \in {"events", "rest"} => req'[u] = req[u]
    BY <1>1, <1>3 DEF Open, Idle
  <2>2. /\ heap'[RootStore].project = Legacy /\ heap'[RootStore].rows = durable[Legacy]
        /\ \A s \in StoreId \ {RootStore} : heap'[s] = heap[s]
        /\ durable' = durable /\ status' = status /\ status[Legacy] = "live"
    BY <1>1, <1>3 DEF Open, Loaded, Live, StoreId
  <2>3. CopyAgrees(heap[RootStore].project, heap[RootStore].rows)'
    BY <1>1, <2>2 DEF CopyAgrees, Rows
  <2>4. CopiesKept
    BY <2>2, <2>3 DEF CopiesKept
  <2>5. QED BY <2>1, <2>4 DEF LoadsKept
<1>4. QED BY <1>2, <1>3

LEMMA InvariantPreserved ==
  ASSUME IInv, [Next]_vars
  PROVE  IInv'
<1>1. TypeOK'
  BY TypesPreserved DEF IInv, Bindings
<1>2. RequestShape'
  BY ShapePreserved DEF IInv
<1>3. Bindings'
  BY <1>1, <1>2, BindingsPreserved DEF IInv
<1>4. Progress
  BY StepRefines, WorkspaceProgress DEF IInv
<1>5. CopiesKept /\ LoadsKept
  <2>1. CASE Crash
    BY <2>1, GarbageType DEF Crash, CopiesKept, LoadsKept, Idle
  <2>2. CASE UNCHANGED vars
    BY <2>2 DEF vars, CopiesKept, LoadsKept
  <2>3. QED
    BY <1>1, <2>1, <2>2, StepCopies, StepLoads, ArrivalAgreement, RootAgreement DEF Next
<1>6. QED BY <1>1, <1>2, <1>3, <1>4, <1>5, AgreementKept DEF IInv

LEMMA InvariantHolds == Init => IInv
<1> SUFFICES ASSUME Init PROVE IInv
  OBVIOUS
<1> USE DEF Init
<1>1. status \in [Project -> {"unborn", "live", "deleted"}] /\ active \in Project
  BY LegacyAssumption DEF W!Init
<1>2. durable \in [Project -> Rows]
  BY NoRowsType, WorkspaceOperators DEF W!Init
<1>3. views \in Seq(Slot) /\ Len(views) <= MaxViews /\ DOMAIN views = {}
  BY EmptySeq, StoreAssumption, LenProperties
<1>4. TypeOK
  BY <1>1, <1>2, <1>3, WorkspaceTypes, GarbageType, IdleType DEF TypeOK
<1>5. RequestShape
  BY IdleWellFormed DEF RequestShape
<1>6. Bindings
  BY <1>3, GarbageType
     DEF Bindings, References, CachedViewsOpen, RootBound, Opened, Opening, Repairing, Loading,
         Idle, StoreId
<1>7. NoneUnborn /\ LoadsAgree /\ Coherent
  BY GarbageType DEF NoneUnborn, LoadsAgree, Coherent, Idle
<1>8. QED BY <1>4, <1>5, <1>6, <1>7 DEF IInv

-----------------------------------------------------------------------------
(* Theorems.                                                               *)

(* The inductive invariant holds in every reachable state.                 *)
THEOREM Inductive == Spec => []IInv
BY InvariantHolds, InvariantPreserved, PTL DEF Spec

(* Every variable of storage.py's model keeps its type; in particular the  *)
(* view cache never grows beyond MAX_CACHED_PROJECT_VIEWS.                 *)
THEOREM TypeCorrect == Spec => []TypeOK
<1>1. IInv => TypeOK
  BY DEF IInv
<1>2. QED BY <1>1, Inductive, PTL

(* The copy an EventStore holds is never ahead of SQLite, and equal to it  *)
(* whenever the revisions are equal: comparing revisions in                *)
(* _commit_candidate detects every intervening write.                      *)
THEOREM CoherentCopies == Spec => []Coherent
<1>1. IInv => Coherent
  BY DEF IInv
<1>2. QED BY <1>1, Inductive, PTL

(* The storage layer with its stores, views, faults and restarts implements*)
(* the workspace: no write is lost, applied twice or applied to stale rows.*)
THEOREM StoreImplementsWorkspace == Spec => ImplementsWorkspace
<1>1. Init => W!Init
  BY DEF Init
<1>2. IInv /\ [Next]_vars => [W!Next]_(W!workspaceVars)
  BY StepRefines
<1>3. QED BY <1>1, <1>2, Inductive, PTL DEF Spec, ImplementsWorkspace, W!Spec

LEMMA WorkspaceKeepsInv ==
  ASSUME TypeOK, W!WorkspaceInv, [W!Next]_(W!workspaceVars)
  PROVE  W!WorkspaceInv'
<1>1. /\ status \in [Project -> {"unborn", "live", "deleted"}]
      /\ durable \in [Project -> Rows] /\ active \in Project
  BY WorkspaceTypes DEF TypeOK
<1> DEFINE Goal == active \in Live /\ \A p \in Project : durable[p].labels \subseteq durable[p].events
<1>2. Goal
  BY WorkspaceOperators DEF W!WorkspaceInv
<1>3. Goal'
  <2>1. CASE UNCHANGED W!workspaceVars
    BY <1>2, <2>1 DEF W!workspaceVars, Live
  <2>2. ASSUME NEW p \in Project, NEW op \in Operation, W!Change(p, op)
        PROVE  Goal'
    <3> DEFINE rows == Candidate(op, durable[p])
               edited == Edited(op, durable[p])
    <3>1. durable' = [durable EXCEPT ![p] = rows] /\ UNCHANGED <<status, active>>
      BY <2>2, WorkspaceOperators DEF W!Change
    <3>2. edited \in Rows
      <4>1. durable[p] \in Rows
        BY <1>1
      <4>2. QED BY <4>1, EditedRows
    <3>3. rows.labels = edited.labels \cap edited.events /\ rows.events = edited.events
      <4> HIDE DEF edited
      <4>1. rows = [edited EXCEPT !.labels = edited.labels \cap edited.events, !.rev = edited.rev + 1]
        BY DEF Candidate, edited
      <4>2. QED BY <3>2, <4>1 DEF Rows
    <3> HIDE DEF rows, edited
    <3>4. QED BY <1>1, <1>2, <3>1, <3>3 DEF Live
  <2>3. ASSUME NEW p \in Project, W!Create(p) \/ W!Select(p)
        PROVE  Goal'
    BY <1>1, <1>2, <2>3, WorkspaceOperators DEF W!Create, W!Select, Live
  <2>4. ASSUME NEW p \in Project, W!Rename(p)
        PROVE  Goal'
    <3>1. /\ durable' = [durable EXCEPT ![p] = [durable[p] EXCEPT !.rev = durable[p].rev + 1]]
          /\ UNCHANGED <<status, active>>
      BY <2>4 DEF W!Rename
    <3>2. /\ [durable[p] EXCEPT !.rev = durable[p].rev + 1].labels = durable[p].labels
          /\ [durable[p] EXCEPT !.rev = durable[p].rev + 1].events = durable[p].events
      BY <1>1 DEF Rows
    <3>3. QED BY <1>1, <1>2, <3>1, <3>2 DEF Live
  <2>5. ASSUME NEW p \in Project, W!Delete(p)
        PROVE  Goal'
    <3>1. PICK heir \in Live \ {p} : active' = IF active = p THEN heir ELSE active
      BY <2>5, WorkspaceOperators DEF W!Delete
    <3>2. status' = [status EXCEPT ![p] = "deleted"] /\ durable' = [durable EXCEPT ![p] = NoRows]
      BY <2>5, WorkspaceOperators DEF W!Delete
    <3>3. active' \in Live'
      BY <1>1, <1>2, <3>1, <3>2 DEF Live
    <3>4. \A q \in Project : durable'[q].labels \subseteq durable'[q].events
      BY <1>1, <1>2, <3>2 DEF NoRows
    <3>5. QED BY <3>3, <3>4
  <2>6. QED BY <2>1, <2>2, <2>3, <2>4, <2>5, WorkspaceOperators DEF W!Next
<1>4. QED BY <1>3, WorkspaceOperators DEF W!WorkspaceInv, W!Live, Live

(* delete_project always names a live heir, and no committed row set keeps *)
(* a label without its event.                                              *)
THEOREM CatalogueIsSound == Spec => []CatalogueSound
<1>1. Init => CatalogueSound
  <2> SUFFICES ASSUME Init PROVE CatalogueSound
    OBVIOUS
  <2>1. active \in Live
    BY LegacyAssumption DEF Init, W!Init, Live
  <2>2. durable = [p \in Project |-> NoRows]
    BY WorkspaceOperators DEF Init, W!Init
  <2>3. \A p \in Project : durable[p].labels \subseteq durable[p].events
    BY <2>2 DEF NoRows
  <2>4. QED BY <2>1, <2>3, WorkspaceOperators DEF CatalogueSound, W!WorkspaceInv
<1>2. IInv /\ CatalogueSound /\ [Next]_vars => CatalogueSound'
  BY StepRefines, WorkspaceKeepsInv DEF IInv, CatalogueSound
<1>3. QED BY <1>1, <1>2, Inductive, PTL DEF Spec
=============================================================================
