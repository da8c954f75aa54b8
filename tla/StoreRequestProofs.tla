-------------------------- MODULE StoreRequestProofs --------------------------
(***************************************************************************)
(* Further proofs about ProjectStore, on top of its inductive invariant:   *)
(* locks and requests, the cache of views, the answers, and the seeding of *)
(* the sample.                                                             *)
(***************************************************************************)
EXTENDS ProjectStoreProofs

Building(t) == Loading(t) /\ req[t].why = "view"

(* The first request to a process opens its store; there is none before.   *)
ClosedIsIdle == ~Opened => \A t \in Thread : req[t].pc = "done"

(* A request that may have written says so only until it has reloaded its  *)
(* copy or dropped the view.                                               *)
WroteKnown == \A t \in Thread : req[t].wrote => req[t].pc = "drop_view" \/ Repairing(t)

(* The view lock is held exactly while a view is built, and a mutation     *)
(* lock only while its store is reconciled.                                *)
ViewLockHeld == \A t \in Thread : viewLock = t <=> Building(t)

OwnersRepair ==
    \A s \in StoreId :
        heap[s].owner # None => Repairing(heap[s].owner) /\ req[heap[s].owner].store = s

(* A view is built only of a project that has none.                        *)
NotCachedYet == \A t \in Thread : Building(t) => CachedAt(req[t].project) = {}

(* A view of a deleted project, cached or about to be, will be dropped.    *)
Dropping(p) == \E t \in Thread : req[t].pc = "drop_view" /\ req[t].project = p

StaleViewsDropped ==
    /\ \A i \in DOMAIN views :
          heap[views[i]].project \notin Live => Dropping(heap[views[i]].project)
    /\ \A t \in Thread : Building(t) /\ req[t].pc # "revision" /\ req[t].project \notin Live
          => Dropping(req[t].project)

(* The sample is written by the first request for the store of the process,*)
(* alone with it, and from a copy without events.                          *)
SeedsAlone ==
    /\ \A t \in Thread :
          /\ req[t].pc = "done" => req[t].kind = "none"
          /\ req[t].kind = "root_write" =>
                Opened /\ req[t].project = Legacy /\ req[t].store = RootStore
          /\ req[t].store = RootStore => req[t].kind = "root_write"
    /\ \A t \in Thread : Seeding(t) =>
          /\ \A u \in Thread \ {t} : req[u].kind # "root_write"
          /\ req[t].pc = "use" => NeedsSeed(heap[RootStore].rows)

RequestInv ==
    /\ ClosedIsIdle
    /\ WroteKnown
    /\ RefusedMeansUnchanged
    /\ ViewLockHeld
    /\ OwnersRepair
    /\ OneViewPerProject
    /\ NotCachedYet
    /\ StaleViewsDropped
    /\ SeedsAlone

(* What stays in the cache stays there for the same project.               *)
ViewsKeepProject ==
    \A i \in DOMAIN views, j \in DOMAIN views' :
        views'[j] = views[i] => heap'[views[i]].project = heap[views[i]].project

(* A view is built to its end, of a project without one.                   *)
BuildsOn(u) ==
    Building(u)' =>
        /\ req'[u].project = req[u].project
        /\ Building(u) \/ (req'[u].pc = "revision" /\ CachedAt(req[u].project) = {})
        /\ req'[u].pc # "revision" =>
              Building(u) /\ (req[u].pc # "revision" \/ req[u].project \in Live)

Distinct(v, h) ==
    \A i, j \in DOMAIN v : h[v[i]].project = h[v[j]].project => i = j
-----------------------------------------------------------------------------
(* What a client sends.                                                    *)
Arrives(r) ==
    /\ r.pc \in {"lookup", "invalidate"} /\ r.kind \in {"read", "view_write", "bound_write"}
    /\ r.store = None /\ r.why = "none" /\ ~r.wrote

LEMMA ArrivalRequests ==
  ASSUME NEW t \in Thread, NEW p \in Project
  PROVE  /\ ArriveRead(t, p) => \E r \in Request : Arrive(t, r) /\ Arrives(r)
         /\ \A op \in Offers : ArriveViewWrite(t, p, op)
               => \E r \in Request : Arrive(t, r) /\ Arrives(r)
         /\ \A op \in Offers, seen \in 0 .. MaxRevision : ArriveBoundWrite(t, p, op, seen)
               => \E r \in Request : Arrive(t, r) /\ Arrives(r)
<1>1. /\ [Idle EXCEPT !.pc = "lookup", !.kind = "read", !.project = p] \in Request
      /\ Arrives([Idle EXCEPT !.pc = "lookup", !.kind = "read", !.project = p])
  BY NoRowsType DEF Idle, Request, Places, Kinds, Arrives
<1>2. ASSUME NEW op \in Offers, ArriveViewWrite(t, p, op)
      PROVE  \E r \in Request : Arrive(t, r) /\ Arrives(r)
  <2> DEFINE r == [Idle EXCEPT !.pc = "lookup", !.kind = "view_write", !.project = p, !.op = op]
  <2>1. r \in Request /\ Arrives(r)
    BY NoRowsType DEF Idle, Request, Places, Kinds, Arrives, Offers
  <2>2. QED BY <1>2, <2>1 DEF ArriveViewWrite
<1>3. ASSUME NEW op \in Offers, NEW seen \in 0 .. MaxRevision, ArriveBoundWrite(t, p, op, seen)
      PROVE  \E r \in Request : Arrive(t, r) /\ Arrives(r)
  <2> DEFINE r == [Idle EXCEPT !.pc = "invalidate", !.kind = "bound_write", !.project = p,
                               !.op = op, !.expect = seen]
  <2>1. seen \in Nat /\ op \in Operation
    BY StoreAssumption DEF Offers
  <2>2. r \in Request /\ Arrives(r)
    BY <2>1, NoRowsType DEF Idle, Request, Places, Kinds, Arrives
  <2>3. QED BY <1>3, <2>2 DEF ArriveBoundWrite
<1>4. QED BY <1>1, <1>2, <1>3 DEF ArriveRead

(* What else can happen than a step of a request that has arrived.         *)
LEMMA OtherSteps ==
  ASSUME [Next]_vars, \A t \in Thread : ~Step(t)
  PROVE  \/ \E t \in Thread, r \in Request : Arrive(t, r) /\ Arrives(r)
         \/ \E t \in Thread, p \in Project :
               \/ CreateProject(t, p) \/ SelectProject(t, p)
               \/ \E seen : RenameProject(t, p, seen) \/ DeleteProject(t, p, seen)
         \/ \E t \in Thread, op \in Offers : op.kind = "append" /\ ArriveRootWrite(t, op)
         \/ \E t \in Thread, sample \in Event : Open(t, sample)
         \/ Crash
         \/ UNCHANGED vars
<1>1. ASSUME NEW t \in Thread, NEW p \in Project,
             \/ ArriveRead(t, p)
             \/ \E op \in Offers : ArriveViewWrite(t, p, op)
             \/ \E op \in Offers, seen \in 0 .. MaxRevision : ArriveBoundWrite(t, p, op, seen)
      PROVE  \E r \in Request : Arrive(t, r) /\ Arrives(r)
  BY <1>1, ArrivalRequests
<1>2. QED BY <1>1 DEF Next, Arrival

(* The end of a request.                                                   *)
LEMMA AnswerEffect ==
  ASSUME IInv, NEW t \in Thread, NEW h, NEW vs, NEW reply, Answer(t, h, vs, reply)
  PROVE  /\ req'[t] = Idle /\ \A u \in Thread \ {t} : req'[u] = req[u]
         /\ \A s \in StoreId : heap'[s] \in {h[s], Garbage}
         /\ heap'[RootStore] = h[RootStore]
  BY DEF IInv, TypeOK, Answer, Swept, StoreId

LEMMA OwnerEnds ==
  ASSUME IInv, OwnersRepair, NEW t \in Thread, NEW h, NEW vs, NEW reply, Answer(t, h, vs, reply),
         \A s \in StoreId : h[s].owner # None => h[s].owner = heap[s].owner /\ h[s].owner # t
  PROVE  OwnersRepair'
<1> SUFFICES ASSUME NEW s \in StoreId, heap'[s].owner # None
             PROVE  (Repairing(heap[s].owner) /\ req[heap[s].owner].store = s)'
  BY DEF OwnersRepair
<1>1. heap'[s].owner = heap[s].owner /\ heap[s].owner # t /\ heap[s].owner # None
  BY AnswerEffect DEF Garbage
<1>2. heap[s].owner \in Thread
  BY <1>1 DEF IInv, TypeOK, Store
<1>3. req'[heap[s].owner] = req[heap[s].owner]
  BY <1>1, <1>2, AnswerEffect
<1>4. Repairing(heap[s].owner) /\ req[heap[s].owner].store = s
  BY <1>1 DEF OwnersRepair
<1>5. QED BY <1>1, <1>3, <1>4 DEF Repairing, Loading

LEMMA SeedEnds ==
  ASSUME IInv, RequestInv, NEW t \in Thread, req'[t] = Idle,
         \A u \in Thread \ {t} : req'[u] = req[u], Opened => Opened',
         req[t].store # RootStore => heap'[RootStore] = heap[RootStore]
  PROVE  SeedsAlone'
<1>1. Idle.pc = "done" /\ Idle.kind = "none" /\ Idle.store # RootStore
  BY StoreAssumption DEF Idle
<1>2. \A u \in Thread : /\ req'[u].pc = "done" => req'[u].kind = "none"
                        /\ req'[u].kind = "root_write" =>
                              Opened' /\ req'[u].project = Legacy /\ req'[u].store = RootStore
                        /\ req'[u].store = RootStore => req'[u].kind = "root_write"
  BY <1>1 DEF RequestInv, SeedsAlone
<1>3. ASSUME NEW u \in Thread, Seeding(u)'
      PROVE  /\ \A v \in Thread \ {u} : req'[v].kind # "root_write"
             /\ req'[u].pc = "use" => NeedsSeed(heap'[RootStore].rows)
  <2>1. u # t /\ req'[u] = req[u] /\ Seeding(u)
    BY <1>1, <1>3 DEF Seeding
  <2>2. req[t].store # RootStore
    BY <2>1 DEF RequestInv, SeedsAlone
  <2>3. QED BY <1>1, <2>1, <2>2 DEF RequestInv, SeedsAlone
<1>4. QED BY <1>2, <1>3 DEF SeedsAlone

(* The store of the process.                                              *)
LEMMA OpenStep ==
  ASSUME IInv, IInv', RequestInv, NEW t \in Thread, Step(t)
  PROVE  ClosedIsIdle'
<1>a. /\ req \in [Thread -> Request] /\ req' \in [Thread -> Request] /\ req[t] \in Request
      /\ \A u \in Thread : WellFormed(req[u])
  BY DEF IInv, TypeOK, RequestShape
<1>b. RootStore \in StoreId /\ heap[RootStore] \in Store /\ heap \in [StoreId -> Store]
  BY DEF StoreId, IInv, TypeOK
<1> USE DEF Store
<1>1. CASE LookupHit(t)
  BY <1>1, <1>a, <1>b DEF RequestInv, ClosedIsIdle, Opened, Swept, Loaded, Garbage, Idle,
     LookupHit
<1>2. CASE LookupMiss(t)
  BY <1>2, <1>a, <1>b DEF RequestInv, ClosedIsIdle, Opened, Swept, Loaded, Garbage, Idle,
     LookupMiss
<1>3. CASE Invalidate(t)
  BY <1>3, <1>a, <1>b DEF RequestInv, ClosedIsIdle, Opened, Swept, Loaded, Garbage, Idle,
     Invalidate
<1>4. CASE LoadRevision(t)
  BY <1>4, <1>a, <1>b DEF RequestInv, ClosedIsIdle, Opened, Swept, Loaded, Garbage, Idle,
     LoadRevision
<1>5. CASE LoadEvents(t)
  BY <1>5, <1>a, <1>b DEF RequestInv, ClosedIsIdle, Opened, Swept, Loaded, Garbage, Idle,
     LoadEvents
<1>6. CASE ViewLoaded(t)
  BY <1>6, <1>a, <1>b DEF RequestInv, ClosedIsIdle, Opened, Swept, Loaded, Garbage, Idle,
     ViewLoaded
<1>7. CASE BoundLoaded(t)
  BY <1>7, <1>a, <1>b DEF RequestInv, ClosedIsIdle, Opened, Swept, Loaded, Garbage, Idle,
     BoundLoaded
<1>8. CASE Reconciled(t)
  BY <1>8, <1>a, <1>b DEF RequestInv, ClosedIsIdle, Opened, Swept, Loaded, Garbage, Idle, Answer,
     Reconciled
<1>9. CASE LeakContained(t)
  BY <1>9, <1>a, <1>b DEF RequestInv, ClosedIsIdle, Opened, Swept, Loaded, Garbage, Idle, Answer,
     LeakContained
<1>10. CASE OpeningFails(t)
  BY <1>10, <1>a, <1>b DEF RequestInv, ClosedIsIdle, Opened, Swept, Loaded, Garbage, Idle,
     Answer, LoadRaises, LoadError, OpeningFails
<1>11. CASE ReconcileFails(t)
  BY <1>11, <1>a, <1>b DEF RequestInv, ClosedIsIdle, Opened, Swept, Loaded, Garbage, Idle,
     Answer, LoadRaises, LoadError, ReconcileFails
<1>12. CASE ReadSnapshot(t)
  BY <1>12, <1>a, <1>b DEF RequestInv, ClosedIsIdle, Opened, Swept, Loaded, Garbage, Idle,
     Answer, Ready, ReadSnapshot
<1>13. CASE WriteEndsEarly(t)
  BY <1>13, <1>a, <1>b DEF RequestInv, ClosedIsIdle, Opened, Swept, Loaded, Garbage, Idle,
     Answer, NeedsCommit, Writing, Ready, WriteEndsEarly
<1>14. CASE WriteBlocked(t)
  BY <1>14, <1>a, <1>b DEF RequestInv, ClosedIsIdle, Opened, Swept, Loaded, Garbage, Idle,
     Answer, NeedsCommit, Writing, Ready, WriteBlocked
<1>15. CASE CommitSucceeds(t)
  BY <1>15, <1>a, <1>b DEF RequestInv, ClosedIsIdle, Opened, Swept, Loaded, Garbage, Idle,
     Persist, Committing, NeedsCommit, Writing, Ready, Verdict, CommitSucceeds
<1>16. CASE CommitRefused(t)
  BY <1>16, <1>a, <1>b DEF RequestInv, ClosedIsIdle, Opened, Swept, Loaded, Garbage, Idle,
     Answer, Committing, NeedsCommit, Writing, Ready, Verdict, CommitRefused
<1>17. CASE DropView(t)
  BY <1>17, <1>a, <1>b DEF RequestInv, ClosedIsIdle, Opened, Swept, Loaded, Garbage, Idle,
     Answer, DropView
<1>18. ASSUME NEW fault \in Fault, CommitUncertain(t, fault)
       PROVE  ClosedIsIdle'
  BY <1>18, <1>a, <1>b DEF RequestInv, ClosedIsIdle, Opened, Swept, Loaded, Garbage, Idle,
     Persist, Committing, NeedsCommit, Writing, Ready, Verdict, CommitUncertain
<1>19. QED
  BY <1>1, <1>2, <1>3, <1>4, <1>5, <1>6, <1>7, <1>8, <1>9, <1>10, <1>11, <1>12, <1>13, <1>14,
     <1>15, <1>16, <1>17, <1>18 DEF Step

LEMMA OpenOther ==
  ASSUME IInv, IInv', RequestInv, [Next]_vars, \A t \in Thread : ~Step(t)
  PROVE  ClosedIsIdle'
<1>a. /\ req \in [Thread -> Request] /\ req' \in [Thread -> Request]
      /\ \A u \in Thread : WellFormed(req[u])
  BY DEF IInv, TypeOK, RequestShape
<1>b. RootStore \in StoreId /\ heap[RootStore] \in Store /\ heap \in [StoreId -> Store]
  BY DEF StoreId, IInv, TypeOK
<1> USE DEF Store
<1>1. ASSUME NEW t \in Thread, NEW r, r \in Request, Arrive(t, r), Arrives(r)
      PROVE  ClosedIsIdle'
  BY <1>1, <1>a, <1>b DEF RequestInv, ClosedIsIdle, Opened, Swept, Loaded, Garbage, Idle, Arrive,
     Arrives
<1>2. ASSUME NEW t \in Thread, NEW p \in Project, CreateProject(t, p)
      PROVE  ClosedIsIdle'
  BY <1>2, <1>a, <1>b DEF RequestInv, ClosedIsIdle, Opened, Swept, Loaded, Garbage, Idle,
     CreateProject
<1>3. ASSUME NEW t \in Thread, NEW p \in Project, SelectProject(t, p)
      PROVE  ClosedIsIdle'
  BY <1>3, <1>a, <1>b DEF RequestInv, ClosedIsIdle, Opened, Swept, Loaded, Garbage, Idle,
     SelectProject
<1>4. ASSUME NEW t \in Thread, NEW p \in Project, NEW seen, RenameProject(t, p, seen)
      PROVE  ClosedIsIdle'
  BY <1>4, <1>a, <1>b DEF RequestInv, ClosedIsIdle, Opened, Swept, Loaded, Garbage, Idle,
     ThenDropView, RenameProject
<1>5. ASSUME NEW t \in Thread, NEW p \in Project, NEW seen, DeleteProject(t, p, seen)
      PROVE  ClosedIsIdle'
  BY <1>5, <1>a, <1>b DEF RequestInv, ClosedIsIdle, Opened, Swept, Loaded, Garbage, Idle,
     ThenDropView, DeleteProject
<1>6. ASSUME NEW t \in Thread, NEW op \in Offers, op.kind = "append", ArriveRootWrite(t, op)
      PROVE  ClosedIsIdle'
  BY <1>6, <1>a, <1>b DEF RequestInv, ClosedIsIdle, Opened, Swept, Loaded, Garbage, Idle, Arrive,
     ArriveRootWrite
<1>7. ASSUME NEW t \in Thread, NEW sample \in Event, Open(t, sample)
      PROVE  ClosedIsIdle'
  BY <1>7, <1>a, <1>b DEF RequestInv, ClosedIsIdle, Opened, Swept, Loaded, Garbage, Idle, Open
<1>8. CASE Crash
  BY <1>8, <1>a, <1>b DEF RequestInv, ClosedIsIdle, Opened, Swept, Loaded, Garbage, Idle, Crash
<1>9. CASE UNCHANGED vars
  BY <1>9, <1>a, <1>b DEF RequestInv, ClosedIsIdle, Opened, Swept, Loaded, Garbage, Idle, vars
<1>10. QED
  BY <1>1, <1>2, <1>3, <1>4, <1>5, <1>6, <1>7, <1>8, <1>9, OtherSteps

(* The answers.                                                            *)
LEMMA AnswersStep ==
  ASSUME IInv, IInv', RequestInv, NEW t \in Thread, Step(t)
  PROVE  WroteKnown' /\ RefusedMeansUnchanged'
<1>a. /\ req \in [Thread -> Request] /\ req' \in [Thread -> Request] /\ req[t] \in Request
      /\ \A u \in Thread : WellFormed(req[u])
  BY DEF IInv, TypeOK, RequestShape
<1>1. CASE LookupHit(t)
  BY <1>1, <1>a DEF RequestInv, WroteKnown, RefusedMeansUnchanged, Repairing, Loading,
     WellFormed, Request, Idle, LookupHit
<1>2. CASE LookupMiss(t)
  BY <1>2, <1>a DEF RequestInv, WroteKnown, RefusedMeansUnchanged, Repairing, Loading,
     WellFormed, Request, Idle, LookupMiss
<1>3. CASE Invalidate(t)
  BY <1>3, <1>a DEF RequestInv, WroteKnown, RefusedMeansUnchanged, Repairing, Loading,
     WellFormed, Request, Idle, Invalidate
<1>4. CASE LoadRevision(t)
  BY <1>4, <1>a DEF RequestInv, WroteKnown, RefusedMeansUnchanged, Repairing, Loading,
     WellFormed, Request, Idle, LoadRevision
<1>5. CASE LoadEvents(t)
  BY <1>5, <1>a DEF RequestInv, WroteKnown, RefusedMeansUnchanged, Repairing, Loading,
     WellFormed, Request, Idle, LoadEvents
<1>6. CASE ViewLoaded(t)
  BY <1>6, <1>a DEF RequestInv, WroteKnown, RefusedMeansUnchanged, Repairing, Loading,
     WellFormed, Request, Idle, ViewLoaded
<1>7. CASE BoundLoaded(t)
  BY <1>7, <1>a DEF RequestInv, WroteKnown, RefusedMeansUnchanged, Repairing, Loading,
     WellFormed, Request, Idle, BoundLoaded
<1>8. CASE Reconciled(t)
  BY <1>8, <1>a DEF RequestInv, WroteKnown, RefusedMeansUnchanged, Repairing, Loading,
     WellFormed, Request, Idle, Answer, Reconciled
<1>9. CASE LeakContained(t)
  BY <1>9, <1>a DEF RequestInv, WroteKnown, RefusedMeansUnchanged, Repairing, Loading,
     WellFormed, Request, Idle, Answer, LeakContained
<1>10. CASE OpeningFails(t)
  BY <1>10, <1>a DEF RequestInv, WroteKnown, RefusedMeansUnchanged, Repairing, Loading,
     WellFormed, Request, Idle, Answer, LoadRaises, LoadError, OpeningFails
<1>11. CASE ReconcileFails(t)
  BY <1>11, <1>a DEF RequestInv, WroteKnown, RefusedMeansUnchanged, Repairing, Loading,
     WellFormed, Request, Idle, Answer, LoadRaises, LoadError, ReconcileFails
<1>12. CASE ReadSnapshot(t)
  BY <1>12, <1>a DEF RequestInv, WroteKnown, RefusedMeansUnchanged, Repairing, Loading,
     WellFormed, Request, Idle, Answer, Ready, ReadSnapshot
<1>13. CASE WriteEndsEarly(t)
  BY <1>13, <1>a DEF RequestInv, WroteKnown, RefusedMeansUnchanged, Repairing, Loading,
     WellFormed, Request, Idle, Answer, NeedsCommit, Writing, Ready, WriteEndsEarly
<1>14. CASE WriteBlocked(t)
  BY <1>14, <1>a DEF RequestInv, WroteKnown, RefusedMeansUnchanged, Repairing, Loading,
     WellFormed, Request, Idle, Answer, NeedsCommit, Writing, Ready, WriteBlocked
<1>15. CASE CommitSucceeds(t)
  BY <1>15, <1>a DEF RequestInv, WroteKnown, RefusedMeansUnchanged, Repairing, Loading,
     WellFormed, Request, Idle, Persist, Committing, NeedsCommit, Writing, Ready, Verdict,
     CommitSucceeds
<1>16. CASE CommitRefused(t)
  BY <1>16, <1>a DEF RequestInv, WroteKnown, RefusedMeansUnchanged, Repairing, Loading,
     WellFormed, Request, Idle, Answer, Committing, NeedsCommit, Writing, Ready, Verdict,
     CommitRefused
<1>17. CASE DropView(t)
  BY <1>17, <1>a DEF RequestInv, WroteKnown, RefusedMeansUnchanged, Repairing, Loading,
     WellFormed, Request, Idle, Answer, DropView
<1>18. ASSUME NEW fault \in Fault, CommitUncertain(t, fault)
       PROVE  WroteKnown' /\ RefusedMeansUnchanged'
  BY <1>18, <1>a DEF RequestInv, WroteKnown, RefusedMeansUnchanged, Repairing, Loading,
     WellFormed, Request, Idle, Persist, Committing, NeedsCommit, Writing, Ready, Verdict,
     CommitUncertain
<1>19. QED
  BY <1>1, <1>2, <1>3, <1>4, <1>5, <1>6, <1>7, <1>8, <1>9, <1>10, <1>11, <1>12, <1>13, <1>14,
     <1>15, <1>16, <1>17, <1>18 DEF Step

LEMMA AnswersOther ==
  ASSUME IInv, IInv', RequestInv, [Next]_vars, \A t \in Thread : ~Step(t)
  PROVE  WroteKnown' /\ RefusedMeansUnchanged'
<1>a. /\ req \in [Thread -> Request] /\ req' \in [Thread -> Request]
      /\ \A u \in Thread : WellFormed(req[u])
  BY DEF IInv, TypeOK, RequestShape
<1>1. ASSUME NEW t \in Thread, NEW r, r \in Request, Arrive(t, r), Arrives(r)
      PROVE  WroteKnown' /\ RefusedMeansUnchanged'
  BY <1>1, <1>a DEF RequestInv, WroteKnown, RefusedMeansUnchanged, Repairing, Loading,
     WellFormed, Request, Idle, Arrive, Arrives
<1>2. ASSUME NEW t \in Thread, NEW p \in Project, CreateProject(t, p)
      PROVE  WroteKnown' /\ RefusedMeansUnchanged'
  BY <1>2, <1>a DEF RequestInv, WroteKnown, RefusedMeansUnchanged, Repairing, Loading,
     WellFormed, Request, Idle, CreateProject
<1>3. ASSUME NEW t \in Thread, NEW p \in Project, SelectProject(t, p)
      PROVE  WroteKnown' /\ RefusedMeansUnchanged'
  BY <1>3, <1>a DEF RequestInv, WroteKnown, RefusedMeansUnchanged, Repairing, Loading,
     WellFormed, Request, Idle, SelectProject
<1>4. ASSUME NEW t \in Thread, NEW p \in Project, NEW seen, RenameProject(t, p, seen)
      PROVE  WroteKnown' /\ RefusedMeansUnchanged'
  BY <1>4, <1>a DEF RequestInv, WroteKnown, RefusedMeansUnchanged, Repairing, Loading,
     WellFormed, Request, Idle, ThenDropView, RenameProject
<1>5. ASSUME NEW t \in Thread, NEW p \in Project, NEW seen, DeleteProject(t, p, seen)
      PROVE  WroteKnown' /\ RefusedMeansUnchanged'
  BY <1>5, <1>a DEF RequestInv, WroteKnown, RefusedMeansUnchanged, Repairing, Loading,
     WellFormed, Request, Idle, ThenDropView, DeleteProject
<1>6. ASSUME NEW t \in Thread, NEW op \in Offers, op.kind = "append", ArriveRootWrite(t, op)
      PROVE  WroteKnown' /\ RefusedMeansUnchanged'
  BY <1>6, <1>a DEF RequestInv, WroteKnown, RefusedMeansUnchanged, Repairing, Loading,
     WellFormed, Request, Idle, Arrive, ArriveRootWrite
<1>7. ASSUME NEW t \in Thread, NEW sample \in Event, Open(t, sample)
      PROVE  WroteKnown' /\ RefusedMeansUnchanged'
  BY <1>7, <1>a DEF RequestInv, WroteKnown, RefusedMeansUnchanged, Repairing, Loading,
     WellFormed, Request, Idle, Open
<1>8. CASE Crash
  BY <1>8, <1>a DEF RequestInv, WroteKnown, RefusedMeansUnchanged, Repairing, Loading,
     WellFormed, Request, Idle, Crash
<1>9. CASE UNCHANGED vars
  BY <1>9, <1>a DEF RequestInv, WroteKnown, RefusedMeansUnchanged, Repairing, Loading,
     WellFormed, Request, Idle, vars
<1>10. QED
  BY <1>1, <1>2, <1>3, <1>4, <1>5, <1>6, <1>7, <1>8, <1>9, OtherSteps

(* The locks.                                                              *)
LEMMA LockStep ==
  ASSUME IInv, IInv', RequestInv, NEW t \in Thread, Step(t)
  PROVE  ViewLockHeld'
<1>a. /\ req \in [Thread -> Request] /\ req' \in [Thread -> Request] /\ req[t] \in Request
      /\ \A u \in Thread : WellFormed(req[u])
  BY DEF IInv, TypeOK, RequestShape
<1>1. CASE LookupHit(t)
  BY <1>1, <1>a, StoreAssumption DEF RequestInv, ClosedIsIdle, ViewLockHeld, Building, Loading,
     WellFormed, Request, Idle, LookupHit
<1>2. CASE LookupMiss(t)
  BY <1>2, <1>a, StoreAssumption DEF RequestInv, ClosedIsIdle, ViewLockHeld, Building, Loading,
     WellFormed, Request, Idle, LookupMiss
<1>3. CASE Invalidate(t)
  BY <1>3, <1>a, StoreAssumption DEF RequestInv, ClosedIsIdle, ViewLockHeld, Building, Loading,
     WellFormed, Request, Idle, Invalidate
<1>4. CASE LoadRevision(t)
  BY <1>4, <1>a, StoreAssumption DEF RequestInv, ClosedIsIdle, ViewLockHeld, Building, Loading,
     WellFormed, Request, Idle, LoadRevision
<1>5. CASE LoadEvents(t)
  BY <1>5, <1>a, StoreAssumption DEF RequestInv, ClosedIsIdle, ViewLockHeld, Building, Loading,
     WellFormed, Request, Idle, LoadEvents
<1>6. CASE ViewLoaded(t)
  BY <1>6, <1>a, StoreAssumption DEF RequestInv, ClosedIsIdle, ViewLockHeld, Building, Loading,
     WellFormed, Request, Idle, ViewLoaded
<1>7. CASE BoundLoaded(t)
  BY <1>7, <1>a, StoreAssumption DEF RequestInv, ClosedIsIdle, ViewLockHeld, Building, Loading,
     WellFormed, Request, Idle, BoundLoaded
<1>8. CASE Reconciled(t)
  BY <1>8, <1>a, StoreAssumption DEF RequestInv, ClosedIsIdle, ViewLockHeld, Building, Loading,
     WellFormed, Request, Idle, Answer, Reconciled
<1>9. CASE LeakContained(t)
  BY <1>9, <1>a, StoreAssumption DEF RequestInv, ClosedIsIdle, ViewLockHeld, Building, Loading,
     WellFormed, Request, Idle, Answer, LeakContained
<1>10. CASE OpeningFails(t)
  BY <1>10, <1>a, StoreAssumption DEF RequestInv, ClosedIsIdle, ViewLockHeld, Building, Loading,
     WellFormed, Request, Idle, Answer, LoadRaises, LoadError, OpeningFails
<1>11. CASE ReconcileFails(t)
  BY <1>11, <1>a, StoreAssumption DEF RequestInv, ClosedIsIdle, ViewLockHeld, Building, Loading,
     WellFormed, Request, Idle, Answer, LoadRaises, LoadError, ReconcileFails
<1>12. CASE ReadSnapshot(t)
  BY <1>12, <1>a, StoreAssumption DEF RequestInv, ClosedIsIdle, ViewLockHeld, Building, Loading,
     WellFormed, Request, Idle, Answer, Ready, ReadSnapshot
<1>13. CASE WriteEndsEarly(t)
  BY <1>13, <1>a, StoreAssumption DEF RequestInv, ClosedIsIdle, ViewLockHeld, Building, Loading,
     WellFormed, Request, Idle, Answer, NeedsCommit, Writing, Ready, WriteEndsEarly
<1>14. CASE WriteBlocked(t)
  BY <1>14, <1>a, StoreAssumption DEF RequestInv, ClosedIsIdle, ViewLockHeld, Building, Loading,
     WellFormed, Request, Idle, Answer, NeedsCommit, Writing, Ready, WriteBlocked
<1>15. CASE CommitSucceeds(t)
  BY <1>15, <1>a, StoreAssumption DEF RequestInv, ClosedIsIdle, ViewLockHeld, Building, Loading,
     WellFormed, Request, Idle, Persist, Committing, NeedsCommit, Writing, Ready, Verdict,
     CommitSucceeds
<1>16. CASE CommitRefused(t)
  BY <1>16, <1>a, StoreAssumption DEF RequestInv, ClosedIsIdle, ViewLockHeld, Building, Loading,
     WellFormed, Request, Idle, Answer, Committing, NeedsCommit, Writing, Ready, Verdict,
     CommitRefused
<1>17. CASE DropView(t)
  BY <1>17, <1>a, StoreAssumption DEF RequestInv, ClosedIsIdle, ViewLockHeld, Building, Loading,
     WellFormed, Request, Idle, Answer, DropView
<1>18. ASSUME NEW fault \in Fault, CommitUncertain(t, fault)
       PROVE  ViewLockHeld'
  BY <1>18, <1>a, StoreAssumption DEF RequestInv, ClosedIsIdle, ViewLockHeld, Building, Loading,
     WellFormed, Request, Idle, Persist, Committing, NeedsCommit, Writing, Ready, Verdict,
     CommitUncertain
<1>19. QED
  BY <1>1, <1>2, <1>3, <1>4, <1>5, <1>6, <1>7, <1>8, <1>9, <1>10, <1>11, <1>12, <1>13, <1>14,
     <1>15, <1>16, <1>17, <1>18 DEF Step

LEMMA LockOther ==
  ASSUME IInv, IInv', RequestInv, [Next]_vars, \A t \in Thread : ~Step(t)
  PROVE  ViewLockHeld'
<1>a. /\ req \in [Thread -> Request] /\ req' \in [Thread -> Request]
      /\ \A u \in Thread : WellFormed(req[u])
  BY DEF IInv, TypeOK, RequestShape
<1>1. ASSUME NEW t \in Thread, NEW r, r \in Request, Arrive(t, r), Arrives(r)
      PROVE  ViewLockHeld'
  BY <1>1, <1>a, StoreAssumption DEF RequestInv, ClosedIsIdle, ViewLockHeld, Building, Loading,
     WellFormed, Request, Idle, Arrive, Arrives
<1>2. ASSUME NEW t \in Thread, NEW p \in Project, CreateProject(t, p)
      PROVE  ViewLockHeld'
  BY <1>2, <1>a, StoreAssumption DEF RequestInv, ClosedIsIdle, ViewLockHeld, Building, Loading,
     WellFormed, Request, Idle, CreateProject
<1>3. ASSUME NEW t \in Thread, NEW p \in Project, SelectProject(t, p)
      PROVE  ViewLockHeld'
  BY <1>3, <1>a, StoreAssumption DEF RequestInv, ClosedIsIdle, ViewLockHeld, Building, Loading,
     WellFormed, Request, Idle, SelectProject
<1>4. ASSUME NEW t \in Thread, NEW p \in Project, NEW seen, RenameProject(t, p, seen)
      PROVE  ViewLockHeld'
  BY <1>4, <1>a, StoreAssumption DEF RequestInv, ClosedIsIdle, ViewLockHeld, Building, Loading,
     WellFormed, Request, Idle, ThenDropView, RenameProject
<1>5. ASSUME NEW t \in Thread, NEW p \in Project, NEW seen, DeleteProject(t, p, seen)
      PROVE  ViewLockHeld'
  BY <1>5, <1>a, StoreAssumption DEF RequestInv, ClosedIsIdle, ViewLockHeld, Building, Loading,
     WellFormed, Request, Idle, ThenDropView, DeleteProject
<1>6. ASSUME NEW t \in Thread, NEW op \in Offers, op.kind = "append", ArriveRootWrite(t, op)
      PROVE  ViewLockHeld'
  BY <1>6, <1>a, StoreAssumption DEF RequestInv, ClosedIsIdle, ViewLockHeld, Building, Loading,
     WellFormed, Request, Idle, Arrive, ArriveRootWrite
<1>7. ASSUME NEW t \in Thread, NEW sample \in Event, Open(t, sample)
      PROVE  ViewLockHeld'
  BY <1>7, <1>a, StoreAssumption DEF RequestInv, ClosedIsIdle, ViewLockHeld, Building, Loading,
     WellFormed, Request, Idle, Open
<1>8. CASE Crash
  BY <1>8, <1>a, StoreAssumption DEF RequestInv, ClosedIsIdle, ViewLockHeld, Building, Loading,
     WellFormed, Request, Idle, Crash
<1>9. CASE UNCHANGED vars
  BY <1>9, <1>a, StoreAssumption DEF RequestInv, ClosedIsIdle, ViewLockHeld, Building, Loading,
     WellFormed, Request, Idle, vars
<1>10. QED
  BY <1>1, <1>2, <1>3, <1>4, <1>5, <1>6, <1>7, <1>8, <1>9, OtherSteps

(* A mutation lock is taken by a request that reconciles its store.        *)
LEMMA OwnerStep ==
  ASSUME IInv, IInv', RequestInv, NEW t \in Thread, Step(t)
  PROVE  OwnersRepair'
<1>a. /\ req \in [Thread -> Request] /\ req' \in [Thread -> Request] /\ req[t] \in Request
      /\ \A u \in Thread : WellFormed(req[u])
  BY DEF IInv, TypeOK, RequestShape
<1>b. heap \in [StoreId -> Store] /\ RootStore \in StoreId /\ RootStore \notin Slot
        /\ Slot \subseteq StoreId
  BY StoreAssumption DEF StoreId, IInv, TypeOK
<1>1. CASE LookupHit(t)
  BY <1>1, <1>a, <1>b, StoreAssumption DEF RequestInv, ClosedIsIdle, OwnersRepair, Repairing,
     Loading, WellFormed, Request, Idle, Swept, Garbage, Loaded, Store, LookupHit
<1>2. CASE LookupMiss(t)
  BY <1>2, <1>a, <1>b, StoreAssumption DEF RequestInv, ClosedIsIdle, OwnersRepair, Repairing,
     Loading, WellFormed, Request, Idle, Swept, Garbage, Loaded, Store, LookupMiss
<1>3. CASE Invalidate(t)
  BY <1>3, <1>a, <1>b, StoreAssumption DEF RequestInv, ClosedIsIdle, OwnersRepair, Repairing,
     Loading, WellFormed, Request, Idle, Swept, Garbage, Loaded, Store, Invalidate
<1>4. CASE LoadRevision(t)
  BY <1>4, <1>a, <1>b, StoreAssumption DEF RequestInv, ClosedIsIdle, OwnersRepair, Repairing,
     Loading, WellFormed, Request, Idle, Swept, Garbage, Loaded, Store, LoadRevision
<1>5. CASE LoadEvents(t)
  <2>1. UNCHANGED heap /\ \A u \in Thread \ {t} : req'[u] = req[u]
    BY <1>5, <1>a DEF LoadEvents
  <2>2. /\ req'[t].pc = "rest" /\ req[t].pc = "events"
        /\ req'[t].why = req[t].why /\ req'[t].store = req[t].store
    BY <1>5, <1>a DEF LoadEvents, Request
  <2>3. QED BY <1>b, <2>1, <2>2 DEF RequestInv, OwnersRepair, Repairing, Loading, Store
<1>6. CASE ViewLoaded(t)
  <2>1. ~Repairing(t)
    BY <1>6 DEF ViewLoaded, Repairing
  <2>2. /\ \A u \in Thread \ {t} : req'[u] = req[u]
        /\ \A s \in StoreId : heap'[s].owner \in {heap[s].owner, None}
    BY <1>6, <1>a, <1>b DEF ViewLoaded, Swept, Garbage, Loaded
  <2>3. \A s \in StoreId : heap[s].owner \in Thread \cup {None} /\ heap[s].owner # t
    BY <1>b, <2>1, StoreAssumption DEF RequestInv, OwnersRepair, Store
  <2>4. QED BY <2>2, <2>3 DEF RequestInv, OwnersRepair, Repairing, Loading
<1>7. CASE BoundLoaded(t)
  BY <1>7, <1>a, <1>b, StoreAssumption DEF RequestInv, ClosedIsIdle, OwnersRepair, Repairing,
     Loading, WellFormed, Request, Idle, Swept, Garbage, Loaded, Store, BoundLoaded
<1>8. CASE Reconciled(t)
  <2> DEFINE s == req[t].store
             h == [heap EXCEPT ![s].rows = Rest(t), ![s].owner = None]
  <2>1. PICK reply : Answer(t, h, views, reply)
    BY <1>8 DEF Reconciled
  <2>2. ASSUME NEW x \in StoreId, h[x].owner # None
        PROVE  h[x].owner = heap[x].owner /\ h[x].owner # t
    <3>1. x # s /\ h[x] = heap[x]
      BY <1>b, <2>2 DEF Store
    <3>2. QED BY <2>2, <3>1, StoreAssumption DEF RequestInv, OwnersRepair
  <2>3. QED BY <2>1, <2>2, OwnerEnds DEF RequestInv
<1>9. CASE LeakContained(t)
  <2> DEFINE s == req[t].store
             h == [heap EXCEPT ![s].rows = Rest(t), ![s].owner = None, ![s].blocked = TRUE]
  <2>1. PICK reply : Answer(t, h, views, reply)
    BY <1>9 DEF LeakContained
  <2>2. ASSUME NEW x \in StoreId, h[x].owner # None
        PROVE  h[x].owner = heap[x].owner /\ h[x].owner # t
    <3>1. x # s /\ h[x] = heap[x]
      BY <1>b, <2>2 DEF Store
    <3>2. QED BY <2>2, <3>1, StoreAssumption DEF RequestInv, OwnersRepair
  <2>3. QED BY <2>1, <2>2, OwnerEnds DEF RequestInv
<1>10. CASE OpeningFails(t)
  <2>1. ~Repairing(t)
    BY <1>10, <1>a DEF OpeningFails, Repairing, Loading
  <2>2. \A s \in StoreId : heap[s].owner # t
    BY <2>1, StoreAssumption DEF RequestInv, OwnersRepair
  <2>3. QED BY <1>10, <2>2, OwnerEnds DEF RequestInv, OpeningFails
<1>11. CASE ReconcileFails(t)
  <2> DEFINE s == req[t].store
             h == [heap EXCEPT ![s].owner = None, ![s].blocked = TRUE]
  <2>1. PICK reply : Answer(t, h, views, reply)
    BY <1>11 DEF ReconcileFails
  <2>2. ASSUME NEW x \in StoreId, h[x].owner # None
        PROVE  h[x].owner = heap[x].owner /\ h[x].owner # t
    <3>1. x # s /\ h[x] = heap[x]
      BY <1>b, <2>2 DEF Store
    <3>2. QED BY <2>2, <3>1, StoreAssumption DEF RequestInv, OwnersRepair
  <2>3. QED BY <2>1, <2>2, OwnerEnds DEF RequestInv
<1>12. CASE ReadSnapshot(t)
  <2>1. ~Repairing(t)
    BY <1>12, <1>a DEF ReadSnapshot, Ready, Repairing, Loading
  <2>2. \A s \in StoreId : heap[s].owner # t
    BY <2>1, StoreAssumption DEF RequestInv, OwnersRepair
  <2>3. QED BY <1>12, <2>2, OwnerEnds DEF RequestInv, ReadSnapshot
<1>13. CASE WriteEndsEarly(t)
  <2>1. ~Repairing(t)
    BY <1>13, <1>a DEF WriteEndsEarly, Writing, Ready, Repairing, Loading
  <2>2. \A s \in StoreId : heap[s].owner # t
    BY <2>1, StoreAssumption DEF RequestInv, OwnersRepair
  <2>3. QED BY <1>13, <2>2, OwnerEnds DEF RequestInv, WriteEndsEarly
<1>14. CASE WriteBlocked(t)
  <2>1. ~Repairing(t)
    BY <1>14, <1>a DEF WriteBlocked, NeedsCommit, Writing, Ready, Repairing, Loading
  <2>2. \A s \in StoreId : heap[s].owner # t
    BY <2>1, StoreAssumption DEF RequestInv, OwnersRepair
  <2>3. QED BY <1>14, <2>2, OwnerEnds DEF RequestInv, WriteBlocked
<1>15. CASE CommitSucceeds(t)
  <2>1. ~Repairing(t)
    BY <1>15 DEF CommitSucceeds, Committing, NeedsCommit, Writing, Ready, Repairing, Loading
  <2>2. /\ \A u \in Thread \ {t} : req'[u] = req[u]
        /\ \A s \in StoreId : heap'[s].owner = heap[s].owner \/ heap'[s] = Garbage
    BY <1>15, <1>a, <1>b DEF CommitSucceeds, Swept, Store
  <2>3. \A s \in StoreId : heap[s].owner \in Thread \cup {None} /\ heap[s].owner # t
    BY <1>b, <2>1, StoreAssumption DEF RequestInv, OwnersRepair, Store
  <2>4. QED BY <2>2, <2>3 DEF RequestInv, OwnersRepair, Repairing, Loading, Garbage
<1>16. CASE CommitRefused(t)
  <2>1. ~Repairing(t)
    BY <1>16, <1>a DEF CommitRefused, Committing, NeedsCommit, Writing, Ready, Repairing, Loading
  <2>2. \A s \in StoreId : heap[s].owner # t
    BY <2>1, StoreAssumption DEF RequestInv, OwnersRepair
  <2>3. QED BY <1>16, <2>2, OwnerEnds DEF RequestInv, CommitRefused
<1>17. CASE DropView(t)
  <2>1. ~Repairing(t)
    BY <1>17, <1>a DEF DropView, Repairing, Loading
  <2>2. \A s \in StoreId : heap[s].owner # t
    BY <2>1, StoreAssumption DEF RequestInv, OwnersRepair
  <2>3. QED BY <1>17, <2>2, OwnerEnds DEF RequestInv, DropView
<1>18. ASSUME NEW fault \in Fault, CommitUncertain(t, fault)
       PROVE  OwnersRepair'
  BY <1>18, <1>a, <1>b, StoreAssumption DEF RequestInv, ClosedIsIdle, OwnersRepair, Repairing,
     Loading, WellFormed, Request, Idle, Swept, Garbage, Loaded, Store, Persist, Committing,
     NeedsCommit, Writing, Ready, Verdict, CommitUncertain
<1>19. QED
  BY <1>1, <1>2, <1>3, <1>4, <1>5, <1>6, <1>7, <1>8, <1>9, <1>10, <1>11, <1>12, <1>13, <1>14,
     <1>15, <1>16, <1>17, <1>18 DEF Step

LEMMA OwnerOther ==
  ASSUME IInv, IInv', RequestInv, [Next]_vars, \A t \in Thread : ~Step(t)
  PROVE  OwnersRepair'
<1>a. /\ req \in [Thread -> Request] /\ req' \in [Thread -> Request]
      /\ \A u \in Thread : WellFormed(req[u])
  BY DEF IInv, TypeOK, RequestShape
<1>b. heap \in [StoreId -> Store] /\ RootStore \in StoreId /\ RootStore \notin Slot
        /\ Slot \subseteq StoreId
  BY StoreAssumption DEF StoreId, IInv, TypeOK
<1>1. ASSUME NEW t \in Thread, NEW r, r \in Request, Arrive(t, r), Arrives(r)
      PROVE  OwnersRepair'
  BY <1>1, <1>a, <1>b, StoreAssumption DEF RequestInv, ClosedIsIdle, OwnersRepair, Repairing,
     Loading, WellFormed, Request, Idle, Swept, Garbage, Loaded, Store, Arrive, Arrives
<1>2. ASSUME NEW t \in Thread, NEW p \in Project, CreateProject(t, p)
      PROVE  OwnersRepair'
  BY <1>2, <1>a, <1>b, StoreAssumption DEF RequestInv, ClosedIsIdle, OwnersRepair, Repairing,
     Loading, WellFormed, Request, Idle, Swept, Garbage, Loaded, Store, CreateProject
<1>3. ASSUME NEW t \in Thread, NEW p \in Project, SelectProject(t, p)
      PROVE  OwnersRepair'
  BY <1>3, <1>a, <1>b, StoreAssumption DEF RequestInv, ClosedIsIdle, OwnersRepair, Repairing,
     Loading, WellFormed, Request, Idle, Swept, Garbage, Loaded, Store, SelectProject
<1>4. ASSUME NEW t \in Thread, NEW p \in Project, NEW seen, RenameProject(t, p, seen)
      PROVE  OwnersRepair'
  BY <1>4, <1>a, <1>b, StoreAssumption DEF RequestInv, ClosedIsIdle, OwnersRepair, Repairing,
     Loading, WellFormed, Request, Idle, Swept, Garbage, Loaded, Store, ThenDropView, RenameProject
<1>5. ASSUME NEW t \in Thread, NEW p \in Project, NEW seen, DeleteProject(t, p, seen)
      PROVE  OwnersRepair'
  BY <1>5, <1>a, <1>b, StoreAssumption DEF RequestInv, ClosedIsIdle, OwnersRepair, Repairing,
     Loading, WellFormed, Request, Idle, Swept, Garbage, Loaded, Store, ThenDropView, DeleteProject
<1>6. ASSUME NEW t \in Thread, NEW op \in Offers, op.kind = "append", ArriveRootWrite(t, op)
      PROVE  OwnersRepair'
  BY <1>6, <1>a, <1>b, StoreAssumption DEF RequestInv, ClosedIsIdle, OwnersRepair, Repairing,
     Loading, WellFormed, Request, Idle, Swept, Garbage, Loaded, Store, Arrive, ArriveRootWrite
<1>7. ASSUME NEW t \in Thread, NEW sample \in Event, Open(t, sample)
      PROVE  OwnersRepair'
  BY <1>7, <1>a, <1>b, StoreAssumption DEF RequestInv, ClosedIsIdle, OwnersRepair, Repairing,
     Loading, WellFormed, Request, Idle, Swept, Garbage, Loaded, Store, Open
<1>8. CASE Crash
  BY <1>8, <1>a, <1>b, StoreAssumption DEF RequestInv, ClosedIsIdle, OwnersRepair, Repairing,
     Loading, WellFormed, Request, Idle, Swept, Garbage, Loaded, Store, Crash
<1>9. CASE UNCHANGED vars
  BY <1>9, <1>a, <1>b, StoreAssumption DEF RequestInv, ClosedIsIdle, OwnersRepair, Repairing,
     Loading, WellFormed, Request, Idle, Swept, Garbage, Loaded, Store, vars
<1>10. QED
  BY <1>1, <1>2, <1>3, <1>4, <1>5, <1>6, <1>7, <1>8, <1>9, OtherSteps

(* A view stays one of its project.                                        *)
LEMMA ProjectStep ==
  ASSUME IInv, IInv', RequestInv, NEW t \in Thread, Step(t)
  PROVE  ViewsKeepProject
<1>a. /\ req \in [Thread -> Request] /\ req' \in [Thread -> Request] /\ req[t] \in Request
      /\ \A u \in Thread : WellFormed(req[u])
  BY DEF IInv, TypeOK, RequestShape
<1>b. heap \in [StoreId -> Store] /\ RootStore \in StoreId /\ RootStore \notin Slot
        /\ Slot \subseteq StoreId
  BY StoreAssumption DEF StoreId, IInv, TypeOK
<1>c. /\ views \in Seq(Slot) /\ \A i \in DOMAIN views : views[i] \in Slot
      /\ References /\ CachedViewsOpen
  BY CachedIsSlot DEF IInv, TypeOK, Bindings
<1>1. CASE LookupHit(t)
  BY <1>1, <1>a, <1>b, <1>c DEF ViewsKeepProject, References, CachedViewsOpen, Opening, Loading,
     Swept, Garbage, Loaded, Store, LookupHit
<1>2. CASE LookupMiss(t)
  BY <1>2, <1>a, <1>b, <1>c DEF ViewsKeepProject, References, CachedViewsOpen, Opening, Loading,
     Swept, Garbage, Loaded, Store, LookupMiss
<1>3. CASE Invalidate(t)
  BY <1>3, <1>a, <1>b, <1>c DEF ViewsKeepProject, References, CachedViewsOpen, Opening, Loading,
     Swept, Garbage, Loaded, Store, Invalidate
<1>4. CASE LoadRevision(t)
  BY <1>4, <1>a, <1>b, <1>c DEF ViewsKeepProject, References, CachedViewsOpen, Opening, Loading,
     Swept, Garbage, Loaded, Store, LoadRevision
<1>5. CASE LoadEvents(t)
  BY <1>5, <1>a, <1>b, <1>c DEF ViewsKeepProject, References, CachedViewsOpen, Opening, Loading,
     Swept, Garbage, Loaded, Store, LoadEvents
<1>6. CASE ViewLoaded(t)
  BY <1>6, <1>a, <1>b, <1>c DEF ViewsKeepProject, References, CachedViewsOpen, Opening, Loading,
     Swept, Garbage, Loaded, Store, ViewLoaded
<1>7. CASE BoundLoaded(t)
  BY <1>7, <1>a, <1>b, <1>c DEF ViewsKeepProject, References, CachedViewsOpen, Opening, Loading,
     Swept, Garbage, Loaded, Store, BoundLoaded
<1>8. CASE Reconciled(t)
  BY <1>8, <1>a, <1>b, <1>c DEF ViewsKeepProject, References, CachedViewsOpen, Opening, Loading,
     Swept, Garbage, Loaded, Store, Answer, Reconciled
<1>9. CASE LeakContained(t)
  BY <1>9, <1>a, <1>b, <1>c DEF ViewsKeepProject, References, CachedViewsOpen, Opening, Loading,
     Swept, Garbage, Loaded, Store, Answer, LeakContained
<1>10. CASE OpeningFails(t)
  BY <1>10, <1>a, <1>b, <1>c DEF ViewsKeepProject, References, CachedViewsOpen, Opening, Loading,
     Swept, Garbage, Loaded, Store, Answer, LoadRaises, LoadError, OpeningFails
<1>11. CASE ReconcileFails(t)
  BY <1>11, <1>a, <1>b, <1>c DEF ViewsKeepProject, References, CachedViewsOpen, Opening, Loading,
     Swept, Garbage, Loaded, Store, Answer, LoadRaises, LoadError, ReconcileFails
<1>12. CASE ReadSnapshot(t)
  BY <1>12, <1>a, <1>b, <1>c DEF ViewsKeepProject, References, CachedViewsOpen, Opening, Loading,
     Swept, Garbage, Loaded, Store, Answer, Ready, ReadSnapshot
<1>13. CASE WriteEndsEarly(t)
  BY <1>13, <1>a, <1>b, <1>c DEF ViewsKeepProject, References, CachedViewsOpen, Opening, Loading,
     Swept, Garbage, Loaded, Store, Answer, NeedsCommit, Writing, Ready, WriteEndsEarly
<1>14. CASE WriteBlocked(t)
  BY <1>14, <1>a, <1>b, <1>c DEF ViewsKeepProject, References, CachedViewsOpen, Opening, Loading,
     Swept, Garbage, Loaded, Store, Answer, NeedsCommit, Writing, Ready, WriteBlocked
<1>15. CASE CommitSucceeds(t)
  BY <1>15, <1>a, <1>b, <1>c DEF ViewsKeepProject, References, CachedViewsOpen, Opening, Loading,
     Swept, Garbage, Loaded, Store, Persist, Committing, NeedsCommit, Writing, Ready, Verdict,
     CommitSucceeds
<1>16. CASE CommitRefused(t)
  BY <1>16, <1>a, <1>b, <1>c DEF ViewsKeepProject, References, CachedViewsOpen, Opening, Loading,
     Swept, Garbage, Loaded, Store, Answer, Committing, NeedsCommit, Writing, Ready, Verdict,
     CommitRefused
<1>17. CASE DropView(t)
  BY <1>17, <1>a, <1>b, <1>c DEF ViewsKeepProject, References, CachedViewsOpen, Opening, Loading,
     Swept, Garbage, Loaded, Store, Answer, DropView
<1>18. ASSUME NEW fault \in Fault, CommitUncertain(t, fault)
       PROVE  ViewsKeepProject
  BY <1>18, <1>a, <1>b, <1>c DEF ViewsKeepProject, References, CachedViewsOpen, Opening, Loading,
     Swept, Garbage, Loaded, Store, Persist, Committing, NeedsCommit, Writing, Ready, Verdict,
     CommitUncertain
<1>19. QED
  BY <1>1, <1>2, <1>3, <1>4, <1>5, <1>6, <1>7, <1>8, <1>9, <1>10, <1>11, <1>12, <1>13, <1>14,
     <1>15, <1>16, <1>17, <1>18 DEF Step

LEMMA ProjectOther ==
  ASSUME IInv, IInv', RequestInv, [Next]_vars, \A t \in Thread : ~Step(t)
  PROVE  ViewsKeepProject
<1>a. /\ req \in [Thread -> Request] /\ req' \in [Thread -> Request]
      /\ \A u \in Thread : WellFormed(req[u])
  BY DEF IInv, TypeOK, RequestShape
<1>b. heap \in [StoreId -> Store] /\ RootStore \in StoreId /\ RootStore \notin Slot
        /\ Slot \subseteq StoreId
  BY StoreAssumption DEF StoreId, IInv, TypeOK
<1>c. /\ views \in Seq(Slot) /\ \A i \in DOMAIN views : views[i] \in Slot
      /\ References /\ CachedViewsOpen
  BY CachedIsSlot DEF IInv, TypeOK, Bindings
<1>1. ASSUME NEW t \in Thread, NEW r, r \in Request, Arrive(t, r), Arrives(r)
      PROVE  ViewsKeepProject
  BY <1>1, <1>a, <1>b, <1>c DEF ViewsKeepProject, References, CachedViewsOpen, Opening, Loading,
     Swept, Garbage, Loaded, Store, Arrive, Arrives
<1>2. ASSUME NEW t \in Thread, NEW p \in Project, CreateProject(t, p)
      PROVE  ViewsKeepProject
  BY <1>2, <1>a, <1>b, <1>c DEF ViewsKeepProject, References, CachedViewsOpen, Opening, Loading,
     Swept, Garbage, Loaded, Store, CreateProject
<1>3. ASSUME NEW t \in Thread, NEW p \in Project, SelectProject(t, p)
      PROVE  ViewsKeepProject
  BY <1>3, <1>a, <1>b, <1>c DEF ViewsKeepProject, References, CachedViewsOpen, Opening, Loading,
     Swept, Garbage, Loaded, Store, SelectProject
<1>4. ASSUME NEW t \in Thread, NEW p \in Project, NEW seen, RenameProject(t, p, seen)
      PROVE  ViewsKeepProject
  BY <1>4, <1>a, <1>b, <1>c DEF ViewsKeepProject, References, CachedViewsOpen, Opening, Loading,
     Swept, Garbage, Loaded, Store, ThenDropView, RenameProject
<1>5. ASSUME NEW t \in Thread, NEW p \in Project, NEW seen, DeleteProject(t, p, seen)
      PROVE  ViewsKeepProject
  BY <1>5, <1>a, <1>b, <1>c DEF ViewsKeepProject, References, CachedViewsOpen, Opening, Loading,
     Swept, Garbage, Loaded, Store, ThenDropView, DeleteProject
<1>6. ASSUME NEW t \in Thread, NEW op \in Offers, op.kind = "append", ArriveRootWrite(t, op)
      PROVE  ViewsKeepProject
  BY <1>6, <1>a, <1>b, <1>c DEF ViewsKeepProject, References, CachedViewsOpen, Opening, Loading,
     Swept, Garbage, Loaded, Store, Arrive, ArriveRootWrite
<1>7. ASSUME NEW t \in Thread, NEW sample \in Event, Open(t, sample)
      PROVE  ViewsKeepProject
  BY <1>7, <1>a, <1>b, <1>c DEF ViewsKeepProject, References, CachedViewsOpen, Opening, Loading,
     Swept, Garbage, Loaded, Store, Open
<1>8. CASE Crash
  BY <1>8, <1>a, <1>b, <1>c DEF ViewsKeepProject, References, CachedViewsOpen, Opening, Loading,
     Swept, Garbage, Loaded, Store, Crash
<1>9. CASE UNCHANGED vars
  BY <1>9, <1>a, <1>b, <1>c DEF ViewsKeepProject, References, CachedViewsOpen, Opening, Loading,
     Swept, Garbage, Loaded, Store, vars
<1>10. QED
  BY <1>1, <1>2, <1>3, <1>4, <1>5, <1>6, <1>7, <1>8, <1>9, OtherSteps

(* The seeding of the sample.                                              *)
LEMMA SeedStep ==
  ASSUME IInv, IInv', RequestInv, NEW t \in Thread, Step(t)
  PROVE  SeedsAlone'
<1>a. /\ req \in [Thread -> Request] /\ req' \in [Thread -> Request] /\ req[t] \in Request
      /\ \A u \in Thread : WellFormed(req[u])
  BY DEF IInv, TypeOK, RequestShape
<1>b. heap \in [StoreId -> Store] /\ RootStore \in StoreId /\ RootStore \notin Slot
        /\ Slot \subseteq StoreId
  BY StoreAssumption DEF StoreId, IInv, TypeOK
<1>c. /\ views \in Seq(Slot) /\ \A i \in DOMAIN views : views[i] \in Slot
      /\ References /\ CachedViewsOpen
  BY CachedIsSlot DEF IInv, TypeOK, Bindings
<1>1. CASE LookupHit(t)
  <2>1. \A u \in Thread \ {t} : req'[u] = req[u]
    BY <1>1, <1>a DEF LookupHit
  <2>2. /\ req'[t].kind = req[t].kind /\ req'[t].op = req[t].op
        /\ req'[t].project = req[t].project /\ req'[t].pc # "done" /\ req[t].pc # "done"
    BY <1>1, <1>a DEF LookupHit, Request
  <2>3. req[t].store = RootStore <=> req'[t].store = RootStore
    BY <1>1, <1>a, <1>b, <1>c DEF LookupHit, Request, References, Opening, Loading, CachedAt,
       Fresh, WellFormed
  <2>4. Opened => Opened' /\ heap'[RootStore] = heap[RootStore]
    BY <1>1, <1>b, <1>c DEF LookupHit, Swept, Opened, References, Opening, Loading
  <2>5. Seeding(t) /\ req'[t].pc = "use" => req[t].pc = "use"
    BY StoreAssumption, <1>1, <1>a, <1>c DEF LookupHit, Request, Seeding, References, Opening,
       Loading, RequestInv, SeedsAlone, WellFormed
  <2>6. QED BY <2>1, <2>2, <2>3, <2>4, <2>5 DEF RequestInv, SeedsAlone, Seeding
<1>2. CASE LookupMiss(t)
  BY <1>2, <1>a, <1>b, <1>c, StoreAssumption DEF RequestInv, ClosedIsIdle, SeedsAlone, Opened,
     Seeding, NeedsSeed, Loading, WellFormed, Request, Idle, Swept, Garbage, Loaded, Store,
     LookupMiss
<1>3. CASE Invalidate(t)
  BY <1>3, <1>a, <1>b, <1>c, StoreAssumption DEF RequestInv, ClosedIsIdle, SeedsAlone, Opened,
     Seeding, NeedsSeed, Loading, WellFormed, Request, Idle, Swept, Garbage, Loaded, Store,
     Invalidate
<1>4. CASE LoadRevision(t)
  BY <1>4, <1>a, <1>b, <1>c, StoreAssumption DEF RequestInv, ClosedIsIdle, SeedsAlone, Opened,
     Seeding, NeedsSeed, Loading, WellFormed, Request, Idle, Swept, Garbage, Loaded, Store,
     LoadRevision
<1>5. CASE LoadEvents(t)
  BY <1>5, <1>a, <1>b, <1>c, StoreAssumption DEF RequestInv, ClosedIsIdle, SeedsAlone, Opened,
     Seeding, NeedsSeed, Loading, WellFormed, Request, Idle, Swept, Garbage, Loaded, Store,
     LoadEvents
<1>6. CASE ViewLoaded(t)
  <2>1. \A u \in Thread \ {t} : req'[u] = req[u]
    BY <1>6, <1>a DEF ViewLoaded
  <2>2. /\ req'[t].kind = req[t].kind /\ req'[t].op = req[t].op
        /\ req'[t].project = req[t].project /\ req'[t].pc # "done" /\ req[t].pc # "done"
    BY <1>6, <1>a DEF ViewLoaded, Request
  <2>3. req[t].store = RootStore <=> req'[t].store = RootStore
    BY <1>6, <1>a, <1>b, <1>c DEF ViewLoaded, Request, References, Opening, Loading, CachedAt,
       Fresh, WellFormed
  <2>4. Opened => Opened' /\ heap'[RootStore] = heap[RootStore]
    BY <1>6, <1>b, <1>c DEF ViewLoaded, Swept, Opened, References, Opening, Loading
  <2>5. Seeding(t) /\ req'[t].pc = "use" => req[t].pc = "use"
    BY <1>6, <1>a, <1>c DEF ViewLoaded, Request, Seeding, References, Opening, Loading,
       RequestInv, SeedsAlone, WellFormed
  <2>6. QED BY <2>1, <2>2, <2>3, <2>4, <2>5 DEF RequestInv, SeedsAlone, Seeding
<1>7. CASE BoundLoaded(t)
  <2>1. \A u \in Thread \ {t} : req'[u] = req[u]
    BY <1>7, <1>a DEF BoundLoaded
  <2>2. /\ req'[t].kind = req[t].kind /\ req'[t].op = req[t].op
        /\ req'[t].project = req[t].project /\ req'[t].pc # "done" /\ req[t].pc # "done"
    BY <1>7, <1>a DEF BoundLoaded, Request
  <2>3. req[t].store = RootStore <=> req'[t].store = RootStore
    BY <1>7, <1>a, <1>b, <1>c DEF BoundLoaded, Request, References, Opening, Loading, CachedAt,
       Fresh, WellFormed
  <2>4. Opened => Opened' /\ heap'[RootStore] = heap[RootStore]
    BY <1>7, <1>b, <1>c DEF BoundLoaded, Swept, Opened, References, Opening, Loading
  <2>5. Seeding(t) /\ req'[t].pc = "use" => req[t].pc = "use"
    BY <1>7, <1>a, <1>c DEF BoundLoaded, Request, Seeding, References, Opening, Loading,
       RequestInv, SeedsAlone, WellFormed
  <2>6. QED BY <2>1, <2>2, <2>3, <2>4, <2>5 DEF RequestInv, SeedsAlone, Seeding
<1>8. CASE Reconciled(t)
  <2>1. req'[t] = Idle /\ \A u \in Thread \ {t} : req'[u] = req[u]
    BY <1>8, <1>a DEF Reconciled, Answer
  <2>2. Opened => Opened'
    BY <1>8, <1>b DEF Reconciled, Answer, Swept, Opened, Store
  <2>3. req[t].store # RootStore => heap'[RootStore] = heap[RootStore]
    BY <1>8, <1>b DEF Reconciled, Answer, Swept
  <2>4. QED BY <2>1, <2>2, <2>3, SeedEnds
<1>9. CASE LeakContained(t)
  <2>1. req'[t] = Idle /\ \A u \in Thread \ {t} : req'[u] = req[u]
    BY <1>9, <1>a DEF LeakContained, Answer
  <2>2. Opened => Opened'
    BY <1>9, <1>b DEF LeakContained, Answer, Swept, Opened, Store
  <2>3. req[t].store # RootStore => heap'[RootStore] = heap[RootStore]
    BY <1>9, <1>b DEF LeakContained, Answer, Swept
  <2>4. QED BY <2>1, <2>2, <2>3, SeedEnds
<1>10. CASE OpeningFails(t)
  <2>1. req'[t] = Idle /\ \A u \in Thread \ {t} : req'[u] = req[u]
    BY <1>10, <1>a DEF OpeningFails, Answer
  <2>2. Opened => Opened'
    BY <1>10, <1>b DEF OpeningFails, Answer, Swept, Opened, Store
  <2>3. req[t].store # RootStore => heap'[RootStore] = heap[RootStore]
    BY <1>10, <1>b DEF OpeningFails, Answer, Swept
  <2>4. QED BY <2>1, <2>2, <2>3, SeedEnds
<1>11. CASE ReconcileFails(t)
  <2>1. req'[t] = Idle /\ \A u \in Thread \ {t} : req'[u] = req[u]
    BY <1>11, <1>a DEF ReconcileFails, Answer
  <2>2. Opened => Opened'
    BY <1>11, <1>b DEF ReconcileFails, Answer, Swept, Opened, Store
  <2>3. req[t].store # RootStore => heap'[RootStore] = heap[RootStore]
    BY <1>11, <1>b DEF ReconcileFails, Answer, Swept
  <2>4. QED BY <2>1, <2>2, <2>3, SeedEnds
<1>12. CASE ReadSnapshot(t)
  <2>1. req'[t] = Idle /\ \A u \in Thread \ {t} : req'[u] = req[u]
    BY <1>12, <1>a DEF ReadSnapshot, Answer
  <2>2. Opened => Opened'
    BY <1>12, <1>b DEF ReadSnapshot, Answer, Swept, Opened, Store
  <2>3. req[t].store # RootStore => heap'[RootStore] = heap[RootStore]
    BY <1>12, <1>b DEF ReadSnapshot, Answer, Swept
  <2>4. QED BY <2>1, <2>2, <2>3, SeedEnds
<1>13. CASE WriteEndsEarly(t)
  <2>1. req'[t] = Idle /\ \A u \in Thread \ {t} : req'[u] = req[u]
    BY <1>13, <1>a DEF WriteEndsEarly, Answer
  <2>2. Opened => Opened'
    BY <1>13, <1>b DEF WriteEndsEarly, Answer, Swept, Opened, Store
  <2>3. req[t].store # RootStore => heap'[RootStore] = heap[RootStore]
    BY <1>13, <1>b DEF WriteEndsEarly, Answer, Swept
  <2>4. QED BY <2>1, <2>2, <2>3, SeedEnds
<1>14. CASE WriteBlocked(t)
  <2>1. req'[t] = Idle /\ \A u \in Thread \ {t} : req'[u] = req[u]
    BY <1>14, <1>a DEF WriteBlocked, Answer
  <2>2. Opened => Opened'
    BY <1>14, <1>b DEF WriteBlocked, Answer, Swept, Opened, Store
  <2>3. req[t].store # RootStore => heap'[RootStore] = heap[RootStore]
    BY <1>14, <1>b DEF WriteBlocked, Answer, Swept
  <2>4. QED BY <2>1, <2>2, <2>3, SeedEnds
<1>15. CASE CommitSucceeds(t)
  <2>1. req'[t] = Idle /\ \A u \in Thread \ {t} : req'[u] = req[u]
    BY <1>15, <1>a DEF CommitSucceeds, Answer
  <2>2. Opened => Opened'
    BY <1>15, <1>b DEF CommitSucceeds, Answer, Swept, Opened, Store
  <2>3. req[t].store # RootStore => heap'[RootStore] = heap[RootStore]
    BY <1>15, <1>b DEF CommitSucceeds, Answer, Swept
  <2>4. QED BY <2>1, <2>2, <2>3, SeedEnds
<1>16. CASE CommitRefused(t)
  <2>1. req'[t] = Idle /\ \A u \in Thread \ {t} : req'[u] = req[u]
    BY <1>16, <1>a DEF CommitRefused, Answer
  <2>2. Opened => Opened'
    BY <1>16, <1>b DEF CommitRefused, Answer, Swept, Opened, Store
  <2>3. req[t].store # RootStore => heap'[RootStore] = heap[RootStore]
    BY <1>16, <1>b DEF CommitRefused, Answer, Swept
  <2>4. QED BY <2>1, <2>2, <2>3, SeedEnds
<1>17. CASE DropView(t)
  <2>1. req'[t] = Idle /\ \A u \in Thread \ {t} : req'[u] = req[u]
    BY <1>17, <1>a DEF DropView, Answer
  <2>2. Opened => Opened'
    BY <1>17, <1>b DEF DropView, Answer, Swept, Opened, Store
  <2>3. req[t].store # RootStore => heap'[RootStore] = heap[RootStore]
    BY <1>17, <1>b DEF DropView, Answer, Swept
  <2>4. QED BY <2>1, <2>2, <2>3, SeedEnds
<1>18. ASSUME NEW fault \in Fault, CommitUncertain(t, fault)
       PROVE  SeedsAlone'
  BY <1>18, <1>a, <1>b, <1>c, StoreAssumption DEF RequestInv, ClosedIsIdle, SeedsAlone, Opened,
     Seeding, NeedsSeed, Loading, WellFormed, Request, Idle, Swept, Garbage, Loaded, Store, Persist,
     Committing, NeedsCommit, Writing, Ready, Verdict, CommitUncertain
<1>19. QED
  BY <1>1, <1>2, <1>3, <1>4, <1>5, <1>6, <1>7, <1>8, <1>9, <1>10, <1>11, <1>12, <1>13, <1>14,
     <1>15, <1>16, <1>17, <1>18 DEF Step

LEMMA SeedOther ==
  ASSUME IInv, IInv', RequestInv, [Next]_vars, \A t \in Thread : ~Step(t)
  PROVE  SeedsAlone'
<1>a. /\ req \in [Thread -> Request] /\ req' \in [Thread -> Request]
      /\ \A u \in Thread : WellFormed(req[u])
  BY DEF IInv, TypeOK, RequestShape
<1>b. heap \in [StoreId -> Store] /\ RootStore \in StoreId /\ RootStore \notin Slot
        /\ Slot \subseteq StoreId
  BY StoreAssumption DEF StoreId, IInv, TypeOK
<1>c. /\ views \in Seq(Slot) /\ \A i \in DOMAIN views : views[i] \in Slot
      /\ References /\ CachedViewsOpen
  BY CachedIsSlot DEF IInv, TypeOK, Bindings
<1>1. ASSUME NEW t \in Thread, NEW r, r \in Request, Arrive(t, r), Arrives(r)
      PROVE  SeedsAlone'
  BY <1>1, <1>a, <1>b, <1>c, StoreAssumption DEF RequestInv, ClosedIsIdle, SeedsAlone, Opened,
     Seeding, NeedsSeed, Loading, WellFormed, Request, Idle, Swept, Garbage, Loaded, Store, Arrive,
     Arrives
<1>2. ASSUME NEW t \in Thread, NEW p \in Project, CreateProject(t, p)
      PROVE  SeedsAlone'
  BY <1>2, <1>a, <1>b, <1>c, StoreAssumption DEF RequestInv, ClosedIsIdle, SeedsAlone, Opened,
     Seeding, NeedsSeed, Loading, WellFormed, Request, Idle, Swept, Garbage, Loaded, Store,
     CreateProject
<1>3. ASSUME NEW t \in Thread, NEW p \in Project, SelectProject(t, p)
      PROVE  SeedsAlone'
  BY <1>3, <1>a, <1>b, <1>c, StoreAssumption DEF RequestInv, ClosedIsIdle, SeedsAlone, Opened,
     Seeding, NeedsSeed, Loading, WellFormed, Request, Idle, Swept, Garbage, Loaded, Store,
     SelectProject
<1>4. ASSUME NEW t \in Thread, NEW p \in Project, NEW seen, RenameProject(t, p, seen)
      PROVE  SeedsAlone'
  BY <1>4, <1>a, <1>b, <1>c, StoreAssumption DEF RequestInv, ClosedIsIdle, SeedsAlone, Opened,
     Seeding, NeedsSeed, Loading, WellFormed, Request, Idle, Swept, Garbage, Loaded, Store,
     ThenDropView, RenameProject
<1>5. ASSUME NEW t \in Thread, NEW p \in Project, NEW seen, DeleteProject(t, p, seen)
      PROVE  SeedsAlone'
  BY <1>5, <1>a, <1>b, <1>c, StoreAssumption DEF RequestInv, ClosedIsIdle, SeedsAlone, Opened,
     Seeding, NeedsSeed, Loading, WellFormed, Request, Idle, Swept, Garbage, Loaded, Store,
     ThenDropView, DeleteProject
<1>6. ASSUME NEW t \in Thread, NEW op \in Offers, op.kind = "append", ArriveRootWrite(t, op)
      PROVE  SeedsAlone'
  BY <1>6, <1>a, <1>b, <1>c, StoreAssumption DEF RequestInv, ClosedIsIdle, SeedsAlone, Opened,
     Seeding, NeedsSeed, Loading, WellFormed, Request, Idle, Swept, Garbage, Loaded, Store, Arrive,
     ArriveRootWrite
<1>7. ASSUME NEW t \in Thread, NEW sample \in Event, Open(t, sample)
      PROVE  SeedsAlone'
  <2>1. \A u \in Thread : req[u].pc = "done" /\ req[u].kind = "none" /\ req[u].store # RootStore
    BY <1>7, <1>a, StoreAssumption DEF Open, RequestInv, ClosedIsIdle, SeedsAlone, WellFormed
  <2>2. heap'[RootStore] = Loaded(Legacy, durable[Legacy])
    BY <1>7, <1>b DEF Open
  <2>3. CASE UNCHANGED req
    BY <2>1, <2>3 DEF SeedsAlone, Seeding
  <2>4. CASE ~UNCHANGED req
    <3>1. NeedsSeed(durable[Legacy]) /\ \A u \in Thread \ {t} : req'[u] = req[u]
      BY <1>7, <1>a, <2>4 DEF Open
    <3>2. /\ req'[t].pc = "use" /\ req'[t].kind = "root_write" /\ req'[t].project = Legacy
          /\ req'[t].store = RootStore
      BY <1>7, <1>a, <2>4 DEF Open, Idle
    <3>3. Opened' /\ heap'[RootStore].rows = durable[Legacy]
      BY <2>2 DEF Loaded, Opened
    <3>4. QED BY <2>1, <3>1, <3>2, <3>3 DEF SeedsAlone, Seeding
  <2>5. QED BY <2>3, <2>4
<1>8. CASE Crash
  BY <1>8, <1>a, <1>b, <1>c, StoreAssumption DEF RequestInv, ClosedIsIdle, SeedsAlone, Opened,
     Seeding, NeedsSeed, Loading, WellFormed, Request, Idle, Swept, Garbage, Loaded, Store, Crash
<1>9. CASE UNCHANGED vars
  BY <1>9, <1>a, <1>b, <1>c, StoreAssumption DEF RequestInv, ClosedIsIdle, SeedsAlone, Opened,
     Seeding, NeedsSeed, Loading, WellFormed, Request, Idle, Swept, Garbage, Loaded, Store, vars
<1>10. QED
  BY <1>1, <1>2, <1>3, <1>4, <1>5, <1>6, <1>7, <1>8, <1>9, OtherSteps

-----------------------------------------------------------------------------
(* The cache of views.                                                     *)

LEMMA WithoutDistinct ==
  ASSUME views \in Seq(Slot), OneViewPerProject, NEW i \in DOMAIN views
  PROVE  /\ Distinct(Without(i), heap)
         /\ \A j \in DOMAIN Without(i) : heap[Without(i)[j]].project # heap[views[i]].project
<1>1. Len(views) \in Nat /\ DOMAIN views = 1 .. Len(views)
  BY LenProperties
<1>2. DOMAIN Without(i) = 1 .. Len(views) - 1
  BY DEF Without
<1>3. \A j \in 1 .. Len(views) - 1 : Without(i)[j] = IF j < i THEN views[j] ELSE views[j + 1]
  BY DEF Without
<1>4. \A j \in 1 .. Len(views) - 1 : \E k \in DOMAIN views \ {i} :
         Without(i)[j] = views[k] /\ k = IF j < i THEN j ELSE j + 1
  BY <1>1, <1>3
<1>5. ASSUME NEW j \in DOMAIN Without(i), NEW k \in DOMAIN Without(i),
             heap[Without(i)[j]].project = heap[Without(i)[k]].project
      PROVE  j = k
  <2>1. PICK x \in DOMAIN views : Without(i)[j] = views[x] /\ x = IF j < i THEN j ELSE j + 1
    BY <1>2, <1>4
  <2>2. PICK y \in DOMAIN views : Without(i)[k] = views[y] /\ y = IF k < i THEN k ELSE k + 1
    BY <1>2, <1>4
  <2>3. x = y
    BY <1>5, <2>1, <2>2 DEF OneViewPerProject
  <2>4. QED BY <1>1, <1>2, <2>1, <2>2, <2>3
<1>6. \A j \in DOMAIN Without(i) : heap[Without(i)[j]].project # heap[views[i]].project
  BY <1>2, <1>4 DEF OneViewPerProject
<1>7. QED BY <1>5, <1>6 DEF Distinct

LEMMA DroppedDistinct ==
  ASSUME views \in Seq(Slot), OneViewPerProject, NEW p
  PROVE  /\ Distinct(Dropped(p), heap)
         /\ \A j \in DOMAIN Dropped(p) : heap[Dropped(p)[j]].project # p
<1>1. CASE CachedAt(p) = {}
  BY <1>1 DEF Dropped, CachedAt, OneViewPerProject, Distinct
<1>2. CASE CachedAt(p) # {}
  <2>1. PICK i \in CachedAt(p) : Dropped(p) = Without(i)
    BY <1>2 DEF Dropped
  <2>2. i \in DOMAIN views /\ heap[views[i]].project = p
    BY DEF CachedAt
  <2>3. QED BY <2>1, <2>2, WithoutDistinct
<1>3. QED BY <1>1, <1>2

LEMMA AppendDistinct ==
  ASSUME NEW v \in Seq(Slot), NEW s \in Slot, NEW h, Distinct(v, h),
         \A j \in DOMAIN v : h[v[j]].project # h[s].project
  PROVE  Distinct(Append(v, s), h)
<1>1. /\ DOMAIN v = 1 .. Len(v) /\ DOMAIN Append(v, s) = 1 .. Len(v) + 1 /\ Len(v) \in Nat
      /\ \A i \in 1 .. Len(v) : Append(v, s)[i] = v[i]
      /\ Append(v, s)[Len(v) + 1] = s
  BY AppendProperties, LenProperties
<1>2. QED BY <1>1 DEF Distinct

LEMMA TailDistinct ==
  ASSUME NEW v \in Seq(Slot), v # << >>, NEW h, Distinct(v, h)
  PROVE  Distinct(Tail(v), h)
<1>1. /\ Tail(v) \in Seq(Slot) /\ Len(Tail(v)) = Len(v) - 1 /\ Len(v) \in Nat
      /\ \A i \in 1 .. Len(v) - 1 : Tail(v)[i] = v[i + 1]
  BY HeadTailProperties, LenProperties
<1>2. DOMAIN v = 1 .. Len(v) /\ DOMAIN Tail(v) = 1 .. Len(v) - 1
  BY <1>1, LenProperties
<1>3. QED BY <1>1, <1>2 DEF Distinct

(* What a step of a request that has arrived may touch.                    *)
LEMMA StepFrame ==
  ASSUME IInv, NEW t \in Thread, Step(t)
  PROVE  /\ UNCHANGED <<status>>
         /\ \A u \in Thread \ {t} : req'[u] = req[u]
         /\ \/ UNCHANGED views /\ req[t].pc # "drop_view"
            \/ LookupHit(t) \/ Invalidate(t) \/ ViewLoaded(t) \/ DropView(t)
<1>1. req \in [Thread -> Request] /\ WellFormed(req[t])
  BY DEF IInv, TypeOK, RequestShape
<1>2. CASE LookupHit(t) \/ Invalidate(t) \/ ViewLoaded(t) \/ DropView(t)
  BY <1>1, <1>2 DEF LookupHit, Invalidate, ViewLoaded, DropView, Answer
<1>3. CASE LookupMiss(t) \/ LoadRevision(t) \/ LoadEvents(t) \/ BoundLoaded(t)
  BY <1>1, <1>3 DEF LookupMiss, LoadRevision, LoadEvents, BoundLoaded
<1>4. CASE Reconciled(t) \/ LeakContained(t) \/ OpeningFails(t) \/ ReconcileFails(t)
  BY <1>1, <1>4 DEF Reconciled, LeakContained, OpeningFails, ReconcileFails, Answer, WellFormed
<1>5. CASE \/ ReadSnapshot(t) \/ WriteEndsEarly(t) \/ WriteBlocked(t) \/ CommitSucceeds(t)
           \/ CommitRefused(t) \/ \E fault \in Fault : CommitUncertain(t, fault)
  BY <1>1, <1>5 DEF ReadSnapshot, WriteEndsEarly, WriteBlocked, CommitSucceeds, CommitRefused,
     CommitUncertain, Answer, Committing, NeedsCommit, Writing, Ready
<1>6. QED BY <1>2, <1>3, <1>4, <1>5 DEF Step

LEMMA BuildStep ==
  ASSUME IInv, NEW t \in Thread, Step(t)
  PROVE  \A u \in Thread : BuildsOn(u)
<1>1. \A u \in Thread \ {t} : req'[u] = req[u]
  BY StepFrame
<1>2. \A u \in Thread \ {t} : BuildsOn(u)
  BY <1>1 DEF BuildsOn, Building, Loading
<1>3. req \in [Thread -> Request] /\ req[t] \in Request /\ WellFormed(req[t])
  BY DEF IInv, TypeOK, RequestShape
<1>4. BuildsOn(t)
  <2>1. CASE LookupMiss(t)
    BY <1>3, <2>1 DEF LookupMiss, BuildsOn, Building, Loading, Request
  <2>2. CASE LoadRevision(t)
    BY <1>3, <2>2 DEF LoadRevision, BuildsOn, Building, Loading, Request
  <2>3. CASE LoadEvents(t)
    BY <1>3, <2>3 DEF LoadEvents, BuildsOn, Building, Loading, Request
  <2>4. CASE Invalidate(t) \/ LookupHit(t) \/ ViewLoaded(t) \/ BoundLoaded(t)
    <3>1. req'[t].pc = "use" \/ req'[t].why = "bound"
      <4>1. LookupHit(t) \/ ViewLoaded(t) \/ BoundLoaded(t) => req'[t].pc = "use"
        BY <1>3 DEF LookupHit, ViewLoaded, BoundLoaded, Request
      <4>2. Invalidate(t) => req'[t].why = "bound"
        BY <1>3 DEF Invalidate, Request
      <4>3. QED BY <2>4, <4>1, <4>2
    <3>2. QED BY <3>1 DEF BuildsOn, Building, Loading
  <2>5. CASE \/ Reconciled(t) \/ LeakContained(t) \/ OpeningFails(t) \/ ReconcileFails(t)
             \/ ReadSnapshot(t) \/ WriteEndsEarly(t) \/ WriteBlocked(t) \/ CommitSucceeds(t)
             \/ CommitRefused(t) \/ DropView(t)
    <3>1. req'[t] = Idle
      BY <1>3, <2>5 DEF Reconciled, LeakContained, OpeningFails, ReconcileFails, ReadSnapshot,
         WriteEndsEarly, WriteBlocked, CommitSucceeds, CommitRefused, DropView, Answer
    <3>2. QED BY <3>1 DEF BuildsOn, Building, Loading, Idle
  <2>6. CASE \E fault \in Fault : CommitUncertain(t, fault)
    <3>1. req'[t].why \in {"reconcile", "leaked"}
      BY <1>3, <2>6 DEF CommitUncertain, Request
    <3>2. QED BY <3>1 DEF BuildsOn, Building
  <2>7. QED BY <2>1, <2>2, <2>3, <2>4, <2>5, <2>6 DEF Step
<1>5. QED BY <1>2, <1>4

LEMMA BuildOther ==
  ASSUME IInv, IInv', [Next]_vars, \A t \in Thread : ~Step(t), ClosedIsIdle
  PROVE  /\ \A u \in Thread : BuildsOn(u) /\ (req[u].pc = "drop_view" => req'[u] = req[u] \/ Crash)
         /\ UNCHANGED views \/ Crash
<1>1. req \in [Thread -> Request] /\ \A u \in Thread : WellFormed(req[u])
  BY DEF IInv, TypeOK, RequestShape
<1>2. ASSUME NEW t \in Thread, NEW r, req[t].pc = "done", r.why = "none",
             req' = [req EXCEPT ![t] = r], UNCHANGED views
      PROVE  /\ \A u \in Thread : BuildsOn(u) /\ (req[u].pc = "drop_view" => req'[u] = req[u])
             /\ UNCHANGED views
  BY <1>1, <1>2 DEF BuildsOn, Building, Loading
<1>3. ASSUME UNCHANGED <<req, views>>
      PROVE  /\ \A u \in Thread : BuildsOn(u) /\ (req[u].pc = "drop_view" => req'[u] = req[u])
             /\ UNCHANGED views
  BY <1>3 DEF BuildsOn, Building, Loading
<1>4. ASSUME NEW t \in Thread, NEW r, Arrive(t, r), Arrives(r)
      PROVE  /\ \A u \in Thread : BuildsOn(u) /\ (req[u].pc = "drop_view" => req'[u] = req[u])
             /\ UNCHANGED views
  BY <1>2, <1>4 DEF Arrive, Arrives
<1>5. ASSUME NEW t \in Thread, NEW p, CreateProject(t, p) \/ SelectProject(t, p)
      PROVE  UNCHANGED <<req, views>>
  BY <1>5 DEF CreateProject, SelectProject
<1>6. ASSUME NEW t \in Thread, NEW p, NEW seen, RenameProject(t, p, seen) \/
               DeleteProject(t, p, seen)
      PROVE  /\ \A u \in Thread : BuildsOn(u) /\ (req[u].pc = "drop_view" => req'[u] = req[u])
             /\ UNCHANGED views
  <2>1. PICK kind : ThenDropView(t, kind, p) /\ UNCHANGED views /\ req[t].pc = "done"
    BY <1>6 DEF RenameProject, DeleteProject
  <2>2. [Idle EXCEPT !.pc = "drop_view", !.kind = kind, !.project = p, !.wrote = TRUE].why = "none"
    BY DEF Idle
  <2>3. QED BY <1>2, <2>1, <2>2 DEF ThenDropView
<1>7. ASSUME NEW t \in Thread, NEW op, ArriveRootWrite(t, op)
      PROVE  /\ \A u \in Thread : BuildsOn(u) /\ (req[u].pc = "drop_view" => req'[u] = req[u])
             /\ UNCHANGED views
  <2>1. [Idle EXCEPT !.pc = "use", !.kind = "root_write", !.op = op,
          !.store = RootStore].why = "none"
    BY DEF Idle
  <2>2. QED BY <1>2, <1>7, <2>1 DEF ArriveRootWrite, Arrive
<1>8. ASSUME NEW t \in Thread, NEW sample \in Event, Open(t, sample)
      PROVE  /\ \A u \in Thread : BuildsOn(u) /\ (req[u].pc = "drop_view" => req'[u] = req[u])
             /\ UNCHANGED views
  <2> DEFINE r == [Idle EXCEPT !.pc = "use", !.kind = "root_write", !.store = RootStore,
                               !.op = [kind |-> "replace", event |-> sample]]
  <2>1. r.why = "none"
    BY DEF Idle
  <2>2. req[t].pc = "done"
    BY <1>8 DEF Open, ClosedIsIdle
  <2>3. UNCHANGED views /\ (UNCHANGED req \/ req' = [req EXCEPT ![t] = r])
    BY <1>8 DEF Open
  <2> HIDE DEF r
  <2>4. QED BY <1>2, <1>3, <2>1, <2>2, <2>3
<1>9. CASE Crash
  BY <1>1, <1>9 DEF Crash, BuildsOn, Building, Loading, Idle
<1>10. CASE UNCHANGED vars
  BY <1>3, <1>10 DEF vars
<1>11. QED BY <1>3, <1>4, <1>5, <1>6, <1>7, <1>8, <1>9, <1>10, OtherSteps

(* Where the views of the next state come from.                            *)
LEMMA ViewsStep ==
  ASSUME IInv, RequestInv, NEW t \in Thread, Step(t)
  PROVE  \A j \in DOMAIN views' :
            \/ \E i \in DOMAIN views : views'[j] = views[i]
            \/ ViewLoaded(t) /\ views'[j] = req[t].store
<1>1. views \in Seq(Slot)
  BY DEF IInv, TypeOK
<1>2. CASE LookupHit(t)
  <2>1. PICK i \in DOMAIN views : views' = Append(Without(i), views[i])
    BY <1>2 DEF LookupHit, CachedAt
  <2>2. Without(i) \in Seq(Slot) /\ views[i] \in Slot
    BY <1>1, WithoutType, CachedIsSlot
  <2>3. \A j \in DOMAIN views' : (\E k \in DOMAIN Without(i) : views'[j] = Without(i)[k])
          \/ views'[j] = views[i]
    BY <2>1, <2>2, AppendProperties, LenProperties
  <2>4. QED BY <1>1, <2>3, WithoutType
<1>3. CASE Invalidate(t) \/ DropView(t)
  <2>1. views' = Dropped(req[t].project)
    BY <1>3 DEF Invalidate, DropView
  <2>2. QED BY <1>1, <2>1, DroppedRange
<1>4. CASE ViewLoaded(t)
  <2> DEFINE s == req[t].store
             grown == Append(views, s)
  <2>1. s \in Slot
    BY <1>4 DEF ViewLoaded, IInv, Bindings, References, Opening, Loading
  <2>2. /\ grown \in Seq(Slot) /\ Len(grown) = Len(views) + 1 /\ Len(views) \in Nat
        /\ \A j \in 1 .. Len(views) : grown[j] = views[j]
        /\ grown[Len(views) + 1] = s
    BY <1>1, <2>1, AppendProperties, LenProperties
  <2>3. \A j \in DOMAIN grown : grown[j] = s \/ \E i \in DOMAIN views : grown[j] = views[i]
    BY <1>1, <2>2, LenProperties
  <2>4. \A j \in DOMAIN Tail(grown) : j + 1 \in DOMAIN grown /\ Tail(grown)[j] = grown[j + 1]
    <3> HIDE DEF grown
    <3>1. grown # << >>
      BY <2>2, LenProperties
    <3>2. QED BY <2>2, <3>1, HeadTailProperties, LenProperties
  <2>5. views' \in {grown, Tail(grown)}
    BY <1>4 DEF ViewLoaded
  <2> HIDE DEF grown
  <2>6. QED BY <1>4, <2>3, <2>4, <2>5
<1>5. CASE UNCHANGED views
  BY <1>5
<1>6. QED BY <1>2, <1>3, <1>4, <1>5, StepFrame

(* At most one view of a project is cached or built.                       *)
LEMMA ViewsOnceStep ==
  ASSUME IInv, IInv', RequestInv, ViewLockHeld', NEW t \in Thread, Step(t)
  PROVE  OneViewPerProject' /\ NotCachedYet'
<1>1. views \in Seq(Slot) /\ OneViewPerProject /\ \A i \in DOMAIN views : views[i] \in Slot
  BY CachedIsSlot DEF IInv, TypeOK, RequestInv
<1>2. ViewsKeepProject
  BY ProjectStep
<1>3. ASSUME Distinct(views', heap),
             \A j \in DOMAIN views' : \E i \in DOMAIN views : views'[j] = views[i]
      PROVE  OneViewPerProject'
  BY <1>2, <1>3 DEF Distinct, OneViewPerProject, ViewsKeepProject
<1>4. ASSUME viewLock' = None
      PROVE  NotCachedYet'
  BY <1>4, StoreAssumption DEF ViewLockHeld, NotCachedYet
<1>5. CASE UNCHANGED views
  <2>1. OneViewPerProject'
    BY <1>1, <1>2, <1>5 DEF OneViewPerProject, ViewsKeepProject
  <2>2. ASSUME NEW u \in Thread, Building(u)'
        PROVE  CachedAt(req[u].project)' = {}
    <3>1. req'[u].project = req[u].project /\ CachedAt(req[u].project) = {}
      BY <2>2, BuildStep DEF BuildsOn, RequestInv, NotCachedYet
    <3>2. QED BY <1>2, <1>5, <3>1 DEF CachedAt, ViewsKeepProject
  <2>3. QED BY <2>1, <2>2 DEF NotCachedYet
<1>6. CASE LookupHit(t)
  <2>1. PICK i \in DOMAIN views : views' = Append(Without(i), views[i])
    BY <1>6 DEF LookupHit, CachedAt
  <2>2. Distinct(views', heap)
    BY <1>1, <2>1, WithoutDistinct, WithoutType, AppendDistinct
  <2>3. \A j \in DOMAIN views' : \E k \in DOMAIN views : views'[j] = views[k]
    BY <1>6, ViewsStep DEF LookupHit, ViewLoaded
  <2>4. viewLock' = None
    BY <1>6 DEF LookupHit
  <2>5. QED BY <1>3, <1>4, <2>2, <2>3, <2>4
<1>7. CASE Invalidate(t) \/ DropView(t)
  <2>1. views' = Dropped(req[t].project) /\ viewLock' = None
    BY <1>7 DEF Invalidate, DropView
  <2>2. Distinct(views', heap)
    BY <1>1, <2>1, DroppedDistinct
  <2>3. \A j \in DOMAIN views' : \E k \in DOMAIN views : views'[j] = views[k]
    BY <1>1, <2>1, DroppedRange
  <2>4. QED BY <1>3, <1>4, <2>1, <2>2, <2>3
<1>8. CASE ViewLoaded(t)
  <2> DEFINE s == req[t].store
             h == [heap EXCEPT ![s] = Loaded(req[t].project, Rest(t))]
             grown == Append(views, s)
  <2>1. /\ s \in Slot /\ heap \in [StoreId -> Store] /\ s \in StoreId
             /\ \A i \in DOMAIN views : views[i] # s
        /\ \A i \in DOMAIN views : heap[views[i]].project # req[t].project
    BY <1>8 DEF ViewLoaded, IInv, TypeOK, Bindings, References, CachedViewsOpen, Opening,
       Loading, StoreId, RequestInv, NotCachedYet, Building, CachedAt
  <2>2. h[s].project = req[t].project /\ \A i \in DOMAIN views : h[views[i]] = heap[views[i]]
    BY <1>1, <2>1 DEF Loaded
  <2>3. Distinct(views, h)
    BY <1>1, <2>2 DEF OneViewPerProject, Distinct
  <2>4. heap' = Swept(h, views', req') /\ views' \in {grown, Tail(grown)} /\ viewLock' = None
    BY <1>8 DEF ViewLoaded
  <2>5. grown \in Seq(Slot) /\ grown # << >>
    BY <1>1, <2>1, AppendProperties, LenProperties
  <2> HIDE DEF h
  <2>6. Distinct(grown, h)
    BY <1>1, <2>1, <2>2, <2>3, AppendDistinct
  <2> HIDE DEF grown
  <2>7. Distinct(views', h)
    BY <2>4, <2>5, <2>6, TailDistinct
  <2>8. \A j \in DOMAIN views' : views'[j] \in StoreId
    BY ElementOfSeq, LenProperties DEF IInv, TypeOK, StoreId
  <2>9. \A j \in DOMAIN views' : heap'[views'[j]] = h[views'[j]]
    BY <2>4, <2>8 DEF Swept
  <2>10. OneViewPerProject'
    BY <2>7, <2>9 DEF Distinct, OneViewPerProject
  <2>11. QED BY <1>4, <2>4, <2>10
<1>9. QED BY <1>5, <1>6, <1>7, <1>8, StepFrame

LEMMA ViewsOnceOther ==
  ASSUME IInv, IInv', RequestInv, [Next]_vars, \A t \in Thread : ~Step(t)
  PROVE  OneViewPerProject' /\ NotCachedYet'
<1>1. ViewsKeepProject
  BY ProjectOther
<1>2. CASE UNCHANGED views
  <2>1. OneViewPerProject'
    BY <1>1, <1>2 DEF RequestInv, OneViewPerProject, ViewsKeepProject
  <2>2. ASSUME NEW u \in Thread, Building(u)'
        PROVE  CachedAt(req[u].project)' = {}
    <3>1. req'[u].project = req[u].project /\ CachedAt(req[u].project) = {}
      BY <2>2, BuildOther DEF BuildsOn, RequestInv, NotCachedYet
    <3>2. QED BY <1>1, <1>2, <3>1 DEF CachedAt, ViewsKeepProject
  <2>3. QED BY <2>1, <2>2 DEF NotCachedYet
<1>3. CASE Crash
  BY <1>3 DEF Crash, OneViewPerProject, NotCachedYet, CachedAt
<1>4. QED BY <1>2, <1>3, BuildOther DEF RequestInv

(* Views of deleted projects.                                              *)
LEMMA StaleStep ==
  ASSUME IInv, IInv', RequestInv, ViewLockHeld', NEW t \in Thread, Step(t)
  PROVE  StaleViewsDropped'
<1>1. ViewsKeepProject /\ Live' = Live /\ \A u \in Thread \ {t} : req'[u] = req[u]
  BY ProjectStep, StepFrame DEF Live
<1>2. CASE DropView(t)
  <2>1. viewLock' = None /\ views' = Dropped(req[t].project)
    BY <1>2 DEF DropView
  <2>2. \A u \in Thread : ~Building(u)'
    BY <2>1, StoreAssumption DEF ViewLockHeld
  <2>3. ASSUME NEW j \in DOMAIN views', heap'[views'[j]].project \notin Live
        PROVE  Dropping(heap[views[j]].project)'
    <3>1. PICK i \in DOMAIN views : views'[j] = views[i]
      BY <1>2, ViewsStep DEF DropView, ViewLoaded
    <3>2. heap'[views'[j]].project = heap[views[i]].project
      BY <1>1, <3>1 DEF ViewsKeepProject
    <3>3. heap[views[i]].project # req[t].project
      BY <2>1, <3>1, DroppedDistinct DEF IInv, TypeOK, RequestInv
    <3>4. PICK u \in Thread : req[u].pc = "drop_view" /\ req[u].project = heap[views[i]].project
      BY <2>3, <3>2 DEF RequestInv, StaleViewsDropped, Dropping
    <3>5. QED BY <1>1, <3>2, <3>3, <3>4 DEF Dropping
  <2>4. QED BY <1>1, <2>2, <2>3 DEF StaleViewsDropped
<1>3. CASE ~DropView(t)
  <2>1. req[t].pc # "drop_view"
    BY <1>3, StepFrame DEF LookupHit, Invalidate, ViewLoaded
  <2>2. \A p : Dropping(p) => Dropping(p)'
    BY <1>1, <2>1 DEF Dropping
  <2>3. ASSUME NEW j \in DOMAIN views', heap'[views'[j]].project \notin Live
        PROVE  Dropping(heap[views[j]].project)'
    <3>1. CASE \E i \in DOMAIN views : views'[j] = views[i]
      BY <1>1, <2>2, <2>3, <3>1 DEF RequestInv, StaleViewsDropped, ViewsKeepProject
    <3>2. CASE ViewLoaded(t) /\ views'[j] = req[t].store
      <4>1. heap'[views'[j]].project = req[t].project
        BY <3>2 DEF ViewLoaded, Swept, Loaded, IInv, TypeOK, Bindings, References, Opening,
           Loading, StoreId
      <4>2. Building(t) /\ req[t].pc # "revision"
        BY <3>2 DEF ViewLoaded, Building, Loading
      <4>3. QED BY <2>2, <2>3, <4>1, <4>2 DEF RequestInv, StaleViewsDropped
    <3>3. QED BY <3>1, <3>2, ViewsStep
  <2>4. ASSUME NEW u \in Thread, Building(u)', req'[u].pc # "revision", req'[u].project \notin Live
        PROVE  Dropping(req[u].project)'
    BY <2>2, <2>4, BuildStep DEF BuildsOn, RequestInv, StaleViewsDropped
  <2>5. QED BY <1>1, <2>3, <2>4 DEF StaleViewsDropped
<1>4. QED BY <1>2, <1>3

LEMMA StaleOther ==
  ASSUME IInv, IInv', RequestInv, [Next]_vars, \A t \in Thread : ~Step(t)
  PROVE  StaleViewsDropped'
<1>1. ViewsKeepProject
  BY ProjectOther
<1>2. CASE Crash
  BY <1>2 DEF Crash, StaleViewsDropped, Building, Loading, Idle
<1>3. CASE ~Crash
  <2>1. UNCHANGED views /\ \A p : Dropping(p) => Dropping(p)'
    BY <1>3, BuildOther DEF RequestInv, Dropping
  <2>2. \A p : p \in Live /\ p \notin Live' => Dropping(p)'
    <3>1. /\ status \in [Project -> {"unborn", "live", "deleted"}] /\ req \in [Thread -> Request]
      BY WorkspaceTypes DEF IInv, TypeOK
    <3>2. ASSUME NEW t \in Thread, NEW q \in Project, NEW seen, DeleteProject(t, q, seen)
          PROVE  \A p : p \in Live /\ p \notin Live' => Dropping(p)'
      <4>1. \A p : p \in Live /\ p \notin Live' => p = q
        BY <3>1, <3>2 DEF DeleteProject, Live
      <4>2. req'[t].pc = "drop_view" /\ req'[t].project = q
        BY <3>1, <3>2 DEF DeleteProject, ThenDropView, Idle
      <4>3. QED BY <4>1, <4>2 DEF Dropping
    <3>3. ASSUME NEW t \in Thread, NEW q \in Project, CreateProject(t, q)
          PROVE  Live \subseteq Live'
      BY <3>1, <3>3 DEF CreateProject, Live
    <3>4. ASSUME NEW t \in Thread,
                 \/ \E r \in Request : Arrive(t, r)
                 \/ \E p \in Project : SelectProject(t, p) \/ \E seen : RenameProject(t, p, seen)
                 \/ \E op \in Offers : ArriveRootWrite(t, op)
                 \/ \E sample \in Event : Open(t, sample)
          PROVE  Live' = Live
      BY <3>4 DEF Arrive, SelectProject, RenameProject, ArriveRootWrite, Open, Live
    <3>5. UNCHANGED vars => Live' = Live
      BY DEF vars, Live
    <3>6. QED BY <1>3, <3>2, <3>3, <3>4, <3>5, OtherSteps
  <2>3. ASSUME NEW i \in DOMAIN views, heap'[views[i]].project \notin Live'
        PROVE  Dropping(heap[views[i]].project)'
    BY <1>1, <2>1, <2>2, <2>3 DEF RequestInv, StaleViewsDropped, ViewsKeepProject
  <2>4. ASSUME NEW u \in Thread, Building(u)', req'[u].pc # "revision", req'[u].project \notin Live'
        PROVE  Dropping(req[u].project)'
    BY <2>1, <2>2, <2>4, BuildOther DEF BuildsOn, RequestInv, StaleViewsDropped
  <2>5. QED BY <2>1, <2>3, <2>4 DEF StaleViewsDropped
<1>4. QED BY <1>2, <1>3
-----------------------------------------------------------------------------
LEMMA RequestInvInit == Init => RequestInv
<1> SUFFICES ASSUME Init
             PROVE  RequestInv
  OBVIOUS
<1>1. RootStore \in StoreId /\ views = << >> /\ DOMAIN views = {}
  BY EmptySeq, LenProperties DEF Init, StoreId
<1>2. /\ Idle.pc = "done" /\ Idle.kind = "none" /\ Idle.store = None /\ ~Idle.wrote
      /\ Garbage.owner = None
  BY DEF Idle, Garbage
<1>3. \A t \in Thread : req[t] = Idle
  BY DEF Init
<1>4. ClosedIsIdle /\ WroteKnown /\ RefusedMeansUnchanged /\ OwnersRepair
  BY <1>2, <1>3 DEF Init, ClosedIsIdle, WroteKnown, RefusedMeansUnchanged, OwnersRepair
<1>5. ViewLockHeld /\ NotCachedYet
  BY <1>2, <1>3, StoreAssumption DEF Init, ViewLockHeld, NotCachedYet, Building, Loading
<1>6. OneViewPerProject /\ StaleViewsDropped
  BY <1>1, <1>2, <1>3 DEF OneViewPerProject, StaleViewsDropped, Building, Loading
<1>7. SeedsAlone
  BY <1>2, <1>3, StoreAssumption DEF SeedsAlone, Seeding
<1>8. QED BY <1>4, <1>5, <1>6, <1>7 DEF RequestInv

LEMMA RequestInvNext == IInv /\ RequestInv /\ [Next]_vars => RequestInv'
<1> SUFFICES ASSUME IInv, RequestInv, [Next]_vars
             PROVE  RequestInv'
  OBVIOUS
<1>1. IInv'
  BY InvariantPreserved
<1>2. ASSUME NEW t \in Thread, Step(t)
      PROVE  RequestInv'
  <2>1. ViewLockHeld'
    BY <1>1, <1>2, LockStep
  <2>2. QED
    BY <1>1, <1>2, <2>1, OpenStep, AnswersStep, OwnerStep, SeedStep, ViewsOnceStep, StaleStep DEF
       RequestInv
<1>3. CASE \A t \in Thread : ~Step(t)
  BY <1>1, <1>3, LockOther, OpenOther, AnswersOther, OwnerOther, SeedOther, ViewsOnceOther,
     StaleOther DEF RequestInv
<1>4. QED BY <1>2, <1>3

(* The invariant of locks, views, answers and seeding.                     *)
THEOREM RequestsInductive == Spec => []RequestInv
<1>1. Init => RequestInv
  BY RequestInvInit
<1>2. IInv /\ RequestInv /\ [Next]_vars => RequestInv'
  BY RequestInvNext
<1>3. QED BY <1>1, <1>2, Inductive, PTL DEF Spec
-----------------------------------------------------------------------------
(* _commit_candidate and EventStore(project_id): a refusal, or a failure   *)
(* said to have changed nothing, is never the answer of a write that       *)
(* reached SQLite.                                                         *)
THEOREM RefusalsChangeNothing == Spec => []RefusedMeansUnchanged
<1>1. RequestInv => RefusedMeansUnchanged
  BY DEF RequestInv
<1>2. QED BY <1>1, RequestsInductive, PTL

(* for_project: parallel reads of any number of projects never cache two   *)
(* views of one project.                                                   *)
THEOREM ViewsAreUnique == Spec => []OneViewPerProject
<1>1. RequestInv => OneViewPerProject
  BY DEF RequestInv
<1>2. QED BY <1>1, RequestsInductive, PTL

(* delete_project: a view of a deleted project, also one that was being    *)
(* built during the transaction, is dropped before the answer.             *)
THEOREM DeletedViewsGo == Spec => []NoViewOfDeletedProject
<1>1. RequestInv => NoViewOfDeletedProject
  BY DEF RequestInv, StaleViewsDropped, Dropping, NoViewOfDeletedProject
<1>2. QED BY <1>1, RequestsInductive, PTL

(* A commit of the seeding request replaces rows nobody has written to.    *)
LEMMA SeedingCommits ==
  ASSUME IInv, RequestInv, NEW t \in Thread, Seeding(t), Committing(t), Verdict(t) = "ok"
  PROVE  NeedsSeed(durable[Legacy])
<1>1. req[t].pc = "use" /\ req[t].store = RootStore /\ req[t].project = Legacy /\ Opened
  BY DEF Seeding, Committing, NeedsCommit, Writing, Ready, RequestInv, SeedsAlone
<1>2. NeedsSeed(heap[RootStore].rows)
  BY <1>1 DEF RequestInv, SeedsAlone
<1>3. Legacy \in Live /\ durable[Legacy].rev = heap[RootStore].rows.rev
  BY <1>1 DEF Verdict, Memory
<1>4. heap[RootStore].rows = durable[Legacy]
  BY <1>1, <1>3 DEF IInv, Bindings, RootBound, Coherent, CopyAgrees, Opened, StoreId
<1>5. QED BY <1>2, <1>4

(* default_store: the sample replaces nothing a user has recorded, imported*)
(* or cleared, whatever happens between the snapshot and the commit.       *)
THEOREM SampleOnlyOnce == Spec => NeverReseeds
<1> DEFINE A == \A t \in Thread :
          Seeding(t) /\ req'[t] # req[t] /\ durable' # durable
              => durable[Legacy].events = {} /\ ~durable[Legacy].initialized
<1>1. IInv /\ RequestInv /\ Next => A
  <2> SUFFICES ASSUME IInv, RequestInv, Next, NEW t \in Thread,
                      Seeding(t), req'[t] # req[t], durable' # durable
               PROVE  NeedsSeed(durable[Legacy])
    BY DEF NeedsSeed
  <2>1. req \in [Thread -> Request] /\ req[t].pc # "done"
    BY DEF IInv, TypeOK, RequestInv, SeedsAlone, Seeding
  <2>2. ASSUME NEW u \in Thread, Step(u)
        PROVE  NeedsSeed(durable[Legacy])
    <3>1. u = t
      BY <2>2, StepFrame
    <3>2. Committing(t) /\ Verdict(t) = "ok"
      BY <2>2, <3>1 DEF Step, LookupHit, LookupMiss, Invalidate, LoadRevision, LoadEvents,
         ViewLoaded, BoundLoaded, Reconciled, LeakContained, OpeningFails, ReconcileFails,
         ReadSnapshot, WriteEndsEarly, WriteBlocked, CommitSucceeds, CommitRefused, CommitUncertain,
         DropView
    <3>3. QED BY <3>2, SeedingCommits
  <2>3. CASE \A u \in Thread : ~Step(u)
    <3>1. PICK u \in Thread, p \in Project : \E seen : RenameProject(u, p, seen)
                 \/ DeleteProject(u, p, seen)
      BY <2>3, OtherSteps DEF Arrive, CreateProject, SelectProject, ArriveRootWrite, Open, Crash,
         vars
    <3>2. req[u].pc = "done" /\ \A v \in Thread \ {u} : req'[v] = req[v]
      BY <2>1, <3>1 DEF RenameProject, DeleteProject, ThenDropView
    <3>3. QED BY <2>1, <3>2
  <2>4. QED BY <2>2, <2>3
<1>2. IInv /\ RequestInv /\ [Next]_vars => [A]_vars
  BY <1>1
<1> HIDE DEF A
<1>3. Spec => [][A]_vars
  BY <1>2, Inductive, RequestsInductive, PTL DEF Spec
<1>4. QED BY <1>3 DEF NeverReseeds, A
=============================================================================
