---------------------------- MODULE TimelineProofs ----------------------------
(***************************************************************************)
(* Proofs about Timeline for any files, stored rows, settings, bounds and  *)
(* observations: what is stored stays behind the privacy boundary, edits   *)
(* touch what they name, a repeated import adds nothing, and an analysis   *)
(* belongs to the snapshot it was asked for.                               *)
(***************************************************************************)
EXTENDS Timeline, AnalysisProofs, SequenceTheorems

(* The rows of the project, one per identifier.                            *)
RowsSound ==
    /\ IsFiniteSet(events)
    /\ \A e \in events : IsEvent(e) /\ Opaque(e)
    /\ \A e, f \in events : e.id = f.id => e = f

(* What is excluded is not stored, unless a merge joined its name.         *)
Storable(e) == Allowed(e) \/ Len(e.app) > 1
NotExcluded == \A e \in events : Storable(e)

LabelsSound ==
    /\ DOMAIN labels \subseteq {e.id : e \in events}
    /\ \A i \in DOMAIN labels : labels[i] \in Label

Bounds ==
    /\ settings.gap \in Gaps /\ settings.excluded \subseteq App
    /\ generation \in 0 .. MaxEdits /\ history \in 0 .. generation
    /\ pending \in BOOLEAN

FeedSound == feed \in [Bucket -> Seq(Observation)]

(* A request and the cache agree on what was stored at a generation, and   *)
(* nothing is kept for a generation that has passed, unless the cache is   *)
(* about to be cleared.                                                    *)
SnapshotSound ==
    /\ request = [at |-> request.at, gen |-> request.gen, events |-> request.events,
                  gap |-> request.gap, answer |-> request.answer]
    /\ request.at \in {"idle", "asking", "building", "keeping", "answered"}
    /\ request.gen \in 0 .. generation
    /\ request.at \in {"building", "keeping", "answered"} => request.answer = request.events
    /\ request.at # "idle" =>
          /\ request.gen = generation => request.events = events
          /\ \A c \in cache : c.gen = request.gen => c.of = request.events
    /\ request.at = "keeping" => request.gen = generation \/ pending
    /\ \A c \in cache : /\ c.gen \in 0 .. generation
                        /\ c.gen = generation => c.of = events
                        /\ c.gen = generation \/ pending

(* The import just made is the one the store remembers.                    *)
RecentImport ==
    done # Nothing =>
        /\ last = Fingerprint(done[2], Minimised(done[2], done[3]))
        /\ done[1] = "replace" => CurrentDataset = Dataset(Minimised(done[2], done[3]))

TInv ==
    /\ RowsSound
    /\ NotExcluded
    /\ LabelsSound
    /\ Bounds
    /\ FeedSound
    /\ SnapshotSound
    /\ RecentImport
-----------------------------------------------------------------------------
(* The privacy boundary.                                                   *)

LEMMA RedactFields ==
  ASSUME NEW e, IsEvent(e), NEW T, NEW r, r = Redact(e, T)
  PROVE  /\ IsEvent(r)
         /\ r.id = Reference("evt", e.id, T)
         /\ r.case = Reference("case", e.case, T)
         /\ r.src = Reference("source", e.src, T)
         /\ r.act = IF e.hidden THEN Unlabeled ELSE e.act
         /\ r.source = e.source /\ r.origin = e.origin /\ r.quality = e.quality
         /\ r.app = e.app /\ r.start = e.start /\ r.end = e.end /\ r.dur = e.dur
         /\ r.idle = e.idle /\ r.timed = e.timed /\ r.hidden = e.hidden
<1>1. r.id = Reference("evt", e.id, T) /\ r.case = Reference("case", e.case, T)
  BY DEF IsEvent, Redact
<1>2. r.src = Reference("source", e.src, T) /\ r.act = IF e.hidden THEN Unlabeled ELSE e.act
  BY DEF IsEvent, Redact
<1>3. /\ r.source = e.source /\ r.origin = e.origin /\ r.quality = e.quality
      /\ r.app = e.app /\ r.start = e.start /\ r.end = e.end /\ r.dur = e.dur
      /\ r.idle = e.idle /\ r.timed = e.timed /\ r.hidden = e.hidden
  BY DEF IsEvent, Redact
<1>4. r = [id |-> r.id, source |-> r.source, src |-> r.src, case |-> r.case,
           origin |-> r.origin, quality |-> r.quality, act |-> r.act, app |-> r.app,
           start |-> r.start, end |-> r.end, dur |-> r.dur,
           idle |-> r.idle, timed |-> r.timed, hidden |-> r.hidden]
  BY DEF IsEvent, Redact
<1>5. QED BY <1>1, <1>2, <1>3, <1>4 DEF IsEvent

LEMMA RedactOpaque ==
  ASSUME NEW e, IsEvent(e), NEW T
  PROVE  IsEvent(Redact(e, T)) /\ Opaque(Redact(e, T))
<1> DEFINE r == Redact(e, T)
<1>1. /\ IsEvent(r) /\ r.hidden = e.hidden
      /\ r.id = Reference("evt", e.id, T) /\ r.case = Reference("case", e.case, T)
      /\ r.src = Reference("source", e.src, T)
      /\ r.act = IF e.hidden THEN Unlabeled ELSE e.act
  BY RedactFields
<1>2. \A k, x : Reference(k, x, T)[1] = k
  BY DEF Reference
<1>3. QED BY <1>1, <1>2 DEF Opaque

(* A row that is opaque and trusted passes as it is.                       *)
LEMMA RedactTrusted ==
  ASSUME NEW e, IsEvent(e), Opaque(e), NEW T, {e.id, e.case, e.src} \subseteq T
  PROVE  Redact(e, T) = e
<1>1. /\ Reference("evt", e.id, T) = e.id /\ Reference("case", e.case, T) = e.case
      /\ Reference("source", e.src, T) = e.src /\ (e.hidden => e.act = Unlabeled)
  BY DEF Opaque, Reference
<1>2. QED BY <1>1 DEF IsEvent, Redact

LEMMA OwnReferences ==
  ASSUME NEW S, NEW e \in S
  PROVE  {e.id, e.case, e.src} \subseteq References(S)
BY DEF References

LEMMA StoredPass ==
  ASSUME RowsSound, NEW e \in events, NEW m
  PROVE  Redact(e, References(events \cup m)) = e
<1>1. {e.id, e.case, e.src} \subseteq References(events \cup m)
  BY OwnReferences
<1>2. QED BY <1>1, RedactTrusted DEF RowsSound
-----------------------------------------------------------------------------
(* A commit.                                                               *)

(* As many identifiers as rows went in: no two rows share one.             *)
LEMMA OneRowPerIdentifier ==
  ASSUME NEW S, IsFiniteSet(S), NEW m,
         Cardinality({e.id : e \in Candidate(S, m)}) = Cardinality(S)
  PROVE  /\ IsFiniteSet(Candidate(S, m))
         /\ \A e, f \in Candidate(S, m) : e.id = f.id => e = f
         /\ \A x, y \in S : Redact(x, References(events \cup m)).id
                             = Redact(y, References(events \cup m)).id => x = y
<1> DEFINE T == References(events \cup m)
           ids == {e.id : e \in Candidate(S, m)}
           name == [x \in S |-> Redact(x, T).id]
<1>1. Candidate(S, m) = {Redact(x, T) : x \in S}
  BY DEF Candidate
<1>2. IsFiniteSet(Candidate(S, m))
  <2>1. [x \in S |-> Redact(x, T)] \in Surjection(S, Candidate(S, m))
    BY <1>1 DEF Surjection
  <2> HIDE DEF T
  <2>2. QED BY <2>1, FS_Surjection
<1>3. name \in Surjection(S, ids)
  BY <1>1 DEF Surjection
<1>4. name \in Injection(S, ids)
  <2>1. Cardinality(ids) = Cardinality(S)
    OBVIOUS
  <2> HIDE DEF name, ids
  <2>2. QED BY <1>3, <2>1, FS_Surjection
<1>5. \A x, y \in S : Redact(x, T).id = Redact(y, T).id => x = y
  BY <1>4 DEF Injection, IsInjective
<1>6. QED BY <1>1, <1>2, <1>5

LEMMA CommitSound ==
  ASSUME RowsSound, NEW S, IsFiniteSet(S), \A e \in S : IsEvent(e), NEW m,
         NEW L, \A i \in DOMAIN L : L[i] \in Label, Commit(S, m, L)
  PROVE  RowsSound' /\ LabelsSound'
<1>1. events' = Candidate(S, m) /\ Cardinality({e.id : e \in Candidate(S, m)}) = Cardinality(S)
  BY DEF Commit
<1>2. IsFiniteSet(events') /\ \A e, f \in events' : e.id = f.id => e = f
  BY <1>1, OneRowPerIdentifier
<1>3. \A e \in events' : IsEvent(e) /\ Opaque(e)
  BY <1>1, RedactOpaque DEF Candidate
<1>4. LabelsSound'
  <2>1. labels' = [i \in DOMAIN L \cap {e.id : e \in events'} |-> L[i]]
    BY DEF Commit
  <2>2. QED BY <2>1 DEF LabelsSound
<1>5. QED BY <1>2, <1>3, <1>4 DEF RowsSound

LEMMA CommitAllowed ==
  ASSUME NEW S, \A e \in S : IsEvent(e), NEW m, NEW L, Commit(S, m, L),
         \A e \in S : e.app \notin settings'.excluded \/ Len(e.app) > 1
  PROVE  NotExcluded'
<1> DEFINE T == References(events \cup m)
<1>1. events' = {Redact(e, T) : e \in S}
  BY DEF Commit, Candidate
<1> HIDE DEF T
<1>2. \A e \in S : Redact(e, T).app = e.app
  BY RedactFields
<1>3. QED BY <1>1, <1>2 DEF NotExcluded, Storable, Allowed

(* What a request and the cache hold is from before the commit.            *)
LEMMA CommitSnapshot ==
  ASSUME Bounds, SnapshotSound, NEW S, NEW m, NEW L, Commit(S, m, L)
  PROVE  SnapshotSound' /\ generation' = generation + 1 /\ generation' \in 0 .. MaxEdits
<1>1. /\ generation \in Nat /\ MaxEdits \in Nat /\ generation' = generation + 1
      /\ generation < MaxEdits /\ ~pending /\ pending' = TRUE
      /\ request' = request /\ cache' = cache
  BY TimelineAssumption DEF Bounds, Commit
<1>2. request'.gen \in 0 .. generation' /\ request'.gen # generation'
  BY <1>1 DEF SnapshotSound
<1>3. \A c \in cache' : c.gen \in 0 .. generation' /\ c.gen # generation'
  BY <1>1 DEF SnapshotSound
<1>4. SnapshotSound'
  BY <1>1, <1>2, <1>3 DEF SnapshotSound
<1>5. QED BY <1>1, <1>4

(* Rows that stay and are sound pass the boundary unchanged, with labels.  *)
LEMMA CommitKeepsRows ==
  ASSUME RowsSound, NEW S, NEW m, NEW L, Commit(S, m, L), NEW K, K \subseteq S \cap events,
         \A e \in K : e.id \in DOMAIN labels => e.id \in DOMAIN L /\ L[e.id] = labels[e.id]
  PROVE  Keeps(K)
<1>1. K \subseteq events'
  BY StoredPass DEF Commit, Candidate
<1>2. ASSUME NEW e \in K, e.id \in DOMAIN labels
      PROVE  e.id \in DOMAIN labels' /\ labels'[e.id] = labels[e.id]
  <2>1. e.id \in DOMAIN L \cap {f.id : f \in events'}
    BY <1>1, <1>2
  <2>2. labels' = [i \in DOMAIN L \cap {f.id : f \in events'} |-> L[i]]
    BY DEF Commit
  <2>3. QED BY <1>2, <2>1, <2>2
<1>3. QED BY <1>1, <1>2 DEF Keeps
-----------------------------------------------------------------------------
(* Edits.  Each is a commit of some of the stored rows and new events.     *)

LEMMA EditSound ==
  ASSUME TInv, NEW S, IsFiniteSet(S), \A e \in S : IsEvent(e), NEW m,
         \A e \in S : e.app \notin settings'.excluded \/ Len(e.app) > 1,
         NEW L, \A i \in DOMAIN L : L[i] \in Label, Commit(S, m, L),
         settings'.gap \in Gaps, settings'.excluded \subseteq App, history' \in {0, history},
         done' = Nothing
  PROVE  TInv'
<1>1. RowsSound' /\ LabelsSound' /\ SnapshotSound'
  BY CommitSound, CommitSnapshot DEF TInv
<1>2. Bounds'
  <2>1. generation' = generation + 1 /\ generation' \in 0 .. MaxEdits
    BY CommitSnapshot DEF TInv
  <2>2. pending' \in BOOLEAN
    BY DEF Commit
  <2>3. history' \in 0 .. generation'
    BY <2>1, TimelineAssumption DEF TInv, Bounds
  <2>4. QED BY <2>1, <2>2, <2>3 DEF Bounds
<1>3. FeedSound' /\ RecentImport'
  BY DEF TInv, FeedSound, RecentImport, Commit
<1>4. NotExcluded'
  BY CommitAllowed
<1>5. QED BY <1>1, <1>2, <1>3, <1>4 DEF TInv

(* The usual form: some rows go, at most two come, labels go.              *)
LEMMA EditOf ==
  ASSUME TInv, NEW D, NEW A, IsFiniteSet(A), \A e \in A : IsEvent(e) /\ Storable(e),
         NEW L, \A i \in DOMAIN L : L[i] \in Label,
         Edit((events \ D) \cup A, L)
  PROVE  TInv'
<1> DEFINE S == (events \ D) \cup A
<1>1. IsFiniteSet(S)
  <2>1. IsFiniteSet(events \ D)
    BY FS_Difference DEF TInv, RowsSound
  <2>2. QED BY <2>1, FS_Union
<1>2. \A e \in S : IsEvent(e)
  BY DEF TInv, RowsSound
<1>3. /\ Commit(S, {}, L) /\ done' = Nothing
      /\ settings'.gap \in Gaps /\ settings'.excluded \subseteq App /\ history' \in {0, history}
  BY DEF Edit, TInv, Bounds
<1>4. \A e \in S : e.app \notin settings'.excluded \/ Len(e.app) > 1
  BY DEF Edit, TInv, NotExcluded, Storable, Allowed
<1> HIDE DEF S
<1>5. QED BY <1>1, <1>2, <1>3, <1>4, EditSound

(* A changed field leaves a well-formed event.                             *)
LEMMA Replacement ==
  ASSUME NEW e, IsEvent(e), NEW act, NEW case, NEW q \in {"", "approved", "unreviewed"}
  PROVE  /\ IsEvent([e EXCEPT !.act = act]) /\ [e EXCEPT !.act = act].app = e.app
         /\ IsEvent([e EXCEPT !.quality = q]) /\ [e EXCEPT !.quality = q].app = e.app
         /\ IsEvent([e EXCEPT !.case = case, !.origin = "manual"])
         /\ [e EXCEPT !.case = case, !.origin = "manual"].app = e.app
<1>1. ASSUME NEW r, r = [e EXCEPT !.act = act]
      PROVE  IsEvent(r) /\ r.app = e.app
  <2>1. r = [id |-> r.id, source |-> r.source, src |-> r.src, case |-> r.case,
             origin |-> r.origin, quality |-> r.quality, act |-> r.act, app |-> r.app,
             start |-> r.start, end |-> r.end, dur |-> r.dur,
             idle |-> r.idle, timed |-> r.timed, hidden |-> r.hidden]
    BY <1>1 DEF IsEvent
  <2>2. /\ r.app = e.app /\ r.start = e.start /\ r.end = e.end /\ r.dur = e.dur
        /\ r.idle = e.idle /\ r.timed = e.timed /\ r.hidden = e.hidden
    BY <1>1 DEF IsEvent
  <2>3. r.origin \in {"observed", "manual", "unassigned"}
    BY <1>1 DEF IsEvent
  <2>4. r.quality \in {"", "approved", "unreviewed"}
    BY <1>1 DEF IsEvent
  <2>5. QED BY <2>1, <2>2, <2>3, <2>4 DEF IsEvent
<1>2. ASSUME NEW r, r = [e EXCEPT !.quality = q]
      PROVE  IsEvent(r) /\ r.app = e.app
  <2>1. r = [id |-> r.id, source |-> r.source, src |-> r.src, case |-> r.case,
             origin |-> r.origin, quality |-> r.quality, act |-> r.act, app |-> r.app,
             start |-> r.start, end |-> r.end, dur |-> r.dur,
             idle |-> r.idle, timed |-> r.timed, hidden |-> r.hidden]
    BY <1>2 DEF IsEvent
  <2>2. /\ r.app = e.app /\ r.start = e.start /\ r.end = e.end /\ r.dur = e.dur
        /\ r.idle = e.idle /\ r.timed = e.timed /\ r.hidden = e.hidden
    BY <1>2 DEF IsEvent
  <2>3. r.origin \in {"observed", "manual", "unassigned"}
    BY <1>2 DEF IsEvent
  <2>4. r.quality \in {"", "approved", "unreviewed"}
    BY <1>2 DEF IsEvent
  <2>5. QED BY <2>1, <2>2, <2>3, <2>4 DEF IsEvent
<1>3. ASSUME NEW r, r = [e EXCEPT !.case = case, !.origin = "manual"]
      PROVE  IsEvent(r) /\ r.app = e.app
  <2>1. r = [id |-> r.id, source |-> r.source, src |-> r.src, case |-> r.case,
             origin |-> r.origin, quality |-> r.quality, act |-> r.act, app |-> r.app,
             start |-> r.start, end |-> r.end, dur |-> r.dur,
             idle |-> r.idle, timed |-> r.timed, hidden |-> r.hidden]
    BY <1>3 DEF IsEvent
  <2>2. /\ r.app = e.app /\ r.start = e.start /\ r.end = e.end /\ r.dur = e.dur
        /\ r.idle = e.idle /\ r.timed = e.timed /\ r.hidden = e.hidden
    BY <1>3 DEF IsEvent
  <2>3. r.origin \in {"observed", "manual", "unassigned"}
    BY <1>3 DEF IsEvent
  <2>4. r.quality \in {"", "approved", "unreviewed"}
    BY <1>3 DEF IsEvent
  <2>5. QED BY <2>1, <2>2, <2>3, <2>4 DEF IsEvent
<1>4. QED BY <1>1, <1>2, <1>3

LEMMA EditStep ==
  ASSUME TInv, NEW e \in events, NEW f \in events, NEW D \in SUBSET {e, f},
         NEW A, IsFiniteSet(A), \A x \in A : IsEvent(x) /\ Storable(x),
         NEW L, \A i \in DOMAIN L : L[i] \in Label,
         \A i \in DOMAIN labels \ {e.id, f.id} : i \in DOMAIN L /\ L[i] = labels[i],
         Edit((events \ D) \cup A, L)
  PROVE  TInv' /\ Untouched
<1>1. TInv'
  BY EditOf
<1>2. Commit((events \ D) \cup A, {}, L) /\ settings' = settings /\ history' = history
  BY DEF Edit
<1>3. \A x \in events \ {e, f} : x.id \notin {e.id, f.id}
  BY DEF TInv, RowsSound
<1>4. Keeps({x \in events : Allowed(x)} \ {e, f})
  <2> DEFINE K == {x \in events : Allowed(x)} \ {e, f}
             S == (events \ D) \cup A
  <2>1. K \subseteq S \cap events
    OBVIOUS
  <2>2. \A x \in K : x.id \in DOMAIN labels => x.id \in DOMAIN L /\ L[x.id] = labels[x.id]
    BY <1>3
  <2>3. RowsSound
    BY DEF TInv
  <2> HIDE DEF K, S
  <2>4. Commit(S, {}, L)
    BY <1>2 DEF S
  <2>5. Keeps(K)
    BY <2>1, <2>2, <2>3, <2>4, CommitKeepsRows
  <2>6. QED BY <2>5 DEF K
<1>5. QED BY <1>1, <1>2, <1>4 DEF Untouched

(* An event is replaced by another.                                        *)
LEMMA ChangeStep ==
  ASSUME TInv, NEW e \in events, NEW new, IsEvent(new), new.app = e.app, Change(e, new)
  PROVE  TInv' /\ Untouched
<1>1. IsFiniteSet({new})
  BY FS_Singleton
<1>2. \A i \in DOMAIN labels : labels[i] \in Label
  BY DEF TInv, LabelsSound
<1>3. Edit((events \ {e}) \cup {new}, labels)
  BY DEF Change
<1>4. {e} \in SUBSET {e, e} /\ \A x \in {new} : IsEvent(x) /\ Storable(x)
  BY DEF TInv, NotExcluded, Storable, Allowed
<1>5. QED BY <1>1, <1>2, <1>3, <1>4, EditStep

LEMMA EditEventSteps ==
  ASSUME TInv, EditEvent
  PROVE  TInv' /\ Untouched
<1>1. PICK e \in events :
        \/ \E l \in Label : SetLabel(e, l)
        \/ \E a \in Activity : UpdateActivity(e, a)
        \/ Exclude(e)
        \/ \E q \in {"approved", "unreviewed"} : ReviewQuality(e, q)
        \/ \E c : CorrectCase(e, c)
  BY DEF EditEvent
<1>2. IsEvent(e) /\ \A i \in DOMAIN labels : labels[i] \in Label
  BY DEF TInv, RowsSound, LabelsSound
<1>3. IsFiniteSet({}) /\ {} \in SUBSET {e, e} /\ {e} \in SUBSET {e, e}
  BY FS_EmptySet
<1>4. CASE \E l \in Label : SetLabel(e, l)
  <2>1. PICK l \in Label : SetLabel(e, l)
    BY <1>4
  <2> DEFINE L == [i \in DOMAIN labels \cup {e.id} |-> IF i = e.id THEN l ELSE labels[i]]
  <2>2. \A i \in DOMAIN L : L[i] \in Label
    BY <1>2
  <2>3. \A i \in DOMAIN labels \ {e.id, e.id} : i \in DOMAIN L /\ L[i] = labels[i]
    OBVIOUS
  <2>4. Edit((events \ {}) \cup {}, L)
    BY <2>1, (events \ {}) \cup {} = events DEF SetLabel
  <2> HIDE DEF L
  <2>5. QED BY <1>3, <2>2, <2>3, <2>4, EditStep
<1>5. CASE \E a \in Activity : UpdateActivity(e, a)
  BY <1>2, <1>5, Replacement, ChangeStep DEF UpdateActivity
<1>6. CASE Exclude(e)
  <2> DEFINE L == Without(e.id)
  <2>1. \A i \in DOMAIN L : L[i] \in Label
    BY <1>2 DEF Without
  <2>2. \A i \in DOMAIN labels \ {e.id, e.id} : i \in DOMAIN L /\ L[i] = labels[i]
    BY DEF Without
  <2>3. Edit((events \ {e}) \cup {}, L)
    BY <1>6, (events \ {e}) \cup {} = events \ {e} DEF Exclude
  <2> HIDE DEF L
  <2>4. QED BY <1>3, <2>1, <2>2, <2>3, EditStep
<1>7. CASE \E q \in {"approved", "unreviewed"} : ReviewQuality(e, q)
  BY <1>2, <1>7, Replacement, ChangeStep DEF ReviewQuality
<1>8. CASE \E c : CorrectCase(e, c)
  BY <1>2, <1>8, Replacement, ChangeStep DEF CorrectCase
<1>9. QED BY <1>1, <1>4, <1>5, <1>6, <1>7, <1>8
-----------------------------------------------------------------------------
(* Splits and merges.                                                      *)

LEMMA NaturalMax ==
  ASSUME NEW x \in Int, NEW y \in Nat
  PROVE  Max({x, y}) \in Nat
<1> DEFINE m == Max({x, y})
<1>1. m \in {x, y} /\ m >= y
  BY MaxOfTwo
<1> HIDE DEF m
<1>2. m \in Nat
  BY <1>1
<1>3. QED BY <1>2 DEF m

LEMMA Lasting ==
  ASSUME NEW e, IsEvent(e)
  PROVE  Duration(e) \in Nat /\ End(e) \in Nat
<1>1. e.start \in Nat /\ e.end \in Nat /\ e.dur \in Nat
  BY DEF IsEvent
<1>2. Interval(e) \in Int
  BY <1>1 DEF Interval
<1>3. Duration(e) \in Nat
  BY <1>1, <1>2, NaturalMax DEF Duration
<1>4. QED BY <1>1, <1>3 DEF End

(* The fields of a part of an event, and of two events joined.             *)
IsPart(r, e, n, act, x, y, z) ==
    r = [Part(e, n, act) EXCEPT !.start = x, !.end = y, !.dur = z]
IsJoin(m, l, i, s, p, act, x, y) ==
    m = [l EXCEPT !.id = i, !.src = s, !.app = p, !.act = act, !.end = x, !.dur = y]

LEMMA PartFields ==
  ASSUME NEW e, IsEvent(e), NEW n, NEW act, NEW x \in Nat, NEW y \in Nat, NEW z \in Nat,
         NEW r, IsPart(r, e, n, act, x, y, z)
  PROVE  /\ IsEvent(r)
         /\ r.id[1] = "split" /\ r.case = e.case /\ r.origin = e.origin
         /\ r.app = e.app /\ r.idle = e.idle /\ r.timed = e.timed
         /\ r.start = x /\ r.end = y /\ r.dur = z
<1>1. r = [id |-> r.id, source |-> r.source, src |-> r.src, case |-> r.case,
           origin |-> r.origin, quality |-> r.quality, act |-> r.act, app |-> r.app,
           start |-> r.start, end |-> r.end, dur |-> r.dur,
           idle |-> r.idle, timed |-> r.timed, hidden |-> r.hidden]
  BY DEF IsEvent, IsPart, Part
<1>2. /\ r.app = e.app /\ r.origin = e.origin /\ r.quality = e.quality /\ r.case = e.case
      /\ r.idle = e.idle /\ r.timed = e.timed /\ r.hidden = e.hidden
  BY DEF IsEvent, IsPart, Part
<1>3. r.start = x /\ r.end = y /\ r.dur = z /\ r.id[1] = "split"
  BY DEF IsEvent, IsPart, Part
<1>4. {r.start, r.end, r.dur} \subseteq Nat /\ IsName(r.app)
  BY <1>2, <1>3 DEF IsEvent
<1>5. QED BY <1>1, <1>2, <1>3, <1>4 DEF IsEvent

LEMMA JoinFields ==
  ASSUME NEW l, IsEvent(l), NEW i, NEW s, NEW p, IsName(p), NEW act,
         NEW x \in Nat, NEW y \in Nat, NEW m, IsJoin(m, l, i, s, p, act, x, y)
  PROVE  /\ IsEvent(m)
         /\ m.id = i /\ m.case = l.case /\ m.origin = l.origin
         /\ m.app = p /\ m.idle = l.idle /\ m.timed = l.timed
         /\ m.start = l.start /\ m.end = x /\ m.dur = y
<1>1. m = [id |-> m.id, source |-> m.source, src |-> m.src, case |-> m.case,
           origin |-> m.origin, quality |-> m.quality, act |-> m.act, app |-> m.app,
           start |-> m.start, end |-> m.end, dur |-> m.dur,
           idle |-> m.idle, timed |-> m.timed, hidden |-> m.hidden]
  BY DEF IsEvent, IsJoin
<1>2. /\ m.origin = l.origin /\ m.quality = l.quality /\ m.start = l.start /\ m.case = l.case
      /\ m.idle = l.idle /\ m.timed = l.timed /\ m.hidden = l.hidden
  BY DEF IsEvent, IsJoin
<1>3. m.end = x /\ m.dur = y /\ m.app = p /\ m.id = i
  BY DEF IsEvent, IsJoin
<1>4. /\ {m.start, m.end, m.dur} \subseteq Nat
      /\ {m.idle, m.timed, m.hidden} \subseteq BOOLEAN
      /\ m.origin \in {"observed", "manual", "unassigned"}
      /\ m.quality \in {"", "approved", "unreviewed"}
  BY <1>2, <1>3 DEF IsEvent
<1>5. IsName(m.app)
  BY <1>3
<1>6. QED BY <1>1, <1>2, <1>3, <1>4, <1>5 DEF IsEvent

LEMMA SplitSteps ==
  ASSUME TInv, NEW e \in events, NEW at \in SplitAt, NEW first, NEW second,
         Split(e, at, first, second)
  PROVE  TInv' /\ Untouched
<1> DEFINE a == [Part(e, 1, first) EXCEPT !.end = e.start + at, !.dur = at]
           b == [Part(e, 2, second) EXCEPT !.start = e.start + at, !.end = End(e),
                                           !.dur = Max({Duration(e) - at, 0})]
           L == Without(e.id)
<1>1. IsEvent(e) /\ at \in Nat /\ \A i \in DOMAIN labels : labels[i] \in Label
  BY TimelineAssumption DEF TInv, RowsSound, LabelsSound
<1>2. e.start + at \in Nat /\ End(e) \in Nat /\ Max({Duration(e) - at, 0}) \in Nat
  <2>1. e.start \in Nat /\ Duration(e) \in Nat /\ End(e) \in Nat
    BY <1>1, Lasting DEF IsEvent
  <2>2. Duration(e) - at \in Int
    BY <1>1, <2>1
  <2>3. Max({Duration(e) - at, 0}) \in Nat
    BY <2>2, NaturalMax
  <2>4. QED BY <1>1, <2>1, <2>3
<1>3. ASSUME NEW r, NEW n, NEW act, NEW x \in Nat, NEW y \in Nat, NEW z \in Nat,
             r = [Part(e, n, act) EXCEPT !.start = x, !.end = y, !.dur = z]
      PROVE  IsEvent(r)
  <2>1. IsPart(r, e, n, act, x, y, z)
    BY <1>3 DEF IsPart
  <2>2. QED BY <1>1, <2>1, PartFields
<1>4. a = [Part(e, 1, first) EXCEPT !.start = e.start, !.end = e.start + at, !.dur = at]
  BY <1>1 DEF Part, IsEvent
<1>5. IsEvent(a) /\ IsEvent(b)
  <2>1. e.start \in Nat
    BY <1>1 DEF IsEvent
  <2>2. IsEvent(a)
    BY <1>1, <1>2, <1>3, <1>4, <2>1
  <2>3. QED BY <1>1, <1>2, <1>3, <2>2
<1>6. \A i \in DOMAIN L : L[i] \in Label
  BY <1>1 DEF Without
<1>7. \A i \in DOMAIN labels \ {e.id, e.id} : i \in DOMAIN L /\ L[i] = labels[i]
  BY DEF Without
<1>8. Edit((events \ {e}) \cup {a, b}, L)
  BY DEF Split
<1>9. IsFiniteSet({a, b})
  <2> HIDE DEF a, b
  <2>1. {a, b} = {a} \cup {b}
    OBVIOUS
  <2>2. IsFiniteSet({a}) /\ IsFiniteSet({b})
    BY FS_Singleton
  <2>3. QED BY <2>1, <2>2, FS_Union
<1>12. Storable(a) /\ Storable(b)
  <2>1. Storable(e)
    BY DEF TInv, NotExcluded
  <2>2. a.app = e.app /\ b.app = e.app
    BY <1>1 DEF Part, IsEvent
  <2>3. QED BY <2>1, <2>2 DEF Storable, Allowed
<1> HIDE DEF a, b, L
<1>10. (\A x \in {a, b} : IsEvent(x) /\ Storable(x)) /\ {e} \in SUBSET {e, e}
  BY <1>5, <1>12
<1>11. QED BY <1>6, <1>7, <1>8, <1>9, <1>10, EditStep

LEMMA JoinedName ==
  ASSUME NEW x, IsName(x), NEW y, IsName(y)
  PROVE  IsName(x \o y) /\ Len(x \o y) > 1
<1> DEFINE S == {x[i] : i \in 1 .. Len(x)} \cup {y[i] : i \in 1 .. Len(y)}
<1>1. x \in Seq(S) /\ y \in Seq(S)
  <2>1. x \in [1 .. Len(x) -> S] /\ y \in [1 .. Len(y) -> S]
    BY DEF IsName
  <2>2. Len(x) \in Nat /\ Len(y) \in Nat
    BY DEF IsName
  <2>3. QED BY <2>1, <2>2, SeqDef
<1> HIDE DEF S
<1>2. x \o y \in Seq(S) /\ Len(x \o y) = Len(x) + Len(y)
  BY <1>1
<1>3. Len(x) \in Nat \ {0} /\ Len(y) \in Nat \ {0}
  BY DEF IsName
<1>4. x \o y = [i \in 1 .. Len(x \o y) |-> (x \o y)[i]]
  <2> DEFINE z == x \o y
  <2>1. z \in Seq(S)
    BY <1>2
  <2> HIDE DEF z
  <2>2. z \in [1 .. Len(z) -> S]
    BY <2>1
  <2>3. z = [i \in 1 .. Len(z) |-> z[i]]
    BY <2>2
  <2>4. QED BY <2>3 DEF z
<1>5. QED BY <1>2, <1>3, <1>4 DEF IsName

LEMMA MergeSteps ==
  ASSUME TInv, NEW l \in events, NEW r \in events, NEW act, Merge(l, r, act)
  PROVE  TInv' /\ Untouched
<1> DEFINE app == IF l.app = r.app THEN l.app ELSE l.app \o r.app
           new == [l EXCEPT !.id = <<"merge", l.id, r.id>>, !.src = <<"join", l.src, r.src>>,
                            !.app = app, !.act = act,
                            !.end = r.end, !.dur = Max({r.end - l.start, 0})]
           L == [j \in DOMAIN labels \ {l.id, r.id} |-> labels[j]]
<1>1. IsEvent(l) /\ IsEvent(r) /\ \A i \in DOMAIN labels : labels[i] \in Label
  BY DEF TInv, RowsSound, LabelsSound
<1>2. r.end \in Nat /\ Max({r.end - l.start, 0}) \in Nat
  <2>1. r.end \in Nat /\ l.start \in Nat
    BY <1>1 DEF IsEvent
  <2>2. r.end - l.start \in Int
    BY <2>1
  <2>3. QED BY <2>1, <2>2, NaturalMax
<1>3. ASSUME NEW m, NEW i, NEW s, NEW p, IsName(p), NEW x \in Nat, NEW y \in Nat,
             m = [l EXCEPT !.id = i, !.src = s, !.app = p, !.act = act, !.end = x, !.dur = y]
      PROVE  IsEvent(m)
  <2>1. IsJoin(m, l, i, s, p, act, x, y)
    BY <1>3 DEF IsJoin
  <2>2. QED BY <1>1, <1>3, <2>1, JoinFields
<1>10. Storable(new)
  <2>1. new.app = app
    BY <1>1 DEF IsEvent
  <2>2. Storable(l)
    BY DEF TInv, NotExcluded
  <2>3. l.app # r.app => Len(l.app \o r.app) > 1
    BY <1>1, JoinedName DEF IsEvent
  <2> HIDE DEF new
  <2>4. QED BY <2>1, <2>2, <2>3 DEF Storable, Allowed
<1>4. IsEvent(new)
  <2>1. IsName(app)
    BY <1>1, JoinedName DEF IsEvent
  <2>2. \E p : IsName(p) /\ new = [l EXCEPT !.id = <<"merge", l.id, r.id>>,
                   !.src = <<"join", l.src, r.src>>, !.app = p, !.act = act,
                   !.end = r.end, !.dur = Max({r.end - l.start, 0})]
    BY <2>1
  <2> HIDE DEF app, new
  <2>3. QED BY <1>2, <1>3, <2>2
<1>5. (\A i \in DOMAIN L : L[i] \in Label)
      /\ \A i \in DOMAIN labels \ {l.id, r.id} : i \in DOMAIN L /\ L[i] = labels[i]
  BY <1>1
<1>6. Edit((events \ {l, r}) \cup {new}, L)
  BY DEF Merge
<1>7. IsFiniteSet({new}) /\ {l, r} \in SUBSET {l, r}
  BY FS_Singleton
<1> HIDE DEF new, L
<1>8. \A x \in {new} : IsEvent(x) /\ Storable(x)
  BY <1>4, <1>10
<1>9. QED BY <1>5, <1>6, <1>7, <1>8, EditStep
-----------------------------------------------------------------------------
(* Operations on the whole project.                                        *)

LEMMA ClearStep ==
  ASSUME TInv, Clear
  PROVE  TInv' /\ Untouched
<1>1. IsFiniteSet({}) /\ Commit({}, {}, Nothing) /\ events' = {}
  BY FS_EmptySet DEF Clear, Commit, Candidate
<1>2. /\ done' = Nothing /\ settings' = settings /\ history' \in {0, history}
      /\ settings'.gap \in Gaps /\ settings'.excluded \subseteq App
  BY DEF Clear, TInv, Bounds
<1>3. \A i \in DOMAIN Nothing : Nothing[i] \in Label
  BY DEF Nothing
<1>4. TInv'
  BY <1>1, <1>2, <1>3, EditSound
<1>5. QED BY <1>1, <1>2, <1>4 DEF Untouched, Edits

LEMMA SettingsStep ==
  ASSUME TInv, NEW g \in Gaps, NEW x \in {{}} \cup {{a} : a \in App}, UpdateSettings(g, x)
  PROVE  TInv' /\ Untouched
<1> DEFINE S == {e \in events : e.app \notin x}
<1>1. Commit(S, {}, labels) /\ settings' = [gap |-> g, excluded |-> x] /\ done' = Nothing
  BY DEF UpdateSettings
<1>2. IsFiniteSet(S) /\ S \subseteq events
  BY FS_Subset DEF TInv, RowsSound
<1>3. /\ \A e \in S : IsEvent(e)
      /\ \A e \in S : e.app \notin settings'.excluded \/ Len(e.app) > 1
      /\ \A i \in DOMAIN labels : labels[i] \in Label
  BY <1>1 DEF TInv, RowsSound, LabelsSound
<1>4. settings'.gap \in Gaps /\ settings'.excluded \subseteq App /\ history' \in {0, history}
  BY <1>1 DEF UpdateSettings
<1>5. RowsSound
  BY DEF TInv
<1>6. Keeps(S)
  <2> HIDE DEF S
  <2>1. QED BY <1>1, <1>2, <1>5, CommitKeepsRows
<1>7. S = {e \in events : e.app \notin settings'.excluded}
  BY <1>1
<1>8. settings' = settings => {e \in events : Allowed(e)} = S
  BY <1>1 DEF Allowed
<1>9. Untouched
  <2>1. ASSUME settings' = settings, NEW e \in events
        PROVE  Keeps({y \in events : Allowed(y)} \ {e, e})
    BY <1>6, <1>8, <2>1 DEF Keeps
  <2>2. QED BY <1>1, <1>6, <1>7, <2>1 DEF Untouched, Edits
<1>10. TInv'
  <2> HIDE DEF S
  <2>1. QED BY <1>1, <1>2, <1>3, <1>4, EditSound
<1>11. QED BY <1>9, <1>10

LEMMA ReviewStep ==
  ASSUME TInv, NEW act, NEW status, ReviewAutomation(act, status)
  PROVE  TInv' /\ Untouched
<1>1. /\ Commit(events, {}, labels) /\ done' = Nothing
      /\ settings' = settings /\ history' = history
  BY DEF ReviewAutomation
<1>2. /\ IsFiniteSet(events) /\ \A e \in events : IsEvent(e)
      /\ \A e \in events : e.app \notin settings'.excluded \/ Len(e.app) > 1
      /\ \A i \in DOMAIN labels : labels[i] \in Label
      /\ settings'.gap \in Gaps /\ settings'.excluded \subseteq App
  BY <1>1 DEF TInv, RowsSound, LabelsSound, Bounds, NotExcluded, Storable, Allowed
<1>3. TInv'
  BY <1>1, <1>2, EditSound
<1>4. Keeps(events)
  <2>1. RowsSound /\ events \subseteq events \cap events
    BY DEF TInv
  <2>2. QED BY <1>1, <2>1, CommitKeepsRows
<1>5. ASSUME NEW e \in events
      PROVE  Keeps({x \in events : Allowed(x)} \ {e, e})
  BY <1>4 DEF Keeps
<1>6. QED BY <1>1, <1>3, <1>4, <1>5 DEF Untouched, Edits

LEMMA EditProjectSteps ==
  ASSUME TInv, EditProject
  PROVE  TInv' /\ Untouched
BY ClearStep, SettingsStep, ReviewStep DEF EditProject

LEMMA ObserveStep ==
  ASSUME TInv, NEW b \in Bucket, NEW o \in Observation, Observe(b, o)
  PROVE  TInv' /\ Untouched
<1>1. /\ feed' = [feed EXCEPT ![b] = Append(@, o)] /\ done' = Nothing
      /\ UNCHANGED <<stored, generation, pending, cache, request>>
  BY DEF Observe
<1>2. /\ events' = events /\ labels' = labels /\ settings' = settings /\ last' = last
      /\ history' = history /\ generation' = generation /\ pending' = pending
      /\ cache' = cache /\ request' = request
  BY <1>1 DEF stored
<1>3. FeedSound'
  BY <1>1 DEF TInv, FeedSound
<1>4. RowsSound' /\ NotExcluded' /\ LabelsSound' /\ Bounds' /\ RecentImport'
  BY <1>1, <1>2
     DEF TInv, RowsSound, NotExcluded, Storable, Allowed, LabelsSound, Bounds, RecentImport
<1>5. SnapshotSound'
  BY <1>2 DEF TInv, SnapshotSound
<1>6. Untouched
  BY <1>1, <1>2 DEF Untouched, Edits
<1>7. QED BY <1>3, <1>4, <1>5, <1>6 DEF TInv
-----------------------------------------------------------------------------
(* A request and the cache.                                                *)

LEMMA AskStep ==
  ASSUME Bounds, SnapshotSound, Ask
  PROVE  SnapshotSound'
<1>1. /\ request' = [at |-> "asking", gen |-> generation, events |-> events,
                     gap |-> settings.gap, answer |-> {}]
      /\ ~pending /\ events' = events /\ generation' = generation /\ pending' = pending
      /\ cache' = cache
  BY DEF Ask, Idle, stored
<1>2. generation \in 0 .. generation
  BY TimelineAssumption DEF Bounds
<1>3. QED BY <1>1, <1>2 DEF SnapshotSound

LEMMA LookUpStep ==
  ASSUME SnapshotSound, LookUp
  PROVE  SnapshotSound'
<1>1. /\ events' = events /\ generation' = generation /\ pending' = pending
      /\ cache' = cache /\ request.at = "asking"
  BY DEF LookUp, stored
<1>2. CASE Cached(request) = {}
  <2>1. request' = [at |-> "building", gen |-> request.gen, events |-> request.events,
                    gap |-> request.gap, answer |-> request.events]
    BY <1>2 DEF LookUp, SnapshotSound
  <2>2. QED BY <1>1, <2>1 DEF SnapshotSound
<1>3. CASE Cached(request) # {}
  <2> DEFINE c == CHOOSE c \in Cached(request) : TRUE
  <2>1. c \in Cached(request)
    BY <1>3
  <2>2. c \in cache /\ c.gen = request.gen
    BY <2>1 DEF Cached
  <2>3. c.of = request.events
    BY <1>1, <2>2 DEF SnapshotSound
  <2>4. request' = [at |-> "answered", gen |-> request.gen, events |-> request.events,
                    gap |-> request.gap, answer |-> c.of]
    BY <1>3 DEF LookUp, SnapshotSound
  <2> HIDE DEF c
  <2>5. QED BY <1>1, <2>3, <2>4 DEF SnapshotSound
<1>4. QED BY <1>2, <1>3

LEMMA BuildStep ==
  ASSUME SnapshotSound, Build
  PROVE  SnapshotSound'
<1>1. /\ events' = events /\ generation' = generation /\ pending' = pending
      /\ cache' = cache /\ request.at = "building"
  BY DEF Build, stored
<1>2. request' = [at |-> IF request.gen = generation THEN "keeping" ELSE "answered",
                  gen |-> request.gen, events |-> request.events,
                  gap |-> request.gap, answer |-> request.answer]
  BY DEF Build, SnapshotSound
<1>3. QED BY <1>1, <1>2 DEF SnapshotSound

LEMMA KeepStep ==
  ASSUME SnapshotSound, Keep
  PROVE  SnapshotSound'
<1> DEFINE new == [gen |-> request.gen, gap |-> request.gap, of |-> request.answer]
<1>1. /\ events' = events /\ generation' = generation /\ pending' = pending
      /\ cache' = cache \cup {new} /\ request.at = "keeping"
  BY DEF Keep, stored
<1>2. request' = [at |-> "answered", gen |-> request.gen, events |-> request.events,
                  gap |-> request.gap, answer |-> request.answer]
  BY DEF Keep, SnapshotSound
<1>3. /\ new.gen = request.gen /\ new.of = request.events
      /\ new.gen \in 0 .. generation
      /\ new.gen = generation \/ pending
      /\ new.gen = generation => new.of = events
  BY <1>1 DEF SnapshotSound
<1> HIDE DEF new
<1>4. \A c \in cache' : /\ c.gen \in 0 .. generation
                        /\ c.gen = generation => c.of = events
                        /\ c.gen = generation \/ pending
                        /\ c.gen = request.gen => c.of = request.events
  BY <1>1, <1>3 DEF SnapshotSound
<1>5. QED BY <1>1, <1>2, <1>4 DEF SnapshotSound

LEMMA AnswerStep ==
  ASSUME Bounds, SnapshotSound, Answer
  PROVE  SnapshotSound'
<1>1. /\ request' = [at |-> "idle", gen |-> 0, events |-> {}, gap |-> 0, answer |-> {}]
      /\ events' = events /\ generation' = generation /\ pending' = pending
      /\ cache' = cache
  BY DEF Answer, Idle, stored
<1>2. 0 \in 0 .. generation
  BY TimelineAssumption DEF Bounds
<1>3. QED BY <1>1, <1>2 DEF SnapshotSound

LEMMA InvalidateStep ==
  ASSUME SnapshotSound, Invalidate
  PROVE  SnapshotSound'
BY DEF Invalidate, Locked, SnapshotSound, stored

LEMMA AnalyseSteps ==
  ASSUME TInv, Analyse
  PROVE  TInv' /\ Untouched
<1>1. /\ events' = events /\ labels' = labels /\ settings' = settings /\ last' = last
      /\ history' = history /\ generation' = generation /\ feed' = feed /\ done' = done
  BY DEF Analyse, Ask, LookUp, Build, Keep, Answer, Invalidate, stored
<1>2. pending' \in BOOLEAN
  BY DEF Analyse, Ask, LookUp, Build, Keep, Answer, Invalidate, TInv, Bounds
<1>3. SnapshotSound'
  BY AskStep, LookUpStep, BuildStep, KeepStep, AnswerStep, InvalidateStep DEF Analyse, TInv
<1>4. RowsSound' /\ NotExcluded' /\ LabelsSound' /\ Bounds' /\ FeedSound'
  BY <1>1, <1>2
     DEF TInv, RowsSound, NotExcluded, Storable, Allowed, LabelsSound, Bounds, FeedSound
<1>5. RecentImport'
  BY <1>1 DEF TInv, RecentImport, CurrentDataset, Fingerprint, Minimised, Allowed
<1>6. Untouched
  BY <1>1 DEF Untouched, Edits
<1>7. QED BY <1>3, <1>4, <1>5, <1>6 DEF TInv
-----------------------------------------------------------------------------
(* What an importer hands to the store.                                    *)

(* The rows of an import, minimised and filtered.                          *)
Filtered(F) ==
    /\ DOMAIN F \subseteq Nat /\ IsFiniteSet(DOMAIN F)
    /\ \A i \in DOMAIN F : IsEvent(F[i]) /\ Opaque(F[i]) /\ Allowed(F[i])

LEMMA ParseSound ==
  ASSUME NEW rows, IsFile(rows), NEW source, NEW i \in DOMAIN rows
  PROVE  IsEvent(Parse(source, rows)[i])
<1> DEFINE r == rows[i]
           src == IF r.src = Nothing THEN <<"index", i>> ELSE r.src
           from == Origin(source)
           e == [id |-> <<"row", from, src, r.start, r.act>>,
                 source |-> from, src |-> <<"raw", src>>,
                 case |-> IF r.case = "" THEN <<"unassigned", i>> ELSE <<"name", r.case>>,
                 origin |-> IF r.case = "" THEN "unassigned" ELSE "observed",
                 quality |-> "", act |-> r.act, app |-> r.app,
                 start |-> r.start, end |-> r.end, dur |-> r.dur, idle |-> r.idle,
                 timed |-> TRUE, hidden |-> FALSE]
<1>1. Parse(source, rows)[i] = e
  BY DEF Parse
<1>2. {r.start, r.end, r.dur} \subseteq Nat /\ r.idle \in BOOLEAN /\ IsName(r.app)
  BY DEF IsFile
<1>3. ASSUME NEW x, x = e
      PROVE  IsEvent(x)
  <2>1. x = [id |-> x.id, source |-> x.source, src |-> x.src, case |-> x.case,
             origin |-> x.origin, quality |-> x.quality, act |-> x.act, app |-> x.app,
             start |-> x.start, end |-> x.end, dur |-> x.dur,
             idle |-> x.idle, timed |-> x.timed, hidden |-> x.hidden]
    BY <1>3
  <2>2. /\ {x.start, x.end, x.dur} \subseteq Nat
        /\ {x.idle, x.timed, x.hidden} \subseteq BOOLEAN
    BY <1>2, <1>3
  <2>3. /\ x.origin \in {"observed", "manual", "unassigned"}
        /\ x.quality \in {"", "approved", "unreviewed"}
    BY <1>3
  <2>4. IsName(x.app)
    BY <1>2, <1>3
  <2>5. QED BY <2>1, <2>2, <2>3, <2>4 DEF IsEvent
<1> HIDE DEF e
<1>4. QED BY <1>1, <1>3

LEMMA MinimisedSound ==
  ASSUME NEW rows, IsFile(rows), NEW source
  PROVE  Filtered(Minimised(source, rows))
<1> DEFINE parsed == Parse(source, rows)
           redacted == [i \in DOMAIN parsed |-> Redact(parsed[i], {})]
           F == [i \in {j \in DOMAIN redacted : Allowed(redacted[j])} |-> redacted[i]]
<1>1. Minimised(source, rows) = F
  BY DEF Minimised
<1>2. DOMAIN parsed = DOMAIN rows
  BY DEF Parse
<1>3. \A i \in DOMAIN rows : IsEvent(redacted[i]) /\ Opaque(redacted[i])
  <2>1. ASSUME NEW i \in DOMAIN rows
        PROVE  IsEvent(Redact(parsed[i], {})) /\ Opaque(Redact(parsed[i], {}))
    <3>1. IsEvent(parsed[i])
      BY ParseSound
    <3> HIDE DEF parsed
    <3>2. QED BY <3>1, RedactOpaque
  <2> HIDE DEF parsed
  <2>2. QED BY <1>2, <2>1
<1>4. DOMAIN F \subseteq DOMAIN rows
  BY <1>2
<1>5. \A i \in DOMAIN F : F[i] = redacted[i] /\ Allowed(F[i])
  OBVIOUS
<1>6. DOMAIN rows \subseteq Nat /\ IsFiniteSet(DOMAIN rows)
  BY DEF IsFile
<1> HIDE DEF F, redacted
<1>7. IsFiniteSet(DOMAIN F)
  BY <1>4, <1>6, FS_Subset
<1>8. QED BY <1>1, <1>3, <1>4, <1>5, <1>6, <1>7 DEF Filtered

LEMMA FreshSound ==
  ASSUME NEW F, Filtered(F), NEW fresh \in SUBSET DOMAIN F
  PROVE  Filtered([i \in fresh |-> F[i]])
<1>1. IsFiniteSet(fresh)
  BY FS_Subset DEF Filtered
<1>2. QED BY <1>1 DEF Filtered

(* The rows that come before row i under its identifier, and what becomes  *)
(* of row i.                                                               *)
Earlier(F, i) == {j \in DOMAIN F :
                    /\ F[j].id = F[i].id
                    /\ \/ Precedes(F[j], F[i])
                       \/ ~Precedes(F[i], F[j]) /\ j < i}
Numbered(F, i) ==
    IF Cardinality(Earlier(F, i)) = 0 THEN F[i]
    ELSE [F[i] EXCEPT !.id = <<"stored", F[i].id, Cardinality(Earlier(F, i))>>]

LEMMA UniquifiedRows ==
  ASSUME NEW F
  PROVE  Uniquified(F) = {Numbered(F, i) : i \in DOMAIN F}
BY DEF Uniquified, Numbered, Earlier

LEMMA NumberedFields ==
  ASSUME NEW F, Filtered(F), NEW i \in DOMAIN F, NEW x, x = Numbered(F, i)
  PROVE  /\ IsEvent(x)
         /\ x.id = IF Cardinality(Earlier(F, i)) = 0 THEN F[i].id
                   ELSE <<"stored", F[i].id, Cardinality(Earlier(F, i))>>
         /\ x.source = F[i].source /\ x.src = F[i].src /\ x.case = F[i].case
         /\ x.origin = F[i].origin /\ x.quality = F[i].quality /\ x.act = F[i].act
         /\ x.app = F[i].app /\ x.start = F[i].start /\ x.end = F[i].end
         /\ x.dur = F[i].dur /\ x.idle = F[i].idle /\ x.timed = F[i].timed
         /\ x.hidden = F[i].hidden
<1> DEFINE e == F[i]
           n == Cardinality(Earlier(F, i))
<1>1. IsEvent(e)
  BY DEF Filtered
<1>2. x = IF n = 0 THEN e ELSE [e EXCEPT !.id = <<"stored", e.id, n>>]
  BY DEF Numbered
<1> HIDE DEF e, n
<1>3. x = [id |-> IF n = 0 THEN e.id ELSE <<"stored", e.id, n>>, source |-> e.source,
           src |-> e.src, case |-> e.case, origin |-> e.origin, quality |-> e.quality,
           act |-> e.act, app |-> e.app, start |-> e.start, end |-> e.end, dur |-> e.dur,
           idle |-> e.idle, timed |-> e.timed, hidden |-> e.hidden]
  BY <1>1, <1>2 DEF IsEvent
<1>4. /\ x.id = IF n = 0 THEN e.id ELSE <<"stored", e.id, n>>
      /\ x.source = e.source /\ x.src = e.src /\ x.case = e.case
      /\ x.origin = e.origin /\ x.quality = e.quality /\ x.act = e.act
      /\ x.app = e.app /\ x.start = e.start /\ x.end = e.end /\ x.dur = e.dur
      /\ x.idle = e.idle /\ x.timed = e.timed /\ x.hidden = e.hidden
  BY <1>3
<1>5. x = [id |-> x.id, source |-> x.source, src |-> x.src, case |-> x.case,
           origin |-> x.origin, quality |-> x.quality, act |-> x.act, app |-> x.app,
           start |-> x.start, end |-> x.end, dur |-> x.dur,
           idle |-> x.idle, timed |-> x.timed, hidden |-> x.hidden]
  BY <1>3
<1>6. IsEvent(x)
  BY <1>1, <1>4, <1>5 DEF IsEvent
<1>7. QED BY <1>4, <1>6 DEF e, n

LEMMA UniquifiedSound ==
  ASSUME NEW F, Filtered(F)
  PROVE  /\ IsFiniteSet(Uniquified(F))
         /\ \A e \in Uniquified(F) : IsEvent(e) /\ Allowed(e)
<1> DEFINE f == [i \in DOMAIN F |-> Numbered(F, i)]
<1>1. f \in Surjection(DOMAIN F, Uniquified(F))
  BY UniquifiedRows DEF Surjection
<1> HIDE DEF f
<1>2. IsFiniteSet(Uniquified(F))
  BY <1>1, FS_Surjection DEF Filtered
<1>3. ASSUME NEW i \in DOMAIN F
      PROVE  IsEvent(Numbered(F, i)) /\ Numbered(F, i).app = F[i].app
  <2>1. PICK x : x = Numbered(F, i)
    OBVIOUS
  <2>2. IsEvent(x) /\ x.app = F[i].app
    <3>1. IsEvent(x)
      BY <2>1, NumberedFields
    <3>2. IsEvent(F[i])
      BY DEF Filtered
    <3>3. x.app = F[i].app
      BY <2>1, <3>2 DEF Numbered, IsEvent
    <3>4. QED BY <3>1, <3>3
  <2>3. QED BY <2>1, <2>2
<1>4. QED BY <1>2, <1>3, UniquifiedRows DEF Filtered, Allowed

(* Of two rows with one identifier the earlier one counts fewer.           *)
LEMMA EarlierGrows ==
  ASSUME NEW F, Filtered(F), NEW i \in DOMAIN F, NEW j \in DOMAIN F, i # j,
         F[i].id = F[j].id
  PROVE  Cardinality(Earlier(F, i)) # Cardinality(Earlier(F, j))
<1> DEFINE Less(x, y) == \/ Precedes(F[x], F[y])
                         \/ ~Precedes(F[y], F[x]) /\ x < y
<1>1. \A x \in DOMAIN F : /\ x \in Nat /\ F[x].start \in Nat /\ F[x].end \in Nat
  BY DEF Filtered, IsEvent
<1>2. \A x \in DOMAIN F : ~Less(x, x)
  BY <1>1 DEF Precedes
<1>3. \A x, y, z \in DOMAIN F : Less(x, y) /\ Less(y, z) => Less(x, z)
  BY <1>1 DEF Precedes
<1>4. Less(i, j) \/ Less(j, i)
  BY <1>1 DEF Precedes
<1>5. \A x, y \in DOMAIN F : x \in Earlier(F, y) <=> F[x].id = F[y].id /\ Less(x, y)
  BY DEF Earlier
<1>6. \A x \in DOMAIN F : Earlier(F, x) \subseteq DOMAIN F
  BY DEF Earlier
<1> HIDE DEF Less
<1>7. ASSUME NEW x \in DOMAIN F, NEW y \in DOMAIN F, F[x].id = F[y].id, Less(x, y)
      PROVE  Cardinality(Earlier(F, x)) # Cardinality(Earlier(F, y))
  <2>1. Earlier(F, x) \in SUBSET Earlier(F, y)
    BY <1>3, <1>5, <1>6, <1>7
  <2>2. x \in Earlier(F, y) /\ x \notin Earlier(F, x)
    BY <1>2, <1>5, <1>7
  <2>3. IsFiniteSet(Earlier(F, y))
    BY <1>6, FS_Subset DEF Filtered
  <2>4. QED BY <2>1, <2>2, <2>3, FS_Subset
<1>8. QED BY <1>4, <1>7

LEMMA DistinctNumbers ==
  ASSUME NEW F, Filtered(F), NEW i \in DOMAIN F, NEW j \in DOMAIN F, i # j
  PROVE  Numbered(F, i).id # Numbered(F, j).id
<1> DEFINE a == F[i].id
           b == F[j].id
           p == Cardinality(Earlier(F, i))
           q == Cardinality(Earlier(F, j))
<1>1. Numbered(F, i).id = IF p = 0 THEN a ELSE <<"stored", a, p>>
  BY NumberedFields
<1>2. Numbered(F, j).id = IF q = 0 THEN b ELSE <<"stored", b, q>>
  BY NumberedFields
<1>3. a = b => p # q
  BY EarlierGrows
<1>4. a[1] = "evt" /\ b[1] = "evt"
  BY DEF Filtered, Opaque
<1> HIDE DEF a, b, p, q
<1>5. a # <<"stored", b, q>> /\ b # <<"stored", a, p>>
  BY <1>4
<1>6. (IF p = 0 THEN a ELSE <<"stored", a, p>>) # (IF q = 0 THEN b ELSE <<"stored", b, q>>)
  <2>1. CASE p = 0 /\ q = 0
    BY <1>3, <2>1
  <2>2. CASE p = 0 /\ q # 0
    BY <1>5, <2>2
  <2>3. CASE p # 0 /\ q = 0
    BY <1>5, <2>3
  <2>4. CASE p # 0 /\ q # 0
    BY <1>3, <2>4
  <2>5. QED BY <2>1, <2>2, <2>3, <2>4
<1>7. QED BY <1>1, <1>2, <1>6
-----------------------------------------------------------------------------
(* An import and its retry.                                                *)

LEMMA ContentFields ==
  ASSUME NEW e, IsEvent(e)
  PROVE  Content(e) =
           [id |-> "", source |-> e.source, src |-> e.src, case |-> e.case,
            origin |-> e.origin, quality |-> e.quality, act |-> e.act, app |-> e.app,
            start |-> e.start, end |-> e.end, dur |-> e.dur,
            idle |-> e.idle, timed |-> e.timed, hidden |-> e.hidden]
<1>1. e = [id |-> e.id, source |-> e.source, src |-> e.src, case |-> e.case,
           origin |-> e.origin, quality |-> e.quality, act |-> e.act, app |-> e.app,
           start |-> e.start, end |-> e.end, dur |-> e.dur,
           idle |-> e.idle, timed |-> e.timed, hidden |-> e.hidden]
  BY DEF IsEvent
<1>2. DOMAIN e = {"id", "source", "src", "case", "origin", "quality", "act", "app",
                  "start", "end", "dur", "idle", "timed", "hidden"}
  BY <1>1
<1>3. Content(e) = [k \in DOMAIN e |-> IF k = "id" THEN "" ELSE e[k]]
  BY <1>1 DEF Content
<1>4. QED BY <1>2, <1>3

LEMMA SameContent ==
  ASSUME NEW e, IsEvent(e), NEW f, IsEvent(f),
         e.source = f.source, e.src = f.src, e.case = f.case, e.origin = f.origin,
         e.quality = f.quality, e.act = f.act, e.app = f.app, e.start = f.start,
         e.end = f.end, e.dur = f.dur, e.idle = f.idle, e.timed = f.timed,
         e.hidden = f.hidden
  PROVE  Content(e) = Content(f)
BY ContentFields

(* What is stored of a row has the content of the row.                     *)
LEMMA StoredContent ==
  ASSUME NEW F, Filtered(F), NEW i \in DOMAIN F, NEW T,
         References(Uniquified(F)) \subseteq T
  PROVE  Content(Redact(Numbered(F, i), T)) = Content(F[i])
<1>1. PICK x : x = Numbered(F, i)
  OBVIOUS
<1>2. PICK r : r = Redact(x, T)
  OBVIOUS
<1>3. PICK e : e = F[i]
  OBVIOUS
<1>4. IsEvent(e) /\ Opaque(e)
  BY <1>3 DEF Filtered
<1>5. IsEvent(x)
  BY <1>1, NumberedFields
<1>6. x = IF Cardinality(Earlier(F, i)) = 0 THEN e
          ELSE [e EXCEPT !.id = <<"stored", e.id, Cardinality(Earlier(F, i))>>]
  BY <1>1, <1>3 DEF Numbered
<1>7. /\ x.source = e.source /\ x.src = e.src /\ x.case = e.case
      /\ x.origin = e.origin /\ x.quality = e.quality /\ x.act = e.act
      /\ x.app = e.app /\ x.start = e.start /\ x.end = e.end
      /\ x.dur = e.dur /\ x.idle = e.idle /\ x.timed = e.timed /\ x.hidden = e.hidden
  BY <1>4, <1>6 DEF IsEvent
<1>8. x.case \in T /\ x.src \in T
  <2>1. x \in Uniquified(F)
    BY <1>1, UniquifiedRows
  <2>2. {x.id, x.case, x.src} \subseteq References(Uniquified(F))
    BY <2>1, OwnReferences
  <2>3. QED BY <2>2
<1>9. /\ r.case = x.case /\ r.src = x.src /\ r.act = x.act
  <2>1. /\ r.case = Reference("case", x.case, T) /\ r.src = Reference("source", x.src, T)
        /\ r.act = IF x.hidden THEN Unlabeled ELSE x.act
    BY <1>2, <1>5, RedactFields
  <2>2. x.case[1] = "case" /\ x.src[1] = "source" /\ (x.hidden => x.act = Unlabeled)
    BY <1>4, <1>7 DEF Opaque
  <2>3. QED BY <1>8, <2>1, <2>2 DEF Reference
<1>10. /\ IsEvent(r) /\ r.source = x.source /\ r.origin = x.origin
       /\ r.quality = x.quality /\ r.app = x.app /\ r.start = x.start /\ r.end = x.end
       /\ r.dur = x.dur /\ r.idle = x.idle /\ r.timed = x.timed /\ r.hidden = x.hidden
  BY <1>2, <1>5, RedactFields
<1>11. Content(r) = Content(e)
  BY <1>4, <1>7, <1>9, <1>10, SameContent
<1>12. QED BY <1>1, <1>2, <1>3, <1>11

(* A replacing import stores as many rows of each content as it read.      *)
LEMMA ReplacedDataset ==
  ASSUME NEW F, Filtered(F), Commit(Uniquified(F), Uniquified(F), Nothing)
  PROVE  CurrentDataset' = Dataset(F)
<1> DEFINE U == Uniquified(F)
           T == References(events \cup U)
           g == [i \in DOMAIN F |-> Redact(Numbered(F, i), T)]
           Having(c) == {i \in DOMAIN F : Content(F[i]) = c}
           Holding(c) == {e \in events' : Content(e) = c}
<1>1. /\ events' = Candidate(U, U)
      /\ Cardinality({e.id : e \in Candidate(U, U)}) = Cardinality(U)
  BY DEF Commit
<1>2. events' = {Redact(x, T) : x \in U}
  BY <1>1 DEF Candidate
<1>3. events' = {g[i] : i \in DOMAIN F}
  BY <1>2, UniquifiedRows
<1>4. \A i, j \in DOMAIN F : g[i] = g[j] => i = j
  <2>1. \A x, y \in U : Redact(x, T).id = Redact(y, T).id => x = y
    <3>1. IsFiniteSet(U)
      BY UniquifiedSound
    <3>2. QED BY <1>1, <3>1, OneRowPerIdentifier
  <2>2. \A i \in DOMAIN F : Numbered(F, i) \in U
    BY UniquifiedRows
  <2>3. \A i, j \in DOMAIN F : i # j => Numbered(F, i).id # Numbered(F, j).id
    BY DistinctNumbers
  <2> HIDE DEF U, T
  <2>4. QED BY <2>1, <2>2, <2>3
<1>5. \A i \in DOMAIN F : Content(g[i]) = Content(F[i])
  <2>1. References(U) \subseteq T
    BY DEF References
  <2> HIDE DEF T
  <2>2. \A i \in DOMAIN F : Content(Redact(Numbered(F, i), T)) = Content(F[i])
    BY <2>1, StoredContent
  <2>3. QED BY <2>2
<1>6. DOMAIN g = DOMAIN F
  OBVIOUS
<1> HIDE DEF g, T, U
<1>7. ASSUME NEW c
      PROVE  Cardinality(Holding(c)) = Cardinality(Having(c))
  <2> DEFINE h == [i \in Having(c) |-> g[i]]
             A == Having(c)
             B == Holding(c)
  <2>1. h \in [A -> B]
    BY <1>3, <1>5
  <2>2. \A i, j \in A : h[i] = h[j] => i = j
    BY <1>4
  <2>3. \A e \in B : \E i \in A : h[i] = e
    BY <1>3, <1>5
  <2>4. IsFiniteSet(A)
    BY FS_Subset DEF Filtered
  <2> HIDE DEF h, A, B
  <2>5. h \in Bijection(A, B)
    BY <2>1, <2>2, <2>3 DEF Bijection, Injection, Surjection, IsInjective
  <2>6. Cardinality(B) = Cardinality(A)
    BY <2>4, <2>5, FS_Bijection DEF ExistsBijection
  <2>7. QED BY <2>6 DEF A, B
<1>8. {Content(e) : e \in events'} = {Content(F[i]) : i \in DOMAIN F}
  BY <1>3, <1>5
<1>9. CurrentDataset' = [c \in {Content(e) : e \in events'} |-> Cardinality(Holding(c))]
  BY DEF CurrentDataset, Dataset
<1>10. Dataset(F) = [c \in {Content(F[i]) : i \in DOMAIN F} |-> Cardinality(Having(c))]
  BY DEF Dataset
<1> HIDE DEF Having, Holding
<1>11. QED BY <1>7, <1>8, <1>9, <1>10
LEMMA ImportSound ==
  ASSUME TInv, NEW S, IsFiniteSet(S), \A e \in S : IsEvent(e) /\ Storable(e), NEW m,
         NEW L, \A i \in DOMAIN L : L[i] \in Label, Commit(S, m, L),
         settings' = settings, history' = history + 1
  PROVE  RowsSound' /\ NotExcluded' /\ LabelsSound' /\ Bounds' /\ FeedSound' /\ SnapshotSound'
<1>1. RowsSound' /\ LabelsSound' /\ SnapshotSound'
  BY CommitSound, CommitSnapshot DEF TInv
<1>2. NotExcluded'
  <2>1. \A e \in S : e.app \notin settings'.excluded \/ Len(e.app) > 1
    BY DEF Storable, Allowed
  <2>2. QED BY <2>1, CommitAllowed
<1>3. Bounds'
  <2>1. generation' = generation + 1 /\ generation' \in 0 .. MaxEdits
    BY CommitSnapshot DEF TInv
  <2>2. pending' \in BOOLEAN
    BY DEF Commit
  <2>3. history' \in 0 .. generation'
    BY <2>1, TimelineAssumption DEF TInv, Bounds
  <2>4. QED BY <2>1, <2>2, <2>3 DEF TInv, Bounds
<1>4. FeedSound'
  BY DEF TInv, FeedSound, Commit
<1>5. QED BY <1>1, <1>2, <1>3, <1>4

(* The import just made, made again.                                       *)
Repeated == done # Nothing /\ done' = done => stored' = stored

(* What holds when an import finds nothing to do.                          *)
LEMMA NothingToDo ==
  ASSUME TInv, UNCHANGED <<stored, generation, pending, cache, request, feed>>,
         RecentImport'
  PROVE  TInv' /\ Untouched /\ Repeated
<1>1. /\ events' = events /\ labels' = labels /\ settings' = settings
      /\ history' = history /\ generation' = generation /\ pending' = pending
      /\ cache' = cache /\ request' = request /\ feed' = feed /\ stored' = stored
  BY DEF stored
<1>2. RowsSound' /\ NotExcluded' /\ LabelsSound' /\ Bounds' /\ FeedSound'
  BY <1>1 DEF TInv, RowsSound, NotExcluded, Storable, Allowed, LabelsSound, Bounds, FeedSound
<1>3. SnapshotSound'
  BY <1>1 DEF TInv, SnapshotSound
<1>4. Untouched
  BY <1>1 DEF Untouched, Edits
<1>5. QED BY <1>1, <1>2, <1>3, <1>4 DEF TInv, Repeated

LEMMA ReplaceStep ==
  ASSUME TInv, NEW source, NEW rows, IsFile(rows), Replace(source, rows)
  PROVE  TInv' /\ Untouched /\ Repeated
<1> DEFINE F == Minimised(source, rows)
           new == Uniquified(F)
           key == Fingerprint(source, F)
<1>1. Filtered(F)
  BY MinimisedSound
<1>2. done' = <<"replace", source, rows>>
  BY DEF Replace
<1>3. ASSUME settings' = settings, last' = key, CurrentDataset' = Dataset(F)
      PROVE  RecentImport'
  <2>1. done'[1] = "replace" /\ done'[2] = source /\ done'[3] = rows
    BY <1>2
  <2>2. Minimised(done[2], done[3])' = F
    BY <1>3, <2>1 DEF Minimised, Allowed
  <2>3. Fingerprint(done[2], Minimised(done[2], done[3]))' = key
    BY <2>1, <2>2 DEF Fingerprint
  <2>4. Dataset(Minimised(done[2], done[3]))' = Dataset(F)
    BY <2>2 DEF Dataset
  <2> HIDE DEF F, key
  <2>5. QED BY <1>3, <2>3, <2>4 DEF RecentImport
<1>4. CASE last = key /\ CurrentDataset = Dataset(F)
  <2>1. UNCHANGED <<stored, generation, pending, cache, request, feed>>
    BY <1>4 DEF Replace
  <2>2. settings' = settings /\ last' = last /\ CurrentDataset' = CurrentDataset
    BY <2>1 DEF stored, CurrentDataset, Dataset
  <2> HIDE DEF F, key
  <2>3. RecentImport'
    BY <1>3, <1>4, <2>2
  <2>4. QED BY <2>1, <2>3, NothingToDo
<1>5. CASE ~(last = key /\ CurrentDataset = Dataset(F))
  <2>1. /\ Commit(new, new, Nothing) /\ last' = key /\ history' = history + 1
        /\ settings' = settings
    BY <1>5 DEF Replace
  <2>2. CurrentDataset' = Dataset(F)
    <3> HIDE DEF F
    <3>1. QED BY <1>1, <2>1, ReplacedDataset DEF new
  <2>3. RecentImport'
    <3> HIDE DEF F, key
    <3>1. QED BY <1>3, <2>1, <2>2
  <2>4. IsFiniteSet(new) /\ \A e \in new : IsEvent(e) /\ Storable(e)
    <3> HIDE DEF F
    <3>1. QED BY <1>1, UniquifiedSound DEF Storable
  <2>5. \A i \in DOMAIN Nothing : Nothing[i] \in Label
    BY DEF Nothing
  <2>6. history' # history
    BY <2>1, TimelineAssumption DEF TInv, Bounds
  <2>7. Untouched
    BY <1>2, <2>1, <2>6 DEF Untouched, Edits
  <2>8. Repeated
    <3>1. ASSUME done # Nothing, done' = done
          PROVE  FALSE
      <4>1. done[1] = "replace" /\ done[2] = source /\ done[3] = rows
        BY <1>2, <3>1
      <4>2. last = Fingerprint(source, F) /\ CurrentDataset = Dataset(F)
        BY <3>1, <4>1 DEF TInv, RecentImport
      <4>3. QED BY <1>5, <4>2
    <3>2. QED BY <3>1 DEF Repeated
  <2> HIDE DEF F, new, key
  <2>9. RowsSound' /\ NotExcluded' /\ LabelsSound' /\ Bounds' /\ FeedSound' /\ SnapshotSound'
    BY <2>1, <2>4, <2>5, ImportSound
  <2>10. QED BY <2>3, <2>7, <2>8, <2>9 DEF TInv
<1>6. QED BY <1>4, <1>5

LEMMA AppendStep ==
  ASSUME TInv, NEW source, NEW rows, IsFile(rows), AppendRows(source, rows)
  PROVE  TInv' /\ Untouched /\ Repeated
<1> DEFINE F == Minimised(source, rows)
           fresh == {i \in DOMAIN F : \A e \in events : e.id # F[i].id}
           new == Uniquified([i \in fresh |-> F[i]])
           key == Fingerprint(source, F)
<1>1. Filtered(F)
  BY MinimisedSound
<1>2. done' = <<"append", source, rows>>
  BY DEF AppendRows
<1>3. ASSUME settings' = settings, last' = key
      PROVE  RecentImport'
  <2>1. done'[1] = "append" /\ done'[2] = source /\ done'[3] = rows
    BY <1>2
  <2>2. Minimised(done[2], done[3])' = F
    BY <1>3, <2>1 DEF Minimised, Allowed
  <2>3. Fingerprint(done[2], Minimised(done[2], done[3]))' = key
    BY <2>1, <2>2 DEF Fingerprint
  <2> HIDE DEF F, key
  <2>4. QED BY <1>3, <2>1, <2>3 DEF RecentImport
<1>4. CASE last = key
  <2>1. UNCHANGED <<stored, generation, pending, cache, request, feed>>
    BY <1>4 DEF AppendRows
  <2>2. settings' = settings /\ last' = last
    BY <2>1 DEF stored
  <2> HIDE DEF key
  <2>3. RecentImport'
    BY <1>3, <1>4, <2>2
  <2>4. QED BY <2>1, <2>3, NothingToDo
<1>5. CASE last # key
  <2>1. /\ Commit(events \cup new, new, labels) /\ last' = key /\ history' = history + 1
        /\ settings' = settings
    BY <1>5 DEF AppendRows
  <2>2. RecentImport'
    <3> HIDE DEF key
    <3>1. QED BY <1>3, <2>1
  <2>3. IsFiniteSet(new) /\ \A e \in new : IsEvent(e) /\ Storable(e)
    <3>1. fresh \in SUBSET DOMAIN F
      OBVIOUS
    <3> HIDE DEF F, fresh
    <3>2. Filtered([i \in fresh |-> F[i]])
      BY <1>1, <3>1, FreshSound
    <3>3. QED BY <3>2, UniquifiedSound DEF Storable
  <2>4. /\ RowsSound /\ IsFiniteSet(events)
        /\ \A e \in events : IsEvent(e) /\ Storable(e)
        /\ \A i \in DOMAIN labels : labels[i] \in Label
    BY DEF TInv, RowsSound, NotExcluded, LabelsSound
  <2>5. history' # history
    BY <2>1, TimelineAssumption DEF TInv, Bounds
  <2>6. Repeated
    <3>1. ASSUME done # Nothing, done' = done
          PROVE  FALSE
      <4>1. done[2] = source /\ done[3] = rows
        BY <1>2, <3>1
      <4>2. last = Fingerprint(source, F)
        BY <3>1, <4>1 DEF TInv, RecentImport
      <4>3. QED BY <1>5, <4>2
    <3>2. QED BY <3>1 DEF Repeated
  <2> DEFINE S == events \cup new
  <2> HIDE DEF F, fresh, new, key
  <2>7. IsFiniteSet(S) /\ (\A e \in S : IsEvent(e) /\ Storable(e)) /\ events \subseteq S \cap events
    BY <2>3, <2>4, FS_Union
  <2>8. Commit(S, new, labels)
    BY <2>1
  <2> HIDE DEF S
  <2>9. Keeps(events)
    BY <2>4, <2>7, <2>8, CommitKeepsRows
  <2>10. Untouched
    BY <2>1, <2>5, <2>9 DEF Untouched, Edits
  <2>11. RowsSound' /\ NotExcluded' /\ LabelsSound' /\ Bounds' /\ FeedSound' /\ SnapshotSound'
    BY <2>1, <2>4, <2>7, <2>8, ImportSound
  <2>12. QED BY <2>2, <2>6, <2>10, <2>11 DEF TInv
<1>6. QED BY <1>4, <1>5
-----------------------------------------------------------------------------
(* The export of the ActivityWatch server numbers every observation once.  *)

(* What an observation comes after, itself included.                       *)
Upto(x) == {y \in Observed : y[1] < x[1] \/ (y[1] = x[1] /\ y[2] =< x[2])}

LEMMA ObservedSound ==
  ASSUME FeedSound
  PROVE  /\ IsFiniteSet(Observed)
         /\ \A x \in Observed : /\ x = <<x[1], x[2]>> /\ x[1] \in Nat /\ x[2] \in Nat
                                /\ feed[x[1]][x[2]] \in Observation
<1>1. ASSUME NEW b \in Bucket
      PROVE  /\ DOMAIN feed[b] = 1 .. Len(feed[b]) /\ Len(feed[b]) \in Nat
             /\ \A n \in DOMAIN feed[b] : feed[b][n] \in Observation
             /\ IsFiniteSet({b} \X DOMAIN feed[b])
  <2>1. feed[b] \in Seq(Observation)
    BY DEF FeedSound
  <2>2. DOMAIN feed[b] = 1 .. Len(feed[b]) /\ Len(feed[b]) \in Nat
    BY <2>1, LenProperties
  <2>3. \A n \in DOMAIN feed[b] : feed[b][n] \in Observation
    BY <2>1, <2>2, ElementOfSeq
  <2>4. IsFiniteSet(1 .. Len(feed[b])) /\ IsFiniteSet({b})
    <3>1. IsFiniteSet(1 .. Len(feed[b]))
      BY <2>2, FS_Interval
    <3>2. IsFiniteSet({b})
      BY FS_Singleton
    <3>3. QED BY <3>1, <3>2
  <2>5. IsFiniteSet({b} \X DOMAIN feed[b])
    BY <2>2, <2>4, FS_Product
  <2>6. QED BY <2>2, <2>3, <2>5
<1>2. IsFiniteSet(Observed)
  <2> DEFINE part == [b \in Bucket |-> {b} \X DOMAIN feed[b]]
             parts == {{b} \X DOMAIN feed[b] : b \in Bucket}
  <2>1. part \in Surjection(Bucket, parts)
    BY DEF Surjection
  <2>2. \A p \in parts : IsFiniteSet(p)
    BY <1>1
  <2>3. Observed = UNION parts
    BY DEF Observed
  <2> HIDE DEF part, parts
  <2>4. IsFiniteSet(parts)
    BY <2>1, FS_Surjection, TimelineAssumption
  <2>5. QED BY <2>2, <2>3, <2>4, FS_UNION
<1>3. ASSUME NEW x \in Observed
      PROVE  /\ x = <<x[1], x[2]>> /\ x[1] \in Nat /\ x[2] \in Nat
             /\ feed[x[1]][x[2]] \in Observation
  <2>1. PICK b \in Bucket : x \in {b} \X DOMAIN feed[b]
    BY DEF Observed
  <2>2. x = <<x[1], x[2]>> /\ x[1] = b /\ x[2] \in DOMAIN feed[b]
    BY <2>1
  <2>3. x[2] \in Nat
    BY <1>1, <2>2
  <2>4. QED BY <1>1, <2>2, <2>3, TimelineAssumption
<1>4. QED BY <1>2, <1>3

LEMMA NumberOnto ==
  ASSUME FeedSound, NEW i \in 1 .. Cardinality(Observed)
  PROVE  \E x \in Observed : Number(x) = i
<1> DEFINE n == Cardinality(Observed)
           f == [x \in Observed |-> Number(x)]
<1>1. /\ IsFiniteSet(Observed)
      /\ \A x \in Observed : x = <<x[1], x[2]>> /\ x[1] \in Nat /\ x[2] \in Nat
  BY ObservedSound
<1>2. \A x \in Observed : Number(x) = Cardinality(Upto(x)) /\ Upto(x) \subseteq Observed
  BY DEF Number, Upto
<1>3. \A x \in Observed : x \in Upto(x) /\ IsFiniteSet(Upto(x))
  <2>1. \A x \in Observed : x \in Upto(x)
    BY <1>1 DEF Upto
  <2>2. QED BY <1>1, <1>2, <2>1, FS_Subset
<1>4. n \in Nat
  BY <1>1, FS_CardinalityType
<1>5. \A x \in Observed : Number(x) \in 1 .. n
  <2>1. ASSUME NEW x \in Observed
        PROVE  Number(x) \in 1 .. n
    <3>1. Cardinality(Upto(x)) =< n /\ Cardinality(Upto(x)) \in Nat
      BY <1>1, <1>2, <1>3, FS_Subset, FS_CardinalityType
    <3>2. Cardinality(Upto(x)) # 0
      BY <1>3, FS_EmptySet
    <3>3. QED BY <1>2, <1>4, <3>1, <3>2
  <2>2. QED BY <2>1
<1>6. \A x, y \in Observed : Number(x) = Number(y) => x = y
  <2>1. ASSUME NEW x \in Observed, NEW y \in Observed,
               x[1] < y[1] \/ (x[1] = y[1] /\ x[2] < y[2])
        PROVE  Number(x) # Number(y)
    <3>1. Upto(x) \in SUBSET Upto(y)
      BY <1>1, <2>1 DEF Upto
    <3>2. y \in Upto(y) /\ y \notin Upto(x)
      BY <1>1, <2>1 DEF Upto
    <3>3. QED BY <1>2, <1>3, <3>1, <3>2, FS_Subset
  <2>2. \A x, y \in Observed :
           \/ x = y
           \/ x[1] < y[1] \/ (x[1] = y[1] /\ x[2] < y[2])
           \/ y[1] < x[1] \/ (y[1] = x[1] /\ y[2] < x[2])
    BY <1>1
  <2>3. QED BY <2>1, <2>2
<1>7. f \in Injection(Observed, 1 .. n)
  BY <1>5, <1>6 DEF Injection, IsInjective
<1>8. f \in Surjection(Observed, 1 .. n)
  <2>1. IsFiniteSet(1 .. n) /\ Cardinality(1 .. n) = n
    BY <1>4, FS_Interval
  <2> HIDE DEF f
  <2>2. QED BY <1>7, <2>1, FS_Injection
<1>9. QED BY <1>8 DEF Surjection

LEMMA ExportSound ==
  ASSUME FeedSound
  PROVE  IsFile(Export)
<1> DEFINE n == Cardinality(Observed)
<1>1. n \in Nat /\ IsFiniteSet(1 .. n)
  BY ObservedSound, FS_CardinalityType, FS_Interval
<1>2. DOMAIN Export = 1 .. n
  BY DEF Export
<1>3. ASSUME NEW i \in 1 .. n
      PROVE  /\ {Export[i].start, Export[i].end, Export[i].dur} \subseteq Nat
             /\ Export[i].idle \in BOOLEAN /\ IsName(Export[i].app)
  <2> DEFINE x == CHOOSE y \in Observed : Number(y) = i
             o == feed[x[1]][x[2]]
  <2>1. x \in Observed
    BY NumberOnto
  <2>2. Export[i] = [src |-> <<"aw", x[1], i>>, case |-> "", act |-> o.app, app |-> o.app,
                     start |-> o.start, end |-> o.end, dur |-> o.end - o.start,
                     idle |-> o.idle]
    BY DEF Export
  <2>3. o \in Observation
    <3> HIDE DEF x
    <3>1. QED BY <2>1, ObservedSound
  <2> HIDE DEF o
  <2>4. /\ o.start \in Nat /\ o.end \in Nat /\ o.end - o.start \in Nat
        /\ o.idle \in BOOLEAN /\ IsName(o.app)
    BY <2>3, TimelineAssumption
  <2> HIDE DEF x
  <2> DEFINE r == Export[i]
  <2> HIDE DEF r
  <2>5. r = [src |-> <<"aw", x[1], i>>, case |-> "", act |-> o.app, app |-> o.app,
             start |-> o.start, end |-> o.end, dur |-> o.end - o.start, idle |-> o.idle]
    BY <2>2 DEF r
  <2>6. {r.start, r.end, r.dur} \subseteq Nat
    BY <2>4, <2>5
  <2>7. r.idle = o.idle
    BY <2>5, Zenon
  <2>8. r.app = o.app
    BY <2>5
  <2>9. r.idle \in BOOLEAN /\ IsName(r.app)
    BY <2>4, <2>7, <2>8, Zenon
  <2>10. QED BY <2>6, <2>9 DEF r
<1>4. QED BY <1>1, <1>2, <1>3 DEF IsFile
-----------------------------------------------------------------------------
LEMMA ImportSteps ==
  ASSUME TInv, Import
  PROVE  TInv' /\ Untouched /\ Repeated
<1>1. IsFile(Export)
  BY ExportSound DEF TInv
<1>2. CASE \E rows \in Files : ImportFile(rows)
  BY <1>2, ReplaceStep, TimelineAssumption DEF ImportFile
<1>3. CASE \E mode \in Modes : ImportActivityWatch(mode)
  BY <1>1, <1>3, ReplaceStep, AppendStep DEF ImportActivityWatch
<1>4. QED BY <1>2, <1>3 DEF Import

LEMMA SplitEventSteps ==
  ASSUME TInv, SplitEvent
  PROVE  TInv' /\ Untouched
BY SplitSteps DEF SplitEvent

LEMMA MergeEventsSteps ==
  ASSUME TInv, MergeEvents
  PROVE  TInv' /\ Untouched
BY MergeSteps DEF MergeEvents

LEMMA Established == Init => TInv
<1> SUFFICES ASSUME Init
             PROVE  TInv
  OBVIOUS
<1>1. /\ events \in Stored /\ labels = Nothing /\ history = 0 /\ generation = 0
      /\ pending = FALSE /\ cache = {} /\ request = Idle /\ done = Nothing
      /\ feed = [b \in Bucket |-> <<>>]
      /\ \E g \in Gaps : settings = [gap |-> g, excluded |-> {}]
  BY DEF Init
<1>2. RowsSound
  BY <1>1, TimelineAssumption DEF RowsSound
<1>3. NotExcluded
  BY <1>1 DEF NotExcluded, Storable, Allowed
<1>4. LabelsSound
  BY <1>1 DEF LabelsSound, Nothing
<1>5. Bounds
  <2>1. settings.gap \in Gaps /\ settings.excluded \subseteq App
    BY <1>1
  <2>2. 0 \in 0 .. MaxEdits /\ 0 \in 0 .. 0
    BY TimelineAssumption
  <2>3. QED BY <1>1, <2>1, <2>2 DEF Bounds
<1>6. FeedSound
  <2>1. <<>> \in Seq(Observation)
    BY EmptySeq
  <2>2. QED BY <1>1, <2>1 DEF FeedSound
<1>7. SnapshotSound
  BY <1>1 DEF SnapshotSound, Idle
<1>8. RecentImport
  BY <1>1 DEF RecentImport
<1>9. QED BY <1>2, <1>3, <1>4, <1>5, <1>6, <1>7, <1>8 DEF TInv

LEMMA Preserved ==
  ASSUME TInv, [Next]_vars
  PROVE  TInv' /\ (Untouched \/ UNCHANGED vars) /\ Repeated
<1>1. CASE Import
  BY <1>1, ImportSteps
<1>2. CASE \E b \in Bucket, o \in Observation : Observe(b, o)
  <2>1. TInv' /\ Untouched
    BY <1>2, ObserveStep
  <2>2. Repeated
    BY <1>2 DEF Observe, Repeated
  <2>3. QED BY <2>1, <2>2
<1>3. CASE EditEvent \/ SplitEvent \/ MergeEvents \/ EditProject
  <2>1. TInv' /\ Untouched
    BY <1>3, EditEventSteps, SplitEventSteps, MergeEventsSteps, EditProjectSteps
  <2>2. done' = Nothing
    <3>1. EditEvent => done' = Nothing
      BY DEF EditEvent, SetLabel, UpdateActivity, Exclude, ReviewQuality, CorrectCase,
             Change, Edit
    <3>2. SplitEvent \/ MergeEvents => done' = Nothing
      BY DEF SplitEvent, MergeEvents, Split, Merge, Edit
    <3>3. EditProject => done' = Nothing
      BY DEF EditProject, Clear, UpdateSettings, ReviewAutomation
    <3>4. QED BY <1>3, <3>1, <3>2, <3>3
  <2>3. QED BY <2>1, <2>2 DEF Repeated
<1>4. CASE Analyse
  <2>1. TInv' /\ Untouched
    BY <1>4, AnalyseSteps
  <2>2. stored' = stored
    BY <1>4 DEF Analyse, Ask, LookUp, Build, Keep, Answer, Invalidate
  <2>3. QED BY <2>1, <2>2 DEF Repeated
<1>5. CASE UNCHANGED vars
  <2>1. UNCHANGED <<stored, generation, pending, cache, request, feed>> /\ done' = done
    BY <1>5 DEF vars
  <2>2. RecentImport'
    BY <2>1 DEF TInv, RecentImport, CurrentDataset, Fingerprint, Minimised, Allowed, stored
  <2>3. QED BY <1>5, <2>1, <2>2, NothingToDo
<1>6. QED BY <1>1, <1>2, <1>3, <1>4, <1>5 DEF Next

(* The inductive invariant of a project under every operation on it.       *)
THEOREM TimelineInductive == Spec => []TInv
<1>1. TInv /\ [Next]_vars => TInv'
  BY Preserved
<1>2. QED BY Established, <1>1, PTL DEF Spec

(* What is stored is well formed, behind the privacy boundary, one row per *)
(* identifier and nothing excluded (storage.py: _candidate, models.py).    *)
THEOREM TimelineTypeOK == Spec => []TypeOK
<1>1. TInv => TypeOK
  <2> SUFFICES ASSUME TInv
               PROVE  TypeOK
    OBVIOUS
  <2>1. history \in 0 .. MaxEdits
    BY TimelineAssumption DEF TInv, Bounds
  <2>2. QED BY <2>1 DEF TInv, RowsSound, NotExcluded, Storable, LabelsSound, Bounds,
                        SnapshotSound, TypeOK
<1>2. QED BY TimelineInductive, <1>1, PTL

(* A request is answered for the snapshot it took and the cache is never   *)
(* older than the store between operations (get_or_create_analysis).       *)
THEOREM SnapshotAnswered == Spec => []AnswersItsSnapshot
<1>1. TInv => AnswersItsSnapshot
  BY DEF TInv, SnapshotSound, AnswersItsSnapshot
<1>2. QED BY TimelineInductive, <1>1, PTL

(* An operation leaves the events and labels it does not name as they were *)
(* although it writes all rows again (_candidate, redact_event_payload).   *)
THEOREM NothingElseTouched == Spec => OthersUntouched
<1>1. TInv /\ [Next]_vars => [Untouched]_vars
  BY Preserved
<1>2. QED BY TimelineInductive, <1>1, PTL DEF Spec, OthersUntouched

(* The import just made adds nothing when it is made again (replace,       *)
(* append: _import_fingerprint and _same_import_dataset).                  *)
THEOREM RetriesAreIdle == Spec => RetriesAddNothing
<1>1. TInv /\ [Next]_vars => [Repeated]_vars
  BY Preserved
<1>2. QED BY TimelineInductive, <1>1, PTL DEF Spec, RetriesAddNothing, Repeated
-----------------------------------------------------------------------------
(* What an analysis of the stored events says.                             *)

LEMMA StoredWhole ==
  ASSUME TInv
  PROVE  Whole(events) /\ settings.gap \in Nat /\ used \subseteq events
<1>1. Whole(events)
  <2>1. ASSUME NEW e \in events
        PROVE  {e.start, e.end, e.dur} \subseteq Nat
    <3>1. IsEvent(e)
      BY DEF TInv, RowsSound
    <3>2. QED BY <3>1 DEF IsEvent
  <2>2. QED BY <2>1 DEF TInv, RowsSound, Whole
<1>2. settings.gap \in Nat
  BY TimelineAssumption DEF TInv, Bounds
<1>3. used \subseteq events
  <2>1. \A s \in Sessions(events, settings.gap) : s \subseteq Eligible(events)
    BY SessionOf
  <2>2. Eligible(events) \subseteq events
    BY <1>1, EligibleTimed
  <2>3. QED BY <2>1, <2>2 DEF used, Used, Cases
<1>4. QED BY <1>1, <1>2, <1>3

(* The graph of every analysis has only steps that happened: within one    *)
(* named case, no longer than a gap apart, with nothing usable of the case *)
(* between them (pipeline.py: directly_follows_graph).                     *)
THEOREM FlowsAreReal == Spec => []NoInventedFlow
<1>1. TInv => NoInventedFlow
  BY StoredWhole, RealSteps DEF NoInventedFlow, analysed
<1>2. QED BY TimelineInductive, <1>1, PTL

(* Two events of a case are in different sessions exactly if a stretch     *)
(* without activity that is longer than the gap lies between them          *)
(* (analysis.py: _split_sessions), nested and overlapping events included. *)
THEOREM SessionsSplitAtGaps == Spec => []SessionsAreConnected
<1>1. TInv => SessionsAreConnected
  <2> SUFFICES ASSUME TInv, NEW S \in BaseCases(events), NEW e \in S, NEW f \in S
               PROVE  f \in Session(S, settings.gap, e) <=>
                        ~\E a \in {g.end : g \in S}, b \in {g.start : g \in S} :
                            /\ b - a > settings.gap
                            /\ Covered(S) \cap (a .. (b - 1)) = {}
                            /\ \/ e.end =< a /\ b =< f.start
                               \/ f.end =< a /\ b =< e.start
    BY DEF SessionsAreConnected
  <2>1. PICK c \in Eligible(events) : S = Companions(events, c)
    BY SessionsAre
  <2>2. Timed(S) /\ settings.gap \in Nat
    BY <2>1, StoredWhole, BaseCaseTimed
  <2>3. Covered(S) = Instants(S)
    BY DEF Covered, Instants
  <2>4. QED BY <2>2, <2>3, SessionsConnected DEF Quiet
<1>2. QED BY TimelineInductive, <1>1, PTL

LEMMA MarksKnown ==
  ASSUME TInv, NEW e \in events
  PROVE  /\ QualityStatus(e) # "requires_correction"
         /\ QualityStatus(e) = "approved" <=> e.quality = "approved"
<1>1. IsEvent(e)
  BY DEF TInv, RowsSound
<1>2. e.quality \in {"", "approved", "unreviewed"}
  BY <1>1 DEF IsEvent
<1>3. QED BY <1>2 DEF QualityStatus

LEMMA Remedies ==
  ASSUME NEW i, i.reasons # {}
  PROVE  RecommendedAction(i) \in {"repair_source", "split_or_exclude"}
BY DEF RecommendedAction

(* Every event is used by the analysis or the quality report lists it as   *)
(* to be corrected, and only used events count as approved                 *)
(* (app.py: data_quality; analysis.py: prepare_analysis).                  *)
THEOREM NothingIsLeftOut == Spec => []NothingLeftOut
<1>1. TInv => NothingLeftOut
  <2> SUFFICES ASSUME TInv
               PROVE  NothingLeftOut
    OBVIOUS
  <2> DEFINE items == QualityItems(events, settings.gap)
  <2>1. used = Used(events, settings.gap) /\ used \subseteq events
    BY StoredWhole DEF used
  <2>2. ASSUME NEW e \in events \ used
        PROVE  \E i \in items : /\ i.event = e /\ i.status = "requires_correction"
                                /\ RecommendedAction(i) \in {"repair_source", "split_or_exclude"}
    <3>1. PICK i \in items : i.event = e
      BY <2>1, ReportedOnce
    <3>2. i.status = "requires_correction" /\ i.reasons # {}
      BY <2>1, <3>1, ReportedOnce
    <3>3. QED BY <3>1, <3>2, Remedies
  <2>3. ASSUME NEW i \in items, i.event \in used
        PROVE  i.status # "requires_correction"
    <3>1. i.event \in events /\ i.status = QualityStatus(i.event)
      BY <2>1, <2>3, ReportedOnce
    <3>2. QED BY <3>1, MarksKnown
  <2>4. QualitySummary(events, settings.gap).approved =
          Cardinality({e \in used : e.quality = "approved"})
    <3>1. {e \in events \cap used : QualityStatus(e) = "approved"}
            = {e \in used : e.quality = "approved"}
      BY <2>1, MarksKnown
    <3>2. QED BY <2>1, <3>1, ApprovedCount
  <2>5. QED BY <2>2, <2>3, <2>4 DEF NothingLeftOut
<1>2. QED BY TimelineInductive, <1>1, PTL

(* The receipt accounts for every event, and active, elapsed and waiting   *)
(* time of each case are what counting its instants one by one gives       *)
(* (analysis.py: prepare_analysis).                                        *)
THEOREM TimesAddUp == Spec => []TimeAddsUp
<1>1. TInv => TimeAddsUp
  <2> SUFFICES ASSUME TInv
               PROVE  TimeAddsUp
    OBVIOUS
  <2>1. Whole(events)
    BY StoredWhole
  <2>2. receipt.used + receipt.excluded = receipt.input
    BY <2>1, EveryEventCounts DEF receipt
  <2>3. ASSUME NEW s \in analysed
        PROVE  /\ UnionSeconds(s) = TimeOf(s)
               /\ Total(s, Interval) = TimeOf(s)
               /\ ElapsedSeconds(s) = TimeOf(s) + WaitingSeconds(s)
               /\ ElapsedSeconds(s) = Max({e.end : e \in s}) - Min({e.start : e \in s})
    <3>1. Line(s)
      BY <2>1, CaseIsLine DEF analysed
    <3>2. TimeOf(s) = Cardinality(Instants(s))
      BY DEF TimeOf, Covered, Instants
    <3>3. ElapsedSeconds(s) = Max({e.end : e \in s}) - Min({e.start : e \in s})
      BY <3>1, FirstIs, LastIs DEF ElapsedSeconds
    <3>4. QED BY <3>1, <3>2, <3>3, UnionTime, ActiveTime, ElapsedTime
  <2>4. QED BY <2>2, <2>3 DEF TimeAddsUp
<1>2. QED BY TimelineInductive, <1>1, PTL

(* Graph, variants, application times, bottlenecks and scores count one    *)
(* population (pipeline.py: every result is derived from the same cases).  *)
THEOREM ResultsAlwaysAgree == Spec => []ResultsAgree
<1>1. TInv => ResultsAgree
  <2> SUFFICES ASSUME TInv
               PROVE  ResultsAgree
    OBVIOUS
  <2> DEFINE C == analysed
             acts == Activities(C)
             words == [rule |-> acts, transfer |-> acts]
             r == receipt
  <2>1. Whole(events)
    BY StoredWhole
  <2>2. Population(C) /\ Events(C) = used
    BY <2>1, CasesArePopulation DEF analysed, used
  <2>3. r.used = Cardinality(Events(C)) /\ r.cases = Cardinality(C)
        /\ r.raw = Total(Events(C), Interval)
    <3>1. r.used = Cardinality(used)
      BY <2>1, EveryEventCounts DEF receipt, used
    <3>2. r.cases = Cardinality(C) /\ r.raw = Total(used, Interval)
      BY DEF receipt, Receipt, analysed, used
    <3>3. QED BY <2>2, <3>1, <3>2
  <2> HIDE DEF C, r
  <2>4. ASSUME NEW a \in acts
        PROVE  /\ Starts(C, a) + Total(acts, LAMBDA b : Cardinality(Edge(C, b, a)))
                    = Frequency(C, a)
               /\ Ends(C, a) + Total(acts, LAMBDA b : Cardinality(Edge(C, a, b)))
                    = Frequency(C, a)
    BY <2>2, InIsOut DEF Total
  <2>5. Total(acts, LAMBDA a : Frequency(C, a)) = r.used
    BY <2>2, <2>3, FrequenciesAddUp DEF Total
  <2>6. Total(Variants(C), LAMBDA v : VariantCount(C, v)) = r.cases
    BY <2>2, <2>3, VariantsAddUp DEF Total
  <2>7. Total(Variants(C), LAMBDA v : VariantCount(C, v) * (Len(v) - 1)) = Cardinality(Steps(C))
    BY <2>2, StepsAddUp DEF Total
  <2>8. Total({e.app : e \in Events(C)}, LAMBDA x : AppUsage(C, x)) = r.raw
    BY <2>2, <2>3, UsageAddsUp
  <2>9. \A t \in RoundTrips(C) : {t[1], t[2]} \subseteq AppSwitches(C)
    BY DEF RoundTrips, AppSwitches
  <2>10. ASSUME NEW ab \in RepeatedPatterns(C)
         PROVE  Frequency(C, ab[1]) > 1 /\ Frequency(C, ab[2]) > 1
    <3>1. Cardinality(Edge(C, ab[1], ab[2])) > 1
      BY DEF RepeatedPatterns
    <3>2. Frequency(C, ab[1]) \in Nat /\ Frequency(C, ab[2]) \in Nat
      BY <2>2, ActivitiesFinite
    <3>3. QED BY <2>2, <3>1, <3>2, RepeatedIsFrequent
  <2>11. Cardinality(acts) = 1 => (Bottlenecks(C) = {} <=> r.raw < Slow * r.used)
    BY <2>2, <2>3, OneBottleneck
  <2>12. \A a \in acts : AutomationScore(C, a, words) =<
                           200 * Max({Frequency(C, b) : b \in acts})
    BY <2>2, ScoreBounded
  <2>13. QED BY <2>4, <2>5, <2>6, <2>7, <2>8, <2>9, <2>10, <2>11, <2>12
             DEF ResultsAgree, C, r
<1>2. QED BY TimelineInductive, <1>1, PTL
-----------------------------------------------------------------------------
(* Times survive a split and a merge.                                      *)

Usable(e) == Flaw(e) = ""

LEMMA AllDeduplicated ==
  ASSUME NEW E, Unrepeated(E)
  PROVE  Eligible(E) = {e \in E : Usable(e)}
<1>1. ASSUME NEW e \in E
      PROVE  SameSource(E, e) = {e}
  BY DEF Unrepeated, SameSource
<1>2. ASSUME NEW e \in E
      PROVE  e \in Deduplicated(E)
  <2>1. ~Conflicting(E, e)
    BY <1>1 DEF Conflicting
  <2>2. e = CHOOSE f \in SameSource(E, e) : TRUE
    BY <1>1
  <2>3. QED BY <2>1, <2>2 DEF Deduplicated
<1>3. Deduplicated(E) = E
  BY <1>2 DEF Deduplicated
<1>4. QED BY <1>3 DEF Eligible, Usable

LEMMA UsableIs ==
  ASSUME NEW e, IsEvent(e)
  PROVE  /\ Usable(e) => e.timed /\ ~e.idle /\ e.start < e.end
         /\ e.timed /\ ~e.idle /\ e.start < e.end /\ e.dur = Interval(e) => Usable(e)
<1>1. e.start \in Nat /\ e.end \in Nat /\ e.dur \in Nat /\ e.timed \in BOOLEAN
      /\ e.idle \in BOOLEAN /\ Tolerance \in Nat
  BY AnalysisAssumption DEF IsEvent
<1>2. CASE ~e.timed
  BY <1>2 DEF Flaw, Usable
<1>3. CASE e.timed /\ e.end < e.start
  BY <1>1, <1>3 DEF Flaw, Usable
<1>4. CASE e.timed /\ e.end = e.start
  BY <1>1, <1>4 DEF Flaw, Usable
<1>5. CASE e.timed /\ e.start < e.end /\ Distance(e.dur, Interval(e)) > Tolerance
  <2>1. Flaw(e) = "duration_interval_mismatch"
    BY <1>1, <1>5 DEF Flaw
  <2>2. e.dur # Interval(e)
    <3>1. e.dur = Interval(e) => Distance(e.dur, Interval(e)) = 0
      BY <1>1 DEF Distance
    <3>2. ~(0 > Tolerance)
      BY <1>1
    <3>3. QED BY <1>5, <3>1, <3>2
  <2>3. ~Usable(e)
    BY <2>1 DEF Usable
  <2>4. QED BY <2>2, <2>3
<1>6. CASE e.timed /\ e.start < e.end /\ ~(Distance(e.dur, Interval(e)) > Tolerance)
  <2>1. ~(e.end < e.start) /\ e.end # e.start
    BY <1>1, <1>6
  <2>2. CASE e.idle
    <3>1. Flaw(e) = "idle_event"
      BY <1>6, <2>1, <2>2 DEF Flaw
    <3>2. ~Usable(e)
      BY <3>1 DEF Usable
    <3>3. QED BY <2>2, <3>2, Zenon
  <2>3. CASE ~e.idle
    <3>1. Usable(e)
      BY <1>6, <2>1, <2>3 DEF Flaw, Usable
    <3>2. QED BY <1>6, <2>3, <3>1, Zenon
  <2>4. QED BY <2>2, <2>3
<1>7. e.end < e.start \/ e.end = e.start \/ e.start < e.end
  BY <1>1
<1>8. QED BY <1>2, <1>3, <1>4, <1>5, <1>6, <1>7, Zenon

(* A commit of the stored rows without D and of new events A.               *)
Trusted == References(events \cup {})
Swaps(D, A, S, L) ==
    /\ D \subseteq events /\ IsFiniteSet(A) /\ A \cap events = {}
    /\ S = (events \ D) \cup A /\ Commit(S, {}, L)

LEMMA Exchanged ==
  ASSUME TInv, NEW D, NEW A, NEW S, NEW L, Swaps(D, A, S, L)
  PROVE  /\ \A e \in events' : e \in events \ D \/ \E x \in A : e = Redact(x, Trusted)
         /\ events \ D \subseteq events'
         /\ \A x \in A : Redact(x, Trusted) \in events' /\ Redact(x, Trusted) \notin events \ D
<1> DEFINE T == Trusted
<1>0. D \subseteq events /\ IsFiniteSet(A) /\ S = (events \ D) \cup A /\ Commit(S, {}, L)
  BY DEF Swaps
<1>1. \A e \in events : Redact(e, T) = e
  BY StoredPass DEF TInv, Trusted
<1>2. events' = {Redact(x, T) : x \in S}
  BY <1>0 DEF Commit, Candidate, Trusted
<1>3. \A x, y \in S : Redact(x, T).id = Redact(y, T).id => x = y
  <2>1. Cardinality({e.id : e \in Candidate(S, {})}) = Cardinality(S)
    BY <1>0 DEF Commit
  <2>2. IsFiniteSet(S)
    <3>1. IsFiniteSet(events \ D)
      BY FS_Difference DEF TInv, RowsSound
    <3>2. QED BY <1>0, <3>1, FS_Union
  <2>3. \A x, y \in S : Redact(x, References(events \cup {})).id
                             = Redact(y, References(events \cup {})).id => x = y
    BY <2>1, <2>2, OneRowPerIdentifier
  <2>4. QED BY <2>3 DEF Trusted
<1> HIDE DEF T
<1>4. /\ \A e \in events' : e \in events \ D \/ \E x \in A : e = Redact(x, T)
      /\ events \ D \subseteq events'
      /\ \A x \in A : Redact(x, T) \in events'
  BY <1>0, <1>1, <1>2
<1>5. \A x \in A : Redact(x, T) \notin events \ D
  <2>1. A \cap events = {}
    BY DEF Swaps
  <2>2. QED BY <1>0, <1>1, <1>3, <2>1
<1>6. QED BY <1>4, <1>5 DEF T

LEMMA CaseKept ==
  ASSUME TInv, NEW e \in events
  PROVE  Reference("case", e.case, Trusted) = e.case
<1>1. Opaque(e)
  BY DEF TInv, RowsSound
<1>2. e.case \in Trusted
  BY DEF References, Trusted
<1>3. QED BY <1>1, <1>2 DEF Opaque, Reference

LEMMA LoneCompanion ==
  ASSUME NEW E, Whole(E), NEW x \in Eligible(E), x.origin \notin {"observed", "manual"}
  PROVE  Companions(E, x) = {x}
<1>1. Eligible(E) \subseteq E
  BY EligibleTimed
<1>2. ASSUME NEW f \in Companions(E, x)
      PROVE  f = x
  <2>1. f \in E /\ x \in E /\ BaseCase(f) = BaseCase(x)
    BY <1>1 DEF Companions
  <2>2. f.id = x.id
    BY <2>1 DEF BaseCase
  <2>3. QED BY <2>1, <2>2 DEF Whole
<1>3. QED BY <1>2 DEF Companions


(* A split of a usable event as rows: the parts meet where it was split.   *)
LEMMA SplitRows ==
  ASSUME TInv, NEW e \in events, Usable(e), e.dur =< Interval(e),
         NEW at \in SplitAt, NEW first, NEW second, Split(e, at, first, second)
  PROVE  \E l, r : /\ events' = (events \ {e}) \cup {l, r} /\ {l, r} \cap (events \ {e}) = {}
                   /\ IsEvent(l) /\ IsEvent(r) /\ Usable(l) /\ Usable(r)
                   /\ l.case = e.case /\ r.case = e.case
                   /\ l.origin = e.origin /\ r.origin = e.origin
                   /\ l.start = e.start /\ l.end = r.start /\ r.end = e.end
                   /\ l.start < l.end /\ r.start < r.end
<1> DEFINE T == Trusted
           d == Max({Duration(e) - at, 0})
           a == [Part(e, 1, first) EXCEPT !.end = e.start + at, !.dur = at]
           b == [Part(e, 2, second) EXCEPT !.start = e.start + at, !.end = End(e), !.dur = d]
           l == Redact(a, T)
           r == Redact(b, T)
<1>1. IsEvent(e) /\ at \in Nat
  BY TimelineAssumption DEF TInv, RowsSound
<1>0. e.timed /\ ~e.idle
  BY <1>1, UsableIs
<1>2. e.start \in Nat /\ e.end \in Nat /\ e.dur \in Nat /\ e.start < e.end
  BY <1>1, UsableIs DEF IsEvent
<1>3. Duration(e) = e.end - e.start /\ End(e) = e.end
  <2>1. Interval(e) \in Int /\ e.dur \in Int /\ Interval(e) = e.end - e.start
    BY <1>2 DEF Interval
  <2>2. Max({Interval(e), e.dur}) \in {Interval(e), e.dur}
        /\ Max({Interval(e), e.dur}) >= Interval(e)
    BY <2>1, MaxOfTwo
  <2>3. Duration(e) = Interval(e)
    BY <2>1, <2>2 DEF Duration
  <2>4. QED BY <1>2, <2>1, <2>3 DEF End
<1>4. 0 < at /\ at < e.end - e.start /\ d = e.end - e.start - at /\ d \in Nat
  <2>1. 0 < at /\ at < e.end - e.start
    BY <1>3 DEF Split
  <2>2. Duration(e) - at \in Int /\ Duration(e) - at > 0
    BY <1>1, <1>2, <1>3, <2>1
  <2>3. d \in {Duration(e) - at, 0} /\ d >= Duration(e) - at
    BY <2>2, MaxOfTwo
  <2> HIDE DEF d
  <2>4. d = Duration(e) - at
    BY <2>2, <2>3
  <2>5. QED BY <1>1, <1>2, <1>3, <2>1, <2>4
<1> HIDE DEF d
<1>5. /\ IsEvent(a) /\ a.id[1] = "split" /\ a.case = e.case /\ a.origin = e.origin
      /\ a.idle = e.idle /\ a.timed = e.timed
      /\ a.start = e.start /\ a.end = e.start + at /\ a.dur = at
  <2> DEFINE x == e.start
             y == e.start + at
  <2>1. IsPart(a, e, 1, first, x, y, at)
    BY <1>1 DEF Part, IsEvent, IsPart
  <2>2. x \in Nat /\ y \in Nat
    BY <1>1, <1>2
  <2> HIDE DEF a, x, y
  <2>3. /\ IsEvent(a) /\ a.id[1] = "split" /\ a.case = e.case /\ a.origin = e.origin
        /\ a.idle = e.idle /\ a.timed = e.timed /\ a.start = x /\ a.end = y /\ a.dur = at
    BY <1>1, <2>1, <2>2, PartFields
  <2>4. QED BY <2>3 DEF x, y
<1>6. /\ IsEvent(b) /\ b.id[1] = "split" /\ b.case = e.case /\ b.origin = e.origin
      /\ b.idle = e.idle /\ b.timed = e.timed
      /\ b.start = e.start + at /\ b.end = e.end /\ b.dur = d
  <2> DEFINE x == e.start + at
             y == e.end
  <2>1. IsPart(b, e, 2, second, x, y, d)
    BY <1>3 DEF IsPart
  <2>2. x \in Nat /\ y \in Nat
    BY <1>1, <1>2
  <2> HIDE DEF b, x, y
  <2>3. /\ IsEvent(b) /\ b.id[1] = "split" /\ b.case = e.case /\ b.origin = e.origin
        /\ b.idle = e.idle /\ b.timed = e.timed /\ b.start = x /\ b.end = y /\ b.dur = d
    BY <1>1, <1>4, <2>1, <2>2, PartFields
  <2>4. QED BY <2>3 DEF x, y
<1>7. Commit((events \ {e}) \cup {a, b}, {}, Without(e.id))
  BY DEF Split, Edit, d
<1>8. {a, b} \cap events = {}
  <2>1. \A x \in events : x.id[1] = "evt"
    BY DEF TInv, RowsSound, Opaque
  <2>2. a.id[1] = "split" /\ b.id[1] = "split"
    BY <1>5, <1>6
  <2> HIDE DEF a, b
  <2>3. QED BY <2>1, <2>2
<1> HIDE DEF a, b
<1>9. IsFiniteSet({a, b})
  <2>1. {a, b} = {a} \cup {b}
    OBVIOUS
  <2>2. IsFiniteSet({a}) /\ IsFiniteSet({b})
    BY FS_Singleton
  <2>3. QED BY <2>1, <2>2, FS_Union
<1>10. /\ events' = (events \ {e}) \cup {l, r} /\ {l, r} \cap (events \ {e}) = {}
  <2> DEFINE A == {a, b}
             D == {e}
             S == (events \ D) \cup A
  <2>1. Swaps(D, A, S, Without(e.id))
    BY <1>7, <1>8, <1>9 DEF Swaps
  <2> HIDE DEF A, D, S
  <2>2. /\ \A f \in events' : f \in events \ D \/ \E x \in A : f = Redact(x, T)
        /\ events \ D \subseteq events'
        /\ \A x \in A : Redact(x, T) \in events' /\ Redact(x, T) \notin events \ D
    BY <2>1, Exchanged
  <2>3. QED BY <2>2 DEF A, D
<1>11. Reference("case", e.case, T) = e.case
  BY CaseKept
<1> HIDE DEF T
<1>12. /\ IsEvent(l) /\ l.case = e.case /\ l.origin = e.origin
       /\ l.idle = e.idle /\ l.timed = e.timed
       /\ l.start = e.start /\ l.end = e.start + at /\ l.dur = at
  BY <1>5, <1>11, RedactFields
<1>13. /\ IsEvent(r) /\ r.case = e.case /\ r.origin = e.origin
       /\ r.idle = e.idle /\ r.timed = e.timed
       /\ r.start = e.start + at /\ r.end = e.end /\ r.dur = d
  BY <1>6, <1>11, RedactFields
<1> HIDE DEF l, r
<1>14. l.start < l.end /\ r.start < r.end /\ l.dur = Interval(l) /\ r.dur = Interval(r)
  BY <1>1, <1>2, <1>4, <1>12, <1>13 DEF Interval
<1>15. Usable(l) /\ Usable(r)
  <2>1. l.timed /\ ~l.idle /\ r.timed /\ ~r.idle
    BY <1>0, <1>12, <1>13, Zenon
  <2>2. QED BY <1>12, <1>13, <1>14, <2>1, UsableIs
<1>16. l.end = r.start
  BY <1>12, <1>13
<1>17. QED BY <1>10, <1>12, <1>13, <1>14, <1>15, <1>16

LEMMA RowsWhole ==
  ASSUME NEW E, IsFiniteSet(E), \A e \in E : IsEvent(e),
         \A e, f \in E : e.id = f.id => e = f
  PROVE  Whole(E)
<1>1. \A e \in E : {e.start, e.end, e.dur} \subseteq Nat
  BY DEF IsEvent
<1>2. QED BY <1>1 DEF Whole

(* What the receipt says before and after a split.                         *)
LEMMA SplitTimes ==
  ASSUME TInv, RowsSound', Unrepeated(events), Unrepeated(events'),
         NEW e \in used, e.dur =< Interval(e),
         NEW at \in SplitAt, NEW first, NEW second, Split(e, at, first, second)
  PROVE  /\ receipt'.raw = receipt.raw /\ receipt'.elapsed = receipt.elapsed
         /\ used \ {e} \subseteq used'
<1> DEFINE gap == settings.gap
           E == events
           F == events'
<1>1. /\ settings' = settings /\ gap \in Nat /\ Whole(E)
  BY StoredWhole DEF Split, Edit
<1>2. Whole(F)
  BY RowsWhole DEF RowsSound
<1>3. /\ Eligible(E) = {x \in E : Usable(x)} /\ Eligible(F) = {x \in F : Usable(x)}
  BY AllDeduplicated
<1>4. e \in Eligible(E) /\ e \in E /\ Usable(e)
  <2>1. Used(E, gap) \subseteq Eligible(E)
    BY <1>1, CasesApart
  <2>2. QED BY <1>3, <2>1 DEF used
<1>5. PICK l, r : /\ F = (E \ {e}) \cup {l, r} /\ {l, r} \cap (E \ {e}) = {}
                  /\ IsEvent(l) /\ IsEvent(r) /\ Usable(l) /\ Usable(r)
                  /\ l.case = e.case /\ r.case = e.case
                  /\ l.origin = e.origin /\ r.origin = e.origin
                  /\ l.start = e.start /\ l.end = r.start /\ r.end = e.end
                  /\ l.start < l.end /\ r.start < r.end
  BY <1>4, SplitRows
<1>6. /\ {e.start, e.end, l.start, l.end, r.start, r.end} \subseteq Nat
  <2>1. IsEvent(e)
    BY <1>4 DEF TInv, RowsSound
  <2>2. QED BY <1>5, <2>1 DEF IsEvent
<1>7. Joins(e, l, r, gap)
  BY <1>1, <1>5, <1>6 DEF Joins
<1>8. l \in Eligible(F) /\ r \in Eligible(F) /\ Eligible(E) \ {e} = Eligible(F) \ {l, r}
  <2> HIDE DEF E, F
  <2>1. QED BY <1>3, <1>4, <1>5
<1>9. /\ e \in Used(E, gap) /\ l \in Used(F, gap) /\ r \in Used(F, gap)
      /\ Used(E, gap) \ {e} = Used(F, gap) \ {l, r}
      /\ Receipt(E, gap).elapsed = Receipt(F, gap).elapsed
  <2>1. CASE e.origin \in {"observed", "manual"}
    <3>1. BaseCase(l) = BaseCase(e) /\ BaseCase(r) = BaseCase(e)
      BY <1>5, <2>1 DEF BaseCase
    <3>2. ASSUME NEW f \in Eligible(E) \ {e}, l.end =< f.start, f.end =< r.start
          PROVE  FALSE
      <4>1. f.start \in Nat /\ f.end \in Nat /\ f.start < f.end
        BY <1>1, EligibleTimed DEF Timed
      <4>2. QED BY <1>5, <1>6, <3>2, <4>1
    <3>3. Joined(E, e, F, l, r, gap)
      <4> HIDE DEF E, F, gap
      <4>1. QED BY <1>4, <1>7, <1>8, <3>1, <3>2 DEF Joined
    <3>4. e \in Used(E, gap)
      BY DEF used
    <3> HIDE DEF E, F, gap
    <3>5. QED BY <1>1, <1>2, <3>3, <3>4, JoinedUse
  <2>2. CASE e.origin \notin {"observed", "manual"}
    <3>1. Companions(E, e) = {e} /\ Companions(F, l) = {l} /\ Companions(F, r) = {r}
      <4> HIDE DEF E, F
      <4>1. QED BY <1>1, <1>2, <1>4, <1>5, <1>8, <2>2, LoneCompanion
    <3>2. Alone(E, {e}, F, {l, r})
      <4> HIDE DEF E, F
      <4>1. QED BY <1>4, <1>8, <3>1 DEF Alone
    <3>3. l.end = r.start
      BY <1>5
    <3> HIDE DEF E, F, gap
    <3>4. QED BY <1>1, <1>2, <1>7, <3>2, <3>3, AloneUse
  <2>3. QED BY <2>1, <2>2
<1>10. Total(Used(E, gap), Interval) = Total(Used(F, gap), Interval)
  <2> DEFINE U == Used(E, gap)
             V == Used(F, gap)
  <2>1. IsFiniteSet(U) /\ IsFiniteSet(V) /\ U \subseteq Eligible(E) /\ V \subseteq Eligible(F)
    BY <1>1, <1>2, CasesApart
  <2>2. \A f \in U \cup V : Interval(f) \in Int
    <3>1. \A f \in Eligible(E) \cup Eligible(F) : f.start \in Nat /\ f.end \in Nat
      BY <1>1, <1>2, EligibleTimed DEF Timed
    <3>2. ASSUME NEW f \in U \cup V
          PROVE  Interval(f) \in Int
      <4>1. f.start \in Nat /\ f.end \in Nat
        BY <2>1, <3>1
      <4>2. QED BY <4>1 DEF Interval
    <3>3. QED BY <3>2
  <2>3. l # r /\ Interval(e) = Interval(l) + Interval(r)
    BY <1>5, <1>6 DEF Interval
  <2>4. Exchange(U, e, V, l, r)
    BY <1>9, <2>3 DEF Exchange
  <2> HIDE DEF U, V
  <2>5. Total(U, Interval) = Total(V, Interval)
    BY <2>1, <2>2, <2>3, <2>4, JoinedRaw
  <2>6. QED BY <2>5 DEF U, V
<1>11. receipt = Receipt(E, gap) /\ receipt' = Receipt(F, gap) /\ used = Used(E, gap)
       /\ used' = Used(F, gap)
  BY <1>1 DEF receipt, used
<1> HIDE DEF E, F, gap
<1>12. Receipt(F, gap).raw = Receipt(E, gap).raw
  BY <1>10 DEF Receipt
<1>13. QED BY <1>9, <1>11, <1>12

(* A merge of two usable events as rows, one after the other in time.      *)
LEMMA MergeRows ==
  ASSUME TInv, NEW l \in events, NEW r \in events, Usable(l), Usable(r), l.end =< r.start,
         NEW act, Merge(l, r, act)
  PROVE  \E m : /\ events' = (events \ {l, r}) \cup {m} /\ m \notin events \ {l, r}
                /\ IsEvent(m) /\ Usable(m) /\ m.case = l.case /\ m.origin = l.origin
                /\ m.start = l.start /\ m.end = r.end
<1> DEFINE T == Trusted
           d == Max({r.end - l.start, 0})
           p == IF l.app = r.app THEN l.app ELSE l.app \o r.app
           i == <<"merge", l.id, r.id>>
           s == <<"join", l.src, r.src>>
           y == r.end
           n == [l EXCEPT !.id = i, !.src = s, !.app = p, !.act = act, !.end = y, !.dur = d]
           m == Redact(n, T)
           L == [j \in DOMAIN labels \ {l.id, r.id} |-> labels[j]]
<1>1. IsEvent(l) /\ IsEvent(r)
  BY DEF TInv, RowsSound
<1>2. /\ l.start \in Nat /\ l.end \in Nat /\ l.start < l.end
      /\ r.start \in Nat /\ r.end \in Nat /\ r.start < r.end
  BY <1>1, UsableIs DEF IsEvent
<1>3. l.timed /\ ~l.idle
  BY <1>1, UsableIs
<1>4. d = r.end - l.start /\ d \in Nat
  <2> DEFINE c == r.end - l.start
  <2>1. c \in Int /\ c > 0
    BY <1>2
  <2> HIDE DEF c
  <2>2. Max({c, 0}) \in {c, 0} /\ Max({c, 0}) >= c
    BY <2>1, MaxOfTwo
  <2>3. Max({c, 0}) = c /\ c \in Nat
    BY <2>1, <2>2
  <2>4. QED BY <2>3 DEF c
<1>5. IsName(p)
  BY <1>1, JoinedName DEF IsEvent
<1>6. Commit((events \ {l, r}) \cup {n}, {}, L) /\ i[1] = "merge"
  BY DEF Merge, Edit
<1> HIDE DEF d, p, i, s
<1>7. IsJoin(n, l, i, s, p, act, y, d) /\ y \in Nat
  BY <1>2 DEF IsJoin
<1> HIDE DEF n, y
<1>8. /\ IsEvent(n) /\ n.id = i /\ n.case = l.case /\ n.origin = l.origin
      /\ n.idle = l.idle /\ n.timed = l.timed
      /\ n.start = l.start /\ n.end = y /\ n.dur = d
  BY <1>1, <1>4, <1>5, <1>7, JoinFields
<1>9. {n} \cap events = {} /\ IsFiniteSet({n})
  <2>1. \A x \in events : x.id[1] = "evt"
    BY DEF TInv, RowsSound, Opaque
  <2>2. n \notin events
    BY <1>6, <1>8, <2>1
  <2>3. QED BY <2>2, FS_Singleton
<1>10. events' = (events \ {l, r}) \cup {m} /\ m \notin events \ {l, r}
  <2> DEFINE A == {n}
             D == {l, r}
             S == (events \ D) \cup A
  <2>1. Swaps(D, A, S, L)
    BY <1>6, <1>9 DEF Swaps
  <2> HIDE DEF A, D, S, L
  <2>2. /\ \A f \in events' : f \in events \ D \/ \E x \in A : f = Redact(x, T)
        /\ events \ D \subseteq events'
        /\ \A x \in A : Redact(x, T) \in events' /\ Redact(x, T) \notin events \ D
    BY <2>1, Exchanged
  <2>3. QED BY <2>2 DEF A, D
<1>11. Reference("case", l.case, T) = l.case
  BY CaseKept
<1> HIDE DEF T
<1>12. /\ IsEvent(m) /\ m.case = l.case /\ m.origin = l.origin
       /\ m.idle = l.idle /\ m.timed = l.timed
       /\ m.start = l.start /\ m.end = y /\ m.dur = d
  BY <1>8, <1>11, RedactFields
<1> HIDE DEF m
<1>13. m.end = r.end
  BY <1>12 DEF y
<1>14. m.start < m.end /\ m.dur = Interval(m)
  BY <1>2, <1>4, <1>12, <1>13 DEF Interval
<1>15. m.timed /\ ~m.idle
  BY <1>3, <1>12, Zenon
<1>16. Usable(m)
  BY <1>12, <1>14, <1>15, UsableIs
<1>17. QED BY <1>10, <1>12, <1>13, <1>16

(* What the receipt says before and after a merge of a step.               *)
LEMMA MergeTimes ==
  ASSUME TInv, RowsSound', Unrepeated(events), Unrepeated(events'),
         NEW q \in Steps(analysed), NEW act, Merge(q[1], q[2], act)
  PROVE  /\ receipt'.elapsed = receipt.elapsed
         /\ used \ {q[1], q[2]} \subseteq used'
<1> DEFINE gap == settings.gap
           E == events'
           F == events
           l == q[1]
           r == q[2]
<1>1. /\ settings' = settings /\ gap \in Nat /\ Whole(F)
  BY StoredWhole DEF Merge, Edit
<1>2. Whole(E)
  BY RowsWhole DEF RowsSound
<1>3. /\ Eligible(E) = {x \in E : Usable(x)} /\ Eligible(F) = {x \in F : Usable(x)}
  BY AllDeduplicated
<1>4. /\ l.case = r.case /\ "unassigned" \notin {l.origin, r.origin}
      /\ r.start - l.end \in 0 .. gap
      /\ \A e \in Eligible(F) \ {l, r} :
            BaseCase(e) = BaseCase(l) => e.end =< l.start \/ r.end =< e.start
  <2>1. q \in Steps(Cases(F, gap))
    BY DEF analysed
  <2> HIDE DEF F, gap
  <2>2. QED BY <1>1, <2>1, RealSteps
<1>5. l \in Used(F, gap) /\ r \in Used(F, gap)
  BY DEF Steps, Adjacent, analysed, Used
<1>6. Used(F, gap) \subseteq Eligible(F)
  BY <1>1, CasesApart
<1>7. /\ l \in Eligible(F) /\ l \in F /\ Usable(l)
      /\ r \in Eligible(F) /\ r \in F /\ Usable(r)
  BY <1>3, <1>5, <1>6
<1>8. IsEvent(l) /\ IsEvent(r)
  BY <1>7 DEF TInv, RowsSound
<1>9. /\ {l.start, l.end, r.start, r.end} \subseteq Nat
      /\ l.start < l.end /\ r.start < r.end /\ l.end =< r.start /\ r.start - l.end =< gap
  <2>1. {l.start, l.end, r.start, r.end} \subseteq Nat
    BY <1>8 DEF IsEvent
  <2>2. l.start < l.end /\ r.start < r.end
    BY <1>7, <1>8, UsableIs
  <2> HIDE DEF l, r, gap
  <2>3. QED BY <1>1, <1>4, <2>1, <2>2
<1>10. PICK m : /\ E = (F \ {l, r}) \cup {m} /\ m \notin F \ {l, r}
                /\ IsEvent(m) /\ Usable(m) /\ m.case = l.case /\ m.origin = l.origin
                /\ m.start = l.start /\ m.end = r.end
  BY <1>7, <1>9, MergeRows
<1>11. used = Used(F, gap) /\ used' = Used(E, gap)
       /\ receipt = Receipt(F, gap) /\ receipt' = Receipt(E, gap)
  BY <1>1 DEF receipt, used
<1> HIDE DEF E, F, l, r, gap
<1>12. Joins(m, l, r, gap)
  BY <1>9, <1>10 DEF Joins
<1>13. m \in Eligible(E) /\ Eligible(E) \ {m} = Eligible(F) \ {l, r}
  BY <1>3, <1>7, <1>10
<1>14. BaseCase(l) = BaseCase(m) /\ BaseCase(r) = BaseCase(m)
  <2>1. l.origin \in {"observed", "manual"} /\ r.origin \in {"observed", "manual"}
    BY <1>4, <1>8 DEF IsEvent
  <2>2. QED BY <1>4, <1>10, <2>1 DEF BaseCase
<1>15. ASSUME NEW f \in Eligible(E) \ {m}, BaseCase(f) = BaseCase(m),
              l.end =< f.start, f.end =< r.start
       PROVE  FALSE
  <2>1. f.start \in Nat /\ f.end \in Nat /\ f.start < f.end
    BY <1>2, EligibleTimed DEF Timed
  <2>2. f.end =< l.start \/ r.end =< f.start
    BY <1>4, <1>13, <1>14, <1>15
  <2>3. QED BY <1>9, <1>15, <2>1, <2>2
<1>16. Joined(E, m, F, l, r, gap)
  BY <1>7, <1>12, <1>13, <1>14, <1>15 DEF Joined
<1>17. /\ Used(E, gap) \ {m} = Used(F, gap) \ {l, r}
       /\ Receipt(E, gap).elapsed = Receipt(F, gap).elapsed
  BY <1>1, <1>2, <1>5, <1>16, JoinedUse
<1>18. used \ {l, r} \subseteq used' /\ receipt'.elapsed = receipt.elapsed
  BY <1>11, <1>17
<1>19. QED BY <1>18 DEF l, r

(* Where no two rows claim the same source event, splitting a usable event  *)
(* that is active no longer than it lasts, or merging two that follow each  *)
(* other in a case, leaves the elapsed time of all cases as it was and the  *)
(* other events in use, and a split the active time (storage.py:            *)
(* split_event, merge_events).                                              *)
THEOREM EditsAlwaysKeepTime == Spec => EditsKeepTime
<1> DEFINE Kept ==
      events' # events /\ Unrepeated(events) /\ Unrepeated(events') =>
        /\ \A e \in used : e.dur =< Interval(e) /\ Splits(e) =>
              /\ receipt'.raw = receipt.raw /\ receipt'.elapsed = receipt.elapsed
              /\ used \ {e} \subseteq used'
        /\ \A p \in Steps(analysed) : Merges(p[1], p[2]) =>
              /\ receipt'.elapsed = receipt.elapsed
              /\ used \ {p[1], p[2]} \subseteq used'
<1>1. TInv /\ TInv' => Kept
  <2> SUFFICES ASSUME TInv, TInv', Unrepeated(events), Unrepeated(events')
               PROVE  /\ \A e \in used : e.dur =< Interval(e) /\ Splits(e) =>
                            /\ receipt'.raw = receipt.raw /\ receipt'.elapsed = receipt.elapsed
                            /\ used \ {e} \subseteq used'
                      /\ \A p \in Steps(analysed) : Merges(p[1], p[2]) =>
                            /\ receipt'.elapsed = receipt.elapsed
                            /\ used \ {p[1], p[2]} \subseteq used'
    OBVIOUS
  <2>1. RowsSound'
    BY DEF TInv
  <2>2. ASSUME NEW e \in used, e.dur =< Interval(e), Splits(e)
        PROVE  /\ receipt'.raw = receipt.raw /\ receipt'.elapsed = receipt.elapsed
               /\ used \ {e} \subseteq used'
    <3>1. PICK at \in SplitAt, a \in Activity \cup {e.act} : Split(e, at, e.act, a)
      BY <2>2 DEF Splits
    <3>2. QED BY <2>1, <2>2, <3>1, SplitTimes
  <2>3. ASSUME NEW p \in Steps(analysed), Merges(p[1], p[2])
        PROVE  /\ receipt'.elapsed = receipt.elapsed
               /\ used \ {p[1], p[2]} \subseteq used'
    <3>1. PICK a \in Activity \cup {p[1].act, p[1].act \o p[2].act} : Merge(p[1], p[2], a)
      BY <2>3 DEF Merges
    <3>2. QED BY <2>1, <2>3, <3>1, MergeTimes
  <2>4. QED BY <2>2, <2>3
<1>2. QED BY TimelineInductive, <1>1, PTL DEF EditsKeepTime
=============================================================================
