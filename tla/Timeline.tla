------------------------------ MODULE Timeline ------------------------------
(***************************************************************************)
(* The events of one project and every operation of EventStore on them     *)
(* (storage.py): imports of files, imports from a local ActivityWatch      *)
(* server, labels, edits of the timeline, settings, and the analyses that  *)
(* requests build from a snapshot and share through a cache.               *)
(*                                                                         *)
(* Operations on a store exclude each other (its mutation lock), and       *)
(* ProjectStore is about the copies of a store, its transactions and their *)
(* faults: here an operation is one step.  What it commits is seen by a    *)
(* request at once, the cache is cleared in a second step.                 *)
(*                                                                         *)
(* Identifiers are terms: <<"evt", x>>, <<"case", x>> and <<"source", x>>  *)
(* are the opaque references of migrations.py (a keyed hash of x), other   *)
(* tuples are what an importer or an edit makes up before the privacy      *)
(* boundary hashes it.                                                     *)
(***************************************************************************)
EXTENDS Analysis, Sequences

CONSTANTS
    Files,         \* contents of CSV and JSON files: sequences of rows
    Stored,        \* what a project may hold at the start
    Bucket,        \* buckets of the ActivityWatch server, numbered
    Observation,   \* what it may observe: [start, end, app, idle]
    Modes,         \* import modes offered for it
    Activity,      \* activities a user may type
    CaseName,      \* case identifiers a user may type
    App,           \* applications a user may exclude
    Gaps,          \* values of session_gap_minutes
    SplitAt,       \* split points
    Label,         \* manual labels
    MaxEdits,      \* bound: operations
    MaxWatched,    \* bound: requests are followed during that many operations
    MaxObserved    \* bound: observations per bucket

\* One name, or the names that merges joined.
IsName(x) == x = [i \in 1 .. Len(x) |-> x[i]] /\ Len(x) \in Nat \ {0}

\* A StandardEvent, and what the privacy boundary lets through.
IsEvent(e) ==
    /\ e = [id |-> e.id, source |-> e.source, src |-> e.src, case |-> e.case,
            origin |-> e.origin, quality |-> e.quality, act |-> e.act, app |-> e.app,
            start |-> e.start, end |-> e.end, dur |-> e.dur,
            idle |-> e.idle, timed |-> e.timed, hidden |-> e.hidden]
    /\ e.origin \in {"observed", "manual", "unassigned"}
    /\ e.quality \in {"", "approved", "unreviewed"}
    /\ {e.start, e.end, e.dur} \subseteq Nat
    /\ {e.idle, e.timed, e.hidden} \subseteq BOOLEAN
    /\ IsName(e.app)
Opaque(e) == /\ e.id[1] = "evt" /\ e.case[1] = "case" /\ e.src[1] = "source"
             /\ e.hidden => e.act = Unlabeled

\* What an importer reads, numbered.
IsFile(rows) ==
    /\ DOMAIN rows \subseteq Nat /\ IsFiniteSet(DOMAIN rows)
    /\ \A i \in DOMAIN rows : /\ {rows[i].start, rows[i].end, rows[i].dur} \subseteq Nat
                             /\ rows[i].idle \in BOOLEAN /\ IsName(rows[i].app)

ASSUME TimelineAssumption ==
    /\ Gaps \subseteq Nat /\ Gaps # {}
    /\ SplitAt \subseteq Nat
    /\ {MaxEdits, MaxWatched, MaxObserved} \subseteq Nat
    /\ Bucket \subseteq Nat /\ IsFiniteSet(Bucket)
    /\ \A o \in Observation : /\ {o.start, o.end} \subseteq Nat /\ o.start =< o.end
                              /\ o.idle \in BOOLEAN /\ IsName(o.app)
    /\ \A rows \in Files : IsFile(rows)
    /\ \A S \in Stored : /\ IsFiniteSet(S) /\ \A e \in S : IsEvent(e) /\ Opaque(e)
                         /\ \A e, f \in S : e.id = f.id => e = f

VARIABLES
    events,      \* the stored rows
    labels,      \* manual_labels: a function on some of their identifiers
    settings,    \* [gap, excluded]
    last,        \* last_import_fingerprint
    history,     \* number of rows of import_history
    reviews,     \* automation_reviews
    generation,  \* generation of the store
    pending,     \* an operation is committed and has yet to clear the cache
    cache,       \* _analysis_cache
    request,     \* the request that is computing an analysis
    feed,        \* what the ActivityWatch server holds
    done         \* the import just made, for the properties

stored == <<events, labels, settings, last, history, reviews>>
vars == <<stored, generation, pending, cache, request, feed, done>>

Nothing == <<>>

-----------------------------------------------------------------------------
(* The privacy boundary: every write passes it.                            *)

References(S) == UNION {{e.id, e.case, e.src} : e \in S}
Reference(kind, x, trusted) == IF x[1] = kind /\ x \in trusted THEN x ELSE <<kind, x>>

\* Mutant: the case identifier stays readable.
RedactTwo(e, trusted) ==
    [e EXCEPT !.id = Reference("evt", e.id, trusted), !.src = Reference("source", e.src, trusted)]

Redact(e, trusted) ==
    [e EXCEPT !.id = Reference("evt", e.id, trusted),
              !.case = Reference("case", e.case, trusted),
              !.src = Reference("source", e.src, trusted),
              !.act = IF e.hidden THEN Unlabeled ELSE e.act]

\* Mutant: only what comes in is trusted, and stored rows are hashed again.
CandidateRehashed(S, minimised) == {Redact(e, References(minimised)) : e \in S}

\* A candidate trusts the references of the events it replaces and of those
\* that were minimised on their way in.
Candidate(S, minimised) == {Redact(e, References(events \cup minimised)) : e \in S}

Allowed(e) == e.app \notin settings.excluded

-----------------------------------------------------------------------------
(* What an importer makes of a file: one event per row, its identifier     *)
(* hashed from its source identifier, start and activity.                  *)

\* Every ActivityWatch import is parsed as an export of it.
Origin(source) == IF source = "file" THEN "file" ELSE "activitywatch_export"

Parse(source, rows) ==
    [i \in DOMAIN rows |->
        LET r == rows[i]
            src == IF r.src = Nothing THEN <<"index", i>> ELSE r.src
            from == Origin(source)
        IN  [id |-> <<"row", from, src, r.start, r.act>>,
             source |-> from, src |-> <<"raw", src>>,
             case |-> IF r.case = "" THEN <<"unassigned", i>> ELSE <<"name", r.case>>,
             origin |-> IF r.case = "" THEN "unassigned" ELSE "observed",
             quality |-> "", act |-> r.act, app |-> r.app,
             start |-> r.start, end |-> r.end, dur |-> r.dur, idle |-> r.idle,
             timed |-> TRUE, hidden |-> FALSE]]

\* Minimised and filtered; rows that repeat an identifier are still there.
Minimised(source, rows) ==
    LET parsed == Parse(source, rows)
        redacted == [i \in DOMAIN parsed |-> Redact(parsed[i], {})]
    IN  [i \in {j \in DOMAIN redacted : Allowed(redacted[j])} |-> redacted[i]]

\* The n-th row of an identifier gets one derived from it.  The code orders
\* equal rows by their text, here by their place in the file.
Uniquified(rows) ==
    LET Rank(i) == Cardinality({j \in DOMAIN rows :
                      /\ rows[j].id = rows[i].id
                      /\ \/ Precedes(rows[j], rows[i])
                         \/ ~Precedes(rows[i], rows[j]) /\ j < i})
    IN  {IF Rank(i) = 0 THEN rows[i]
         ELSE [rows[i] EXCEPT !.id = <<"stored", rows[i].id, Rank(i)>>] : i \in DOMAIN rows}

\* How often each content occurs, whatever the rows are called.
Dataset(rows) == [c \in {Content(rows[i]) : i \in DOMAIN rows} |->
                    Cardinality({i \in DOMAIN rows : Content(rows[i]) = c})]
Fingerprint(source, rows) == <<source, Dataset(rows)>>
CurrentDataset == Dataset([e \in events |-> e])

\* The ActivityWatch export: rows are numbered through all buckets, and the
\* number is the source identifier.
Observed == UNION {{b} \X DOMAIN feed[b] : b \in Bucket}
Number(x) == Cardinality({y \in Observed : y[1] < x[1] \/ (y[1] = x[1] /\ y[2] =< x[2])})
Export ==
    [i \in 1 .. Cardinality(Observed) |->
        LET x == CHOOSE y \in Observed : Number(y) = i
            o == feed[x[1]][x[2]]
        IN  [src |-> <<"aw", x[1], i>>, case |-> "", act |-> o.app, app |-> o.app,
             start |-> o.start, end |-> o.end, dur |-> o.end - o.start, idle |-> o.idle]]

-----------------------------------------------------------------------------
Idle == [at |-> "idle", gen |-> 0, events |-> {}, gap |-> 0, answer |-> {}]

Init ==
    /\ events \in Stored
    /\ labels = Nothing /\ reviews = Nothing
    /\ \E g \in Gaps : settings = [gap |-> g, excluded |-> {}]
    /\ last = Nothing /\ history = 0
    /\ generation = 0 /\ pending = FALSE /\ cache = {}
    /\ request = Idle
    /\ feed = [b \in Bucket |-> <<>>]
    /\ done = Nothing

(* An operation commits the candidate rows S, of which those in minimised   *)
(* come from an import, with the labels L that still name a row.  The       *)
(* primary key refuses two rows of one identifier, and nothing is changed.  *)
Commit(S, minimised, L) ==
    LET rows == Candidate(S, minimised)
        ids == {e.id : e \in rows}
    IN  /\ ~pending /\ generation < MaxEdits
        /\ Cardinality(ids) = Cardinality(S)
        /\ events' = rows
        /\ labels' = [i \in DOMAIN L \cap ids |-> L[i]]
        /\ generation' = generation + 1
        /\ pending' = TRUE
        /\ UNCHANGED <<cache, request, feed>>

Edit(S, L) == /\ Commit(S, {}, L)
              /\ done' = Nothing
              /\ UNCHANGED <<settings, last, history, reviews>>

Without(i) == [j \in DOMAIN labels \ {i} |-> labels[j]]
Change(e, new) == Edit((events \ {e}) \cup {new}, labels)

-----------------------------------------------------------------------------
(* Imports.  A file replaces all events, and with them the labels.         *)

Replace(source, rows) ==
    LET filtered == Minimised(source, rows)
        new == Uniquified(filtered)
        key == Fingerprint(source, filtered)
    IN  /\ done' = <<"replace", source, rows>>
        /\ IF last = key /\ CurrentDataset = Dataset(filtered)
           THEN /\ ~pending
                /\ UNCHANGED <<stored, generation, pending, cache, request, feed>>
           ELSE /\ Commit(new, new, Nothing)
                /\ last' = key /\ history' = history + 1
                /\ UNCHANGED <<settings, reviews>>

ImportFile(rows) == Replace("file", rows)

\* Mutant: a retry is not recognised.
AppendAlways(source, rows) ==
    LET filtered == Minimised(source, rows)
        fresh == {i \in DOMAIN filtered : \A e \in events : e.id # filtered[i].id}
        new == Uniquified([i \in fresh |-> filtered[i]])
    IN  /\ done' = <<"append", source, rows>>
        /\ Commit(events \cup new, new, labels)
        /\ last' = Fingerprint(source, filtered) /\ history' = history + 1
        /\ UNCHANGED <<settings, reviews>>

(* append: rows already stored are left out; only the last import is        *)
(* recognised as a retry.                                                   *)
AppendRows(source, rows) ==
    LET filtered == Minimised(source, rows)
        fresh == {i \in DOMAIN filtered : \A e \in events : e.id # filtered[i].id}
        new == Uniquified([i \in fresh |-> filtered[i]])
        key == Fingerprint(source, filtered)
    IN  /\ done' = <<"append", source, rows>>
        /\ \/ /\ last = key /\ ~pending
              /\ UNCHANGED <<stored, generation, pending, cache, request, feed>>
           \/ /\ last # key
              /\ Commit(events \cup new, new, labels)
              /\ last' = key /\ history' = history + 1
              /\ UNCHANGED <<settings, reviews>>

ImportActivityWatch(mode) ==
    IF mode = "replace" THEN Replace("activitywatch_local", Export)
                        ELSE AppendRows(mode, Export)

\* The server observes on; a request fetches everything it holds.
Observe(b, o) ==
    /\ Len(feed[b]) < MaxObserved
    /\ \A c \in Bucket : \A n \in DOMAIN feed[c] : feed[c][n].end =< o.start
    /\ feed' = [feed EXCEPT ![b] = Append(@, o)]
    /\ done' = Nothing
    /\ UNCHANGED <<stored, generation, pending, cache, request>>

-----------------------------------------------------------------------------
(* Edits of one event.                                                      *)

SetLabel(e, label) == Edit(events, [i \in DOMAIN labels \cup {e.id} |->
                                      IF i = e.id THEN label ELSE labels[i]])

UpdateActivity(e, act) == Change(e, [e EXCEPT !.act = act])
Exclude(e) == Edit(events \ {e}, Without(e.id))
ReviewQuality(e, status) == Change(e, [e EXCEPT !.quality = status])
CorrectCase(e, case) == Change(e, [e EXCEPT !.case = case, !.origin = "manual"])

\* _event_time_bounds
Duration(e) == Max({Interval(e), e.dur})
End(e) == IF e.end =< e.start /\ Duration(e) > 0 THEN e.start + Duration(e) ELSE e.end

Part(e, n, act) == [e EXCEPT !.id = <<"split", e.id, n>>, !.src = <<"part", e.src, n>>,
                             !.act = act]

\* Mutant: the second part begins one unit late.
SplitLate(e, at, first, second) ==
    LET a == [Part(e, 1, first) EXCEPT !.end = e.start + at, !.dur = at]
        b == [Part(e, 2, second) EXCEPT !.start = e.start + at + 1, !.end = End(e) + 1,
                                        !.dur = Max({Duration(e) - at, 0})]
    IN  /\ e.timed
        /\ Duration(e) > 1
        /\ 0 < at /\ at < Duration(e)
        /\ Edit((events \ {e}) \cup {a, b}, Without(e.id))

Split(e, at, first, second) ==
    LET a == [Part(e, 1, first) EXCEPT !.end = e.start + at, !.dur = at]
        b == [Part(e, 2, second) EXCEPT !.start = e.start + at, !.end = End(e),
                                        !.dur = Max({Duration(e) - at, 0})]
    IN  /\ e.timed
        /\ Duration(e) > 1
        /\ 0 < at /\ at < Duration(e)
        /\ Edit((events \ {e}) \cup {a, b}, Without(e.id))

\* Neighbours in the order of (case, start, identifier); events of one case
\* that start together may stand in either order.
Neighbours(l, r) ==
    /\ l # r /\ l.case = r.case /\ l.start =< r.start
    /\ ~\E e \in events \ {l, r} :
          e.case = l.case /\ l.start < e.start /\ e.start < r.start

Merge(l, r, act) ==
    LET app == IF l.app = r.app THEN l.app ELSE l.app \o r.app
        new == [l EXCEPT !.id = <<"merge", l.id, r.id>>, !.src = <<"join", l.src, r.src>>,
                         !.app = app, !.act = act,
                         !.end = r.end, !.dur = Max({r.end - l.start, 0})]
    IN  /\ l.timed /\ r.timed
        /\ Neighbours(l, r)
        /\ Edit((events \ {l, r}) \cup {new},
                [j \in DOMAIN labels \ {l.id, r.id} |-> labels[j]])

-----------------------------------------------------------------------------
(* Operations on the whole project.                                         *)

Clear == /\ Commit({}, {}, Nothing)
         /\ last' = Nothing /\ history' = 0 /\ reviews' = Nothing
         /\ done' = Nothing
         /\ UNCHANGED settings

UpdateSettings(gap, excluded) ==
    /\ Commit({e \in events : e.app \notin excluded}, {}, labels)
    /\ settings' = [gap |-> gap, excluded |-> excluded]
    /\ done' = Nothing
    /\ UNCHANGED <<last, history, reviews>>

ReviewAutomation(act, status) ==
    /\ Commit(events, {}, labels)
    /\ reviews' = IF status = "unreviewed"
                  THEN [a \in DOMAIN reviews \ {act} |-> reviews[a]]
                  ELSE [a \in DOMAIN reviews \cup {act} |->
                          IF a = act THEN status ELSE reviews[a]]
    /\ done' = Nothing
    /\ UNCHANGED <<settings, last, history>>

-----------------------------------------------------------------------------
(* An analysis: the request takes a snapshot, then holds the analysis lock  *)
(* while it looks the result up or builds it and decides whether to keep it.*)

Locked == request.at \in {"building", "keeping"}

Ask ==
    /\ request.at = "idle" /\ ~pending /\ generation =< MaxWatched
    /\ request' = [Idle EXCEPT !.at = "asking", !.gen = generation,
                               !.events = events, !.gap = settings.gap]
    /\ UNCHANGED <<stored, generation, pending, cache, feed, done>>

Cached(r) == {c \in cache : c.gen = r.gen /\ c.gap = r.gap}

LookUp ==
    /\ request.at = "asking"
    /\ request' = IF Cached(request) = {}
                  THEN [request EXCEPT !.at = "building", !.answer = request.events]
                  ELSE [request EXCEPT !.at = "answered",
                                       !.answer = (CHOOSE c \in Cached(request) : TRUE).of]
    /\ UNCHANGED <<stored, generation, pending, cache, feed, done>>

\* Mutant: what was built is kept, whatever was committed meanwhile.
BuildAndKeep ==
    /\ request.at = "building"
    /\ request' = [request EXCEPT !.at = "keeping"]
    /\ UNCHANGED <<stored, generation, pending, cache, feed, done>>

Build ==
    /\ request.at = "building"
    /\ request' = [request EXCEPT !.at = IF request.gen = generation THEN "keeping"
                                                                      ELSE "answered"]
    /\ UNCHANGED <<stored, generation, pending, cache, feed, done>>

Keep ==
    /\ request.at = "keeping"
    /\ cache' = cache \cup {[gen |-> request.gen, gap |-> request.gap, of |-> request.answer]}
    /\ request' = [request EXCEPT !.at = "answered"]
    /\ UNCHANGED <<stored, generation, pending, feed, done>>

Answer ==
    /\ request.at = "answered"
    /\ request' = Idle
    /\ UNCHANGED <<stored, generation, pending, cache, feed, done>>

\* _apply_candidate waits for the analysis lock last.
Invalidate ==
    /\ pending /\ ~Locked
    /\ cache' = {} /\ pending' = FALSE
    /\ UNCHANGED <<stored, generation, request, feed, done>>

-----------------------------------------------------------------------------
Import == \/ \E rows \in Files : ImportFile(rows)
          \/ \E mode \in Modes : ImportActivityWatch(mode)
EditEvent == \E e \in events :
    \/ \E l \in Label : SetLabel(e, l)
    \/ \E a \in Activity : UpdateActivity(e, a)
    \/ Exclude(e)
    \/ \E q \in {"approved", "unreviewed"} : ReviewQuality(e, q)
    \/ \E c \in CaseName : CorrectCase(e, <<"name", c>>)
    \/ \E f \in events : CorrectCase(e, f.case)
SplitEvent == \E e \in events, at \in SplitAt :
    Split(e, at, e.act, e.act) \/ \E a \in Activity : Split(e, at, e.act, a)
MergeEvents == \E l, r \in events :
    Merge(l, r, IF l.act = r.act THEN l.act ELSE l.act \o r.act)
        \/ \E a \in Activity : Merge(l, r, a)
EditProject ==
    \/ Clear
    \/ \E g \in Gaps, x \in {{}} \cup {{a} : a \in App} : UpdateSettings(g, x)
    \/ \E a \in Activity, s \in {"adopted", "unreviewed"} : ReviewAutomation(a, s)
Analyse == Ask \/ LookUp \/ Build \/ Keep \/ Answer \/ Invalidate

Next == \/ Import
        \/ \E b \in Bucket, o \in Observation : Observe(b, o)
        \/ EditEvent \/ SplitEvent \/ MergeEvents
        \/ EditProject
        \/ Analyse

Spec == Init /\ [][Next]_vars
-----------------------------------------------------------------------------
(* The stored rows are behind the privacy boundary, labels name rows, and an *)
(* excluded application is not stored, but under a name that a merge joined. *)
TypeOK ==
    /\ IsFiniteSet(events) /\ \A e \in events : IsEvent(e) /\ Opaque(e)
    /\ \A e, f \in events : e.id = f.id => e = f
    /\ \A e \in events : Allowed(e) \/ Len(e.app) > 1
    /\ DOMAIN labels \subseteq {e.id : e \in events}
    /\ \A i \in DOMAIN labels : labels[i] \in Label
    /\ settings.gap \in Gaps /\ settings.excluded \subseteq App
    /\ generation \in 0 .. MaxEdits /\ history \in 0 .. MaxEdits
    /\ pending \in BOOLEAN
    /\ request.at \in {"idle", "asking", "building", "keeping", "answered"}

analysed == Cases(events, settings.gap)
used == Used(events, settings.gap)
receipt == Receipt(events, settings.gap)

\* The instants a set of events covers, one by one.
Covered(s) == UNION {e.start .. (e.end - 1) : e \in s}
TimeOf(s) == Cardinality(Covered(s))

(* The receipt accounts for every event (analysis.py:167), and its times     *)
(* count no instant of a case twice and lose none: measured instant by       *)
(* instant, active time is the union and elapsed time is union plus waiting. *)
TimeAddsUp ==
    /\ LET r == receipt IN r.used + r.excluded = r.input
    /\ \A s \in analysed :
          /\ UnionSeconds(s) = TimeOf(s)
          /\ Total(s, Interval) = TimeOf(s)
          /\ ElapsedSeconds(s) = TimeOf(s) + WaitingSeconds(s)
          /\ ElapsedSeconds(s) = Max({e.end : e \in s}) - Min({e.start : e \in s})

(* Two events of a case are in one session unless a stretch longer than the  *)
(* gap, in which the case is not active at all, lies between them, whatever  *)
(* lies inside or overlaps what (MINING_PIPELINE.md, 6).                     *)
SessionsAreConnected ==
    \A S \in BaseCases(events) : \A e, f \in S :
        f \in Session(S, settings.gap, e) <=>
            ~\E a \in {g.end : g \in S}, b \in {g.start : g \in S} :
                /\ b - a > settings.gap
                /\ Covered(S) \cap (a .. (b - 1)) = {}
                /\ \/ e.end =< a /\ b =< f.start
                   \/ f.end =< a /\ b =< e.start

(* No flow is invented: the events of an edge belong to one case that the    *)
(* source or a reviewer named, the later one begins at most a gap after the  *)
(* earlier one ends, and nothing usable of the case happens between them.    *)
NoInventedFlow ==
    \A p \in Steps(analysed) :
        /\ p[1].case = p[2].case
        /\ "unassigned" \notin {p[1].origin, p[2].origin}
        /\ p[2].start - p[1].end \in 0 .. settings.gap
        /\ \A e \in Eligible(events) \ {p[1], p[2]} :
              BaseCase(e) = BaseCase(p[1]) => e.end =< p[1].start \/ p[2].end =< e.start

(* Every result counts the same population: what enters an activity leaves   *)
(* it, every case is one variant, application times add up to the active     *)
(* time, and what a ranking names is in the graph (MINING_PIPELINE.md,       *)
(* "Output calculation contract").                                           *)
ResultsAgree ==
    LET C == analysed
        acts == Activities(C)
        In(a) == Total(acts, LAMBDA b : Cardinality(Edge(C, b, a)))
        Out(a) == Total(acts, LAMBDA b : Cardinality(Edge(C, a, b)))
        words == [rule |-> acts, transfer |-> acts]
        r == receipt
    IN  /\ \A a \in acts : /\ Starts(C, a) + In(a) = Frequency(C, a)
                           /\ Ends(C, a) + Out(a) = Frequency(C, a)
        /\ Total(acts, LAMBDA a : Frequency(C, a)) = r.used
        /\ Total(Variants(C), LAMBDA v : VariantCount(C, v)) = r.cases
        /\ Total(Variants(C), LAMBDA v : VariantCount(C, v) * (Len(v) - 1)) = Cardinality(Steps(C))
        /\ Total({e.app : e \in Events(C)}, LAMBDA x : AppUsage(C, x)) = r.raw
        /\ \A t \in RoundTrips(C) : {t[1], t[2]} \subseteq AppSwitches(C)
        /\ \A ab \in RepeatedPatterns(C) : Frequency(C, ab[1]) > 1 /\ Frequency(C, ab[2]) > 1
        /\ Cardinality(acts) = 1 => (Bottlenecks(C) = {} <=> r.raw < Slow * r.used)
        /\ \A a \in acts : AutomationScore(C, a, words) =<
                             200 * Max({Frequency(C, b) : b \in acts})

(* Every event is used or a person is told: the quality report lists each    *)
(* excluded event as to be corrected, with a remedy that can bring it back   *)
(* or drop it, and never counts it as approved.                              *)
NothingLeftOut ==
    LET items == QualityItems(events, settings.gap)
        kept == used
    IN  /\ \A e \in events \ kept : \E i \in items :
              /\ i.event = e /\ i.status = "requires_correction"
              /\ RecommendedAction(i) \in {"repair_source", "split_or_exclude"}
        /\ \A i \in items : i.event \in kept => i.status # "requires_correction"
        /\ QualitySummary(events, settings.gap).approved =
              Cardinality({e \in kept : e.quality = "approved"})

(* A request is answered for the snapshot it took, whatever was committed    *)
(* while it waited or built, and once an operation has returned the cache    *)
(* holds nothing of an older generation.                                     *)
AnswersItsSnapshot ==
    /\ request.at = "answered" => request.answer = request.events
    /\ ~pending => \A c \in cache : c.gen = generation /\ c.of = events

(* An edit of one or two events, an appended import or a new setting leaves  *)
(* every other event and its label as they were, although each write passes  *)
(* all rows through the privacy boundary again.                              *)
Keeps(S) == /\ S \subseteq events'
            /\ \A e \in S : e.id \in DOMAIN labels =>
                  e.id \in DOMAIN labels' /\ labels'[e.id] = labels[e.id]
Edits == /\ generation' # generation /\ events' # {}
         /\ <<history, settings>>' = <<history, settings>>
Untouched ==
    /\ Edits /\ events # {} =>
          \E e, f \in events : Keeps({x \in events : Allowed(x)} \ {e, f})
    /\ history' # history /\ done' # Nothing /\ done'[1] = "append" => Keeps(events)
    /\ settings' # settings => Keeps({e \in events : e.app \notin settings'.excluded})
OthersUntouched == [][Untouched]_vars

(* Splitting an event of a case, or merging two neighbours of one session,   *)
(* changes neither how long the cases last nor which other events are used,  *)
(* and a split not how long they are active either, provided no two rows     *)
(* claim the same source event.                                              *)
Unrepeated(E) == \A e, f \in E : Identity(e) = Identity(f) => e = f
Splits(e) == \E at \in SplitAt, a \in Activity \cup {e.act} : Split(e, at, e.act, a)
Merges(l, r) == \E a \in Activity \cup {l.act, l.act \o r.act} : Merge(l, r, a)
EditsKeepTime ==
    [][events' # events /\ Unrepeated(events) /\ Unrepeated(events') =>
        /\ \A e \in used : e.dur =< Interval(e) /\ Splits(e) =>
              /\ receipt'.raw = receipt.raw /\ receipt'.elapsed = receipt.elapsed
              /\ used \ {e} \subseteq used'
        /\ \A p \in Steps(analysed) : Merges(p[1], p[2]) =>
              /\ receipt'.elapsed = receipt.elapsed
              /\ used \ {p[1], p[2]} \subseteq used']_vars

(* Repeating the import just made, of a file or of what the server holds,    *)
(* changes nothing: no event, no label and no row of the import history.     *)
RetriesAddNothing == [][done # Nothing /\ done' = done => stored' = stored]_vars
=============================================================================
