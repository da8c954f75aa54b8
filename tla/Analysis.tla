------------------------------ MODULE Analysis ------------------------------
(***************************************************************************)
(* What the mining core computes from the stored events of a project:      *)
(* services/mining-core/src/opsmineflow_mining/analysis.py prepares the    *)
(* events (deduplication, validation, cases, sessions, the receipt) and    *)
(* pipeline.py derives every result from the same prepared events.         *)
(*                                                                         *)
(* An event is a record                                                    *)
(*    [id, source, src, case, origin, quality, act, app, start, end, dur,  *)
(*     idle, timed, hidden]                                                *)
(* with whole instants.  origin is the provenance of its case ("observed", *)
(* "manual" or "unassigned"), quality the reviewer's mark ("" if none),    *)
(* timed says that both timestamps parse, hidden that its activity was     *)
(* taken from a window title.  The code sorts the events of a case by      *)
(* (start, end, source, source id, id); the definitions below say the same *)
(* with sets, because events that a sequential result uses never tie.      *)
(***************************************************************************)
EXTENDS Integers, FiniteSets, FiniteSetsExt

CONSTANTS
    Tolerance,      \* a duration may differ that much from its interval
    Brief, Lengthy, \* a duration below or from that on is worth a review
    Slow            \* a bottleneck lasts that long on average

ASSUME AnalysisAssumption ==
    /\ {Tolerance, Brief, Lengthy, Slow} \subseteq Nat
    /\ Brief =< Lengthy

\* Activities and applications are sequences of names: a merge joins two.
Unlabeled == <<"unlabeled activity">>

Total(S, Measure(_)) == SumFunction([x \in S |-> Measure(x)])

Interval(e) == e.end - e.start
Distance(x, y) == IF x < y THEN y - x ELSE x - y
Precedes(e, f) == \/ e.start < f.start
                  \/ e.start = f.start /\ e.end < f.end

-----------------------------------------------------------------------------
(* Preparation: one source event once, usable intervals, cases, sessions.  *)

Identity(e) == <<e.source, e.src>>
SameSource(E, e) == {f \in E : Identity(f) = Identity(e)}
Content(e) == [e EXCEPT !.id = ""]
Conflicting(E, e) == \E f \in SameSource(E, e) : Content(f) # Content(e)

\* Of equal records the first in the order of their identifiers is kept; that
\* order is one of hashes, hence an arbitrary but fixed choice.
Deduplicated(E) == {e \in E : /\ ~Conflicting(E, e)
                              /\ e = CHOOSE f \in SameSource(E, e) : TRUE}

\* Why an event is no usable observation, "" if it is one.
Flaw(e) ==
    CASE ~e.timed -> "invalid_timestamp"
      [] e.timed /\ e.end < e.start -> "negative_interval"
      [] e.timed /\ e.end = e.start -> "zero_duration"
      [] e.timed /\ e.end > e.start /\ Distance(e.dur, Interval(e)) > Tolerance ->
            "duration_interval_mismatch"
      [] OTHER -> IF e.idle THEN "idle_event" ELSE ""

Eligible(E) == {e \in Deduplicated(E) : Flaw(e) = ""}

\* Mutant: unassigned events are one case per identifier, too.
BaseCaseByName(e) == <<"case", e.case>>

\* origin is what correlation_for reads; rows that state none are left out.
BaseCase(e) == IF e.origin \in {"observed", "manual"} THEN <<"case", e.case>>
                                                      ELSE <<"alone", e.id>>

BaseCases(E) == {{f \in Eligible(E) : BaseCase(f) = BaseCase(e)} : e \in Eligible(E)}

\* Mutant: a pause as long as the gap ends a session.
OpensAtGap(S, gap) == {t \in {e.start : e \in S} :
                         \A f \in S : f.start < t => t - f.end >= gap}

\* The instants at which a new session of the events S begins: more than gap
\* after the latest end of everything that began earlier.
Opens(S, gap) == {t \in {e.start : e \in S} :
                    \A f \in S : f.start < t => t - f.end > gap}

Session(S, gap, e) ==
    LET Last(f) == Max({t \in Opens(S, gap) : t =< f.start})
    IN  {f \in S : Last(f) = Last(e)}
SplitSessions(S, gap) == {Session(S, gap, e) : e \in S}
Sessions(E, gap) == UNION {SplitSessions(S, gap) : S \in BaseCases(E)}

\* Mutant: only an event inside another one overlaps it.
OverlapsNested(s) == \E e, f \in s : e # f /\ e.start =< f.start /\ f.end =< e.end

Overlaps(s) == \E e, f \in s : e # f /\ e.start < f.end /\ f.start < e.end

\* Only a session without overlap is a case of the analysis.
Cases(E, gap) == {s \in Sessions(E, gap) : ~Overlaps(s)}
Used(E, gap) == UNION Cases(E, gap)

Reason(E, e) ==
    IF Conflicting(E, e) THEN "conflicting_source_event_id"
    ELSE IF e \notin Deduplicated(E) THEN "duplicate_event"
    ELSE IF Flaw(e) # "" THEN Flaw(e) ELSE "overlapping_or_parallel_session"

\* Every step counts what it drops, as the code does; nothing is computed as
\* the rest.
Excluded(E, gap) ==
    {<<e, Reason(E, e)>> : e \in E \ Deduplicated(E)}
        \cup {<<e, Flaw(e)>> : e \in Deduplicated(E) \ Eligible(E)}
        \cup {<<e, Reason(E, e)>> : e \in UNION {s \in Sessions(E, gap) : Overlaps(s)}}

-----------------------------------------------------------------------------
(* A session in order, its measures and its provenance.                    *)

First(s) == CHOOSE e \in s : \A f \in s : ~Precedes(f, e)
Last(s) == CHOOSE e \in s : \A f \in s : ~Precedes(e, f)
Adjacent(s) == {p \in s \X s : /\ Precedes(p[1], p[2])
                               /\ ~\E f \in s : Precedes(p[1], f) /\ Precedes(f, p[2])}
Nth(s, n) == CHOOSE e \in s : Cardinality({f \in s : Precedes(f, e)}) = n - 1
Between(p) == Max({p[2].start - p[1].end, 0})

UnionSeconds(s) ==
    LET Span(i) == Max({e.end : e \in i}) - Min({e.start : e \in i})
    IN  Total(SplitSessions(s, 0), Span)
ElapsedSeconds(s) == Last(s).end - First(s).start
WaitingSeconds(s) == Total(Adjacent(s), Between)

Confidence(origin) == CASE origin = "observed" -> "high"
                        [] origin = "manual" -> "medium"
                        [] OTHER -> "low"
CombinedCorrelation(s) ==
    LET origins == {e.origin : e \in s}
        worst == CHOOSE o \in origins : \A p \in origins :
                    Confidence(p) = "low" => Confidence(o) = "low"
                    /\ (Confidence(p) = "medium" => Confidence(o) # "high")
    IN  [origin |-> IF Cardinality(origins) = 1 THEN CHOOSE o \in origins : TRUE
                    ELSE IF "unassigned" \in origins THEN "inferred" ELSE "observed",
         confidence |-> Confidence(worst)]

Receipt(E, gap) ==
    LET cases == Cases(E, gap)
        excluded == Excluded(E, gap)
    IN  [input |-> Cardinality(E),
         used |-> Total(cases, Cardinality),
         excluded |-> Cardinality(excluded),
         byReason |-> [r \in {x[2] : x \in excluded} |->
                         Cardinality({x \in excluded : x[2] = r})],
         cases |-> Cardinality(cases),
         origins |-> [o \in {CombinedCorrelation(s).origin : s \in cases} |->
                        Cardinality({s \in cases : CombinedCorrelation(s).origin = o})],
         raw |-> Total(Used(E, gap), Interval),
         union |-> Total(cases, UnionSeconds),
         elapsed |-> Total(cases, ElapsedSeconds),
         waiting |-> Total(cases, WaitingSeconds)]

-----------------------------------------------------------------------------
(* Results over the cases C of an analysis.                                *)

Events(C) == UNION C
Activities(C) == {e.act : e \in Events(C)}
Of(C, a) == {e \in Events(C) : e.act = a}
Frequency(C, a) == Cardinality(Of(C, a))
\* Mutant: a repeated activity is no step.
StepsOfChange(C) == {p \in UNION {Adjacent(s) : s \in C} : p[1].act # p[2].act}

Steps(C) == UNION {Adjacent(s) : s \in C}

Edge(C, a, b) == {p \in Steps(C) : p[1].act = a /\ p[2].act = b}
Starts(C, a) == Cardinality({s \in C : First(s).act = a})
Ends(C, a) == Cardinality({s \in C : Last(s).act = a})

Variant(s) == [n \in 1 .. Cardinality(s) |-> Nth(s, n).act]
Variants(C) == {Variant(s) : s \in C}
VariantCount(C, v) == Cardinality({s \in C : Variant(s) = v})

AppSwitches(C) == {p \in Steps(C) : p[1].app # p[2].app}
RoundTrips(C) == {t \in Steps(C) \X Steps(C) :
                    LET p == t[1]  q == t[2]
                    IN  p[2] = q[1] /\ p[1].app = q[2].app /\ p[1].app # p[2].app}
RepeatedPatterns(C) == {ab \in Activities(C) \X Activities(C) :
                          Cardinality(Edge(C, ab[1], ab[2])) > 1}

\* average >= overall average and >= Slow, without dividing.
Bottlenecks(C) ==
    LET time(a) == Total(Of(C, a), Interval)
        all == Total(Events(C), Interval)
    IN  {a \in Activities(C) :
            /\ time(a) * Cardinality(Events(C)) >= all * Frequency(C, a)
            /\ time(a) >= Slow * Frequency(C, a)}

AppUsage(C, x) == Total({e \in Events(C) : e.app = x}, Interval)
Handovers(C) == {p[1].act : p \in Steps(C)} \cup {p[2].act : p \in Steps(C)}

\* Twice the score in hundredths, times the largest frequency; words tells the
\* activities whose wording suggests a rule or a transfer.
AutomationScore(C, a, words) ==
    LET most == Max({Frequency(C, b) : b \in Activities(C)})
    IN  20 * Min({Frequency(C, a), 3}) * most + 40 * Frequency(C, a)
          + (IF a \in words.rule THEN 40 ELSE 16) * most
          + (IF a \in Handovers(C) THEN 30 ELSE 9) * most
          + (IF a \in words.transfer THEN 30 ELSE 9) * most

-----------------------------------------------------------------------------
(* The quality report of the stored events (app.py).                       *)

QualityIssues(e) ==
    (IF ~e.timed \/ e.end < e.start THEN {"invalid_time"} ELSE {})
    \cup (CASE e.dur =< 0 -> {"zero_duration"}
            [] e.dur > 0 /\ e.dur < Brief -> {"short_duration"}
            [] e.dur >= Lengthy -> {"long_duration"}
            [] OTHER -> {})
    \cup (IF e.timed /\ e.end > e.start /\ Distance(e.dur, Interval(e)) > Tolerance
            THEN {"duration_interval_mismatch"} ELSE {})
    \cup (IF e.act = Unlabeled THEN {"unlabeled"}
            ELSE IF e.act = e.app THEN {"low_confidence"} ELSE {})
    \cup (IF e.origin = "unassigned" THEN {"case_correlation_low_confidence"} ELSE {})

QualityStatus(e) == IF e.quality = "" THEN "unreviewed" ELSE e.quality

\* Mutant: the report lists only events with an issue of their own.
QualityItemsOfIssues(E, gap) ==
    {[event |-> e, issues |-> QualityIssues(e), reasons |-> {}, status |-> QualityStatus(e)]
        : e \in {f \in E : QualityIssues(f) # {}}}

\* The items of the report: each event with an issue of its own or with a
\* reason that keeps it out of the analysis.
QualityItems(E, gap) ==
    LET out == Excluded(E, gap)
        reasons(e) == {x[2] : x \in {y \in out : y[1] = e}}
    IN  {[event |-> e, issues |-> QualityIssues(e), reasons |-> reasons(e),
          status |-> IF reasons(e) # {} THEN "requires_correction" ELSE QualityStatus(e)]
            : e \in {f \in E : QualityIssues(f) # {} \/ reasons(f) # {}}}

QualitySummary(E, gap) ==
    LET unresolved == {i \in QualityItems(E, gap) : i.status # "approved"}
        out == {x[1] : x \in Excluded(E, gap)}
        size(i) == Cardinality(i.issues) + Cardinality(i.reasons)
    IN  [affected |-> Cardinality(unresolved),
         issues |-> Total(unresolved, size),
         approved |-> Cardinality({e \in E \ out : QualityStatus(e) = "approved"})]

RecommendedAction(i) ==
    IF i.reasons \cap {"duplicate_event", "conflicting_source_event_id", "invalid_timestamp"} # {}
    THEN "repair_source"
    ELSE IF i.reasons # {} THEN "split_or_exclude"
    ELSE IF i.issues \cap {"unlabeled", "low_confidence"} # {} THEN "edit_label"
    ELSE IF "case_correlation_low_confidence" \in i.issues THEN "edit_case_correlation"
    ELSE IF i.issues \cap {"long_duration", "zero_duration", "invalid_time",
                           "duration_interval_mismatch"} # {} THEN "split_or_exclude"
    ELSE "review"
=============================================================================
