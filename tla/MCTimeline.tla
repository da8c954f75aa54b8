----------------------------- MODULE MCTimeline -----------------------------
(***************************************************************************)
(* An instance of Timeline for TLC.  A unit of time stands for a second.   *)
(***************************************************************************)
EXTENDS Timeline

A == <<"a">>
B == <<"b">>
X == <<"x">>
Y == <<"y">>

Row(src, case, act, start, end, dur, app) ==
    [src |-> src, case |-> case, act |-> act, start |-> start, end |-> end, dur |-> dur,
     app |-> app, idle |-> FALSE]

\* A case with a pause, a duration off by one, and an event without a case.
flow == << Row(<<"s", 1>>, "A", A, 0, 2, 2, X), Row(<<"s", 2>>, "A", B, 2, 4, 4, Y),
           Row(<<"s", 3>>, "A", A, 6, 8, 2, X), Row(<<>>, "", B, 1, 2, 1, X) >>
\* A repeated row, an overlap and an interval that ends before it begins.
messy == << Row(<<"s", 1>>, "A", A, 0, 2, 2, X), Row(<<"s", 1>>, "A", A, 0, 2, 2, X),
            Row(<<"s", 2>>, "A", B, 1, 3, 3, Y), Row(<<"s", 4>>, "A", B, 5, 4, 0, Y) >>
\* One identifier for two different rows, and an idle one.
conflict == << Row(<<"s", 1>>, "A", A, 0, 2, 2, X), Row(<<"s", 1>>, "A", A, 0, 3, 3, X),
               [Row(<<"s", 3>>, "A", B, 3, 4, 1, Y) EXCEPT !.idle = TRUE] >>

MCFiles == {flow, messy, conflict}

\* Left by an older release: no usable time, and an activity from a title.
legacy == [id |-> <<"evt", <<"old">>>>, source |-> "file", src |-> <<"source", <<"old">>>>,
           case |-> <<"case", <<"name", "A">>>>, origin |-> "observed", quality |-> "",
           act |-> Unlabeled, app |-> X, start |-> 0, end |-> 0, dur |-> 2, idle |-> FALSE,
           timed |-> FALSE, hidden |-> TRUE]
\* What an earlier import of flow left of its n-th row.
Kept(n) ==
    LET r == Parse("file", flow)[n]
    IN  [r EXCEPT !.id = <<"evt", r.id>>, !.src = <<"source", r.src>>,
                  !.case = <<"case", r.case>>]
\* Two steps of a case, kept from before.
MCStored == {{}, {legacy}, {Kept(1), Kept(2)}}

MCObservation == {[start |-> 0, end |-> 1, app |-> X, idle |-> FALSE],
                  [start |-> 1, end |-> 3, app |-> Y, idle |-> FALSE]}
MCActivity == {B}
MCApp == {X}
=============================================================================
