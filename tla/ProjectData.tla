---------------------------- MODULE ProjectData ----------------------------
(***************************************************************************)
(* The rows one project owns in the SQLite database of the local API and   *)
(* what each data operation of EventStore (storage.py) makes of them.      *)
(*                                                                         *)
(* A row set keeps what the storage protocol can tell apart: the optimistic*)
(* revision of the project, its events, the events that carry a manual     *)
(* label (standing for every table beside events), and the metadata flag   *)
(* "initialized".  An event is an opaque identifier: its payload never     *)
(* decides whether a write is accepted.                                    *)
(***************************************************************************)
EXTENDS Naturals

CONSTANTS
    Project,   \* project identifiers (uuid4 strings)
    Legacy,    \* LEGACY_PROJECT_ID, the project the process-wide store is bound to
    Event      \* event identifiers

ASSUME LegacyAssumption == Legacy \in Project

Rows == [rev : Nat, events : SUBSET Event, labels : SUBSET Event, initialized : BOOLEAN]

NoRows == [rev |-> 0, events |-> {}, labels |-> {}, initialized |-> FALSE]

(* The operations a request may carry.  "replace" is an import in replace  *)
(* mode and the seeding of the sample, "append" an import in append mode   *)
(* and a recorded event, "exclude" stands for the timeline edits that drop *)
(* an event, "label" for those that annotate one.                          *)
Operation ==
    [kind : {"append", "replace", "exclude", "label"}, event : Event]
        \cup [kind : {"clear"}]

(* set_label and exclude_event raise KeyError for an event they cannot find. *)
Accepts(op, rows) == op.kind \in {"exclude", "label"} => op.event \in rows.events

(* append of an event that is already stored returns 0 without a commit.   *)
IsNoOp(op, rows) == op.kind = "append" /\ op.event \in rows.events

(* The tables of the candidate state an operation builds from a snapshot.  *)
Edited(op, rows) ==
    CASE op.kind = "append"  -> [rows EXCEPT !.events = @ \cup {op.event}, !.initialized = TRUE]
      [] op.kind = "replace" -> [rows EXCEPT !.events = {op.event}, !.labels = {}, !.initialized = TRUE]
      [] op.kind = "exclude" -> [rows EXCEPT !.events = @ \ {op.event}, !.labels = @ \ {op.event},
                                             !.initialized = TRUE]
      [] op.kind = "label"   -> [rows EXCEPT !.labels = @ \cup {op.event}]
      [] op.kind = "clear"   -> [rows EXCEPT !.events = {}, !.labels = {}, !.initialized = TRUE]

(* _candidate: only labels of live events survive, the revision moves by one. *)
Candidate(op, rows) ==
    LET edited == Edited(op, rows)
    IN  [edited EXCEPT !.labels = @ \cap edited.events, !.rev = @ + 1]
=============================================================================
