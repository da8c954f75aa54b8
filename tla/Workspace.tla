----------------------------- MODULE Workspace -----------------------------
(***************************************************************************)
(* What the project storage of the local API promises, with no stores, no  *)
(* caches and no requests: a catalogue of projects in which every change   *)
(* of a project is one operation applied to its latest rows and moves its  *)
(* revision by one, a project is deleted only when it is empty and not the *)
(* last, and the active project always exists.  ProjectStore implements it.*)
(***************************************************************************)
EXTENDS ProjectData

VARIABLES
    status,    \* [Project -> "unborn" | "live" | "deleted"]
    durable,   \* [Project -> Rows]: what a SELECT would return
    active     \* workspace_metadata.active_project_id

workspaceVars == <<status, durable, active>>

Live == {p \in Project : status[p] = "live"}

Init ==
    /\ status = [p \in Project |-> IF p = Legacy THEN "live" ELSE "unborn"]
    /\ durable = [p \in Project |-> NoRows]
    /\ active = Legacy

(* No update is lost: the operation sees the rows the previous one left.   *)
Change(p, op) ==
    /\ p \in Live
    /\ Accepts(op, durable[p]) /\ ~IsNoOp(op, durable[p])
    /\ durable' = [durable EXCEPT ![p] = Candidate(op, @)]
    /\ UNCHANGED <<status, active>>

Create(p) ==
    /\ status[p] = "unborn"
    /\ status' = [status EXCEPT ![p] = "live"]
    /\ UNCHANGED <<durable, active>>

Select(p) ==
    /\ p \in Live
    /\ active' = p
    /\ UNCHANGED <<status, durable>>

Rename(p) ==
    /\ p \in Live
    /\ durable' = [durable EXCEPT ![p].rev = @ + 1]
    /\ UNCHANGED <<status, active>>

Delete(p) ==
    /\ p \in Live
    /\ durable[p].events = {}
    /\ \E heir \in Live \ {p} : active' = IF active = p THEN heir ELSE active
    /\ status' = [status EXCEPT ![p] = "deleted"]
    /\ durable' = [durable EXCEPT ![p] = NoRows]

Next ==
    \E p \in Project :
        \/ \E op \in Operation : Change(p, op)
        \/ Create(p)
        \/ Select(p)
        \/ Rename(p)
        \/ Delete(p)

Spec == Init /\ [][Next]_workspaceVars

-----------------------------------------------------------------------------

TypeOK ==
    /\ status \in [Project -> {"unborn", "live", "deleted"}]
    /\ durable \in [Project -> Rows]
    /\ active \in Project

(* The desktop can always open the active project, and a label never names *)
(* an event the project no longer has.                                     *)
WorkspaceInv ==
    /\ active \in Live
    /\ \A p \in Project : durable[p].labels \subseteq durable[p].events
=============================================================================
