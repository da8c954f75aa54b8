----------------------------- MODULE Recording -----------------------------
(***************************************************************************)
(* A recording: the RecordingManager of the local API (recording.py), the  *)
(* native agents it starts (mac-agent), the requests that stop a recording *)
(* or delete a project's data (app.py), and the copies of the project rows *)
(* through which events and audit rows are written (storage.py).           *)
(*                                                                         *)
(* The manager is protected by one lock, so a handler that runs under it   *)
(* is one action.  A stop is not: it waits for the agent between two       *)
(* sections under the lock.  Every handler that looks at the process first *)
(* runs _refresh_process_state, which is part of its action.               *)
(*                                                                         *)
(* Storage is reduced to what ProjectStore establishes about it: a commit  *)
(* through a copy succeeds exactly if the copy carries the durable         *)
(* revision, and such a copy is the durable rows (Coherent).               *)
(***************************************************************************)
EXTENDS Naturals, Sequences, FiniteSets

CONSTANTS
    Project,      \* project identifiers
    Legacy,       \* the project default_store() is bound to
    Asked,        \* bound: the projects requests are made about
    Client,       \* request threads that stop a recording or delete data
    MaxSession,   \* bound: recordings started
    MaxSegment,   \* bound: segments one agent observes
    MaxEdits,     \* bound: revision-bound edits made by other requests
    Env           \* what may happen around the manager, see below

(* "write": a write fails and is rolled back.  "unconfirmed": the outcome  *)
(* of a commit is unknown.  "timeout": a post outlives the agent's patience*)
(* "limit": the rate limit or the token's age refuses a post.  "kill": the *)
(* agent outlives the stop's patience.  "recache": a dashboard read caches *)
(* a view between the invalidation and the commit of an edit.  "crash":    *)
(* the API process dies and is started again.                              *)
Surroundings ==
    {"write", "unconfirmed", "timeout", "limit", "kill", "recache", "crash"}

ASSUME RecordingAssumption ==
    /\ Legacy \in Project
    /\ Asked \subseteq Project
    /\ MaxSession \in Nat /\ MaxSegment \in Nat /\ MaxEdits \in Nat
    /\ Env \subseteq Surroundings

SessionId == 1 .. MaxSession
Segment == 1 .. MaxSegment
Recorded == SessionId \X Segment   \* event_id is derived from session and sequence

VARIABLES
    live,       \* projects that exist
    db,         \* [Project -> Rows]: what SQLite holds
    root,       \* the rows in the memory of default_store()
    viewed,     \* projects with a cached view
    view,       \* [Project -> Rows]: the rows in the memory of a cached view
    session,    \* _session
    current,    \* the session whose _process, _token and _stop_file are held, or 0
    seen,       \* _seen_sequences
    stopFiles,  \* sessions whose stop file exists
    agent,      \* [SessionId -> Agent]: the agent processes
    wire,       \* posts the API has not handled yet
    req,        \* [Client -> Request]
    starting,   \* projects a start has resolved its store for and not yet locked the manager
    edits,      \* edits made so far
    skipped,    \* history: segments acknowledged as left out that were not stored before
    taken       \* history: stored segments an edit removed

storage == <<live, db, root, viewed, view>>
manager == <<session, current, seen, stopFiles>>
history == <<skipped, taken>>
vars == <<storage, manager, agent, wire, req, starting, edits, history>>

(* excludes: the settings exclude some application the agent observes.     *)
(* The marker of a recorded import lives and dies with its history row.    *)
Rows ==
    [rev : Nat, events : SUBSET Recorded, audit : Seq([session : SessionId, count : Nat]),
     excludes : BOOLEAN]

Empty == [rev |-> 0, events |-> {}, audit |-> <<>>, excludes |-> FALSE]

Session ==
    [id : 0 .. MaxSession, project : Project, active : BOOLEAN, paused : BOOLEAN,
     ended : BOOLEAN, count : Nat]

NoSession ==
    [id |-> 0, project |-> Legacy, active |-> FALSE, paused |-> FALSE, ended |-> FALSE, count |-> 0]

(* made: segments queued, head: the first one not acknowledged, ending:    *)
(* the loop is left, tries: flushes left, parent: the API process that     *)
(* started it lives, project: that of the recording (a history field).     *)
Agent ==
    [pc : {"unborn", "look", "send", "wait", "exited"}, made : 0 .. MaxSegment, head : Nat,
     ending : BOOLEAN, tries : 0 .. 3, parent : BOOLEAN, project : Project]

Unborn ==
    [pc |-> "unborn", made |-> 0, head |-> 1, ending |-> FALSE, tries |-> 0, parent |-> FALSE,
     project |-> Legacy]

Post == [session : SessionId, sequence : Segment, late : BOOLEAN]

(* kind: "delete" stops without an audit row and then clears.  held: the   *)
(* store the request resolved, the cached view or one of its own.          *)
Request ==
    [pc : {"idle", "wait", "finish", "clear"}, kind : {"stop", "delete"}, project : Project,
     shared : BOOLEAN, rows : Rows, process : 0 .. MaxSession]

Idle ==
    [pc |-> "idle", kind |-> "stop", project |-> Legacy, shared |-> FALSE, rows |-> Empty,
     process |-> 0]

Init ==
    /\ live = Project
    /\ db = [p \in Project |-> Empty]
    /\ root = Empty
    /\ viewed = {} /\ view = [p \in Project |-> Empty]
    /\ session = NoSession /\ current = 0 /\ seen = {} /\ stopFiles = {}
    /\ agent = [i \in SessionId |-> Unborn]
    /\ wire = {}
    /\ req = [c \in Client |-> Idle]
    /\ starting = {}
    /\ edits = 0
    /\ skipped = {} /\ taken = {}

-----------------------------------------------------------------------------
(* Stores.                                                                 *)

(* for_project without a revision: the cached view, or one built now.      *)
View(p) == IF p \in viewed THEN view[p] ELSE db[p]

Look(p) ==
    /\ p \in live
    /\ viewed' = viewed \cup {p}
    /\ view' = [view EXCEPT ![p] = View(p)]

(* A dropped view stays with the requests that hold it.                    *)
Drop(p) ==
    /\ viewed' = viewed \ {p}
    /\ view' = [view EXCEPT ![p] = Empty]

Detached(p) ==
    [c \in Client |-> IF req[c].shared /\ req[c].project = p
                      THEN [req[c] EXCEPT !.shared = FALSE, !.rows = view[p]] ELSE req[c]]

Held(c) == IF req[c].shared THEN view[req[c].project] ELSE req[c].rows

(* What a commit through a copy can come to.  "committed" and "undone" are *)
(* errors after which the copy was reloaded.                               *)
Outcomes(p, copy) ==
    (IF p \in live /\ copy.rev = db[p].rev
     THEN {"ok"} \cup (IF "unconfirmed" \in Env THEN {"committed"} ELSE {})
                 \cup (IF "write" \in Env THEN {"refused"} ELSE {})
     ELSE {"refused"})
    \cup (IF "unconfirmed" \in Env THEN {"undone"} ELSE {})

Commit(p, rows, outcome) ==
    db' = IF outcome \in {"ok", "committed"} THEN [db EXCEPT ![p] = rows] ELSE db

(* The rows in the memory of the store the commit went through.            *)
After(p, copy, outcome) == IF outcome = "refused" THEN copy ELSE db'[p]

-----------------------------------------------------------------------------
(* _refresh_process_state: what the manager knows once it polled.          *)

Exited == {i \in SessionId : agent[i].pc = "exited"}

Gone == current \in Exited

Known ==
    IF Gone /\ session.active THEN [session EXCEPT !.ended = TRUE, !.paused = FALSE] ELSE session

Process == IF Gone THEN 0 ELSE current

Files == IF Gone THEN stopFiles \ {current} ELSE stopFiles

RefreshAs(s) == session' = s /\ current' = Process /\ stopFiles' = Files

Recording(p) == Known.active /\ Known.project = p

(* A dashboard that polls the recording of its project.                    *)
Status(p) ==
    /\ Look(p)
    /\ RefreshAs(Known)
    /\ UNCHANGED <<live, db, root, seen, agent, wire, req, starting, edits, history>>

(* Identifiers are uuids; the model hands them out in order.               *)
Unused == {i \in SessionId : agent[i].pc = "unborn"}
NewSession == CHOOSE i \in Unused : \A j \in Unused : i <= j

(* The request resolves its store before it has the lock.  versioned: it   *)
(* carries the revision the client last saw.                               *)
StartBegins(p, versioned) ==
    /\ p \in live
    /\ Unused # {}
    /\ starting' = starting \cup {p}
    /\ IF versioned THEN Drop(p) /\ req' = Detached(p) ELSE Look(p) /\ UNCHANGED req
    /\ UNCHANGED <<live, db, root, manager, agent, wire, edits, history>>

(* Mutant: the project is not looked up again under the lock.              *)
StartableUnchecked(p) == ~Known.active

(* The project may have been deleted since the request resolved its store. *)
Startable(p) == ~Known.active /\ p \in live

Start(p) ==
    /\ p \in starting
    /\ starting' = starting \ {p}
    /\ \/ /\ Startable(p)
          /\ Unused # {}
          /\ session' = [NoSession EXCEPT !.id = NewSession, !.project = p, !.active = TRUE]
          /\ current' = NewSession
          /\ stopFiles' = Files
          /\ seen' = {}
          /\ agent' = [agent EXCEPT ![NewSession] = [Unborn EXCEPT !.pc = "look", !.parent = TRUE,
                                                              !.project = p]]
       \/ /\ ~Startable(p)
          /\ RefreshAs(Known)
          /\ UNCHANGED <<seen, agent>>
    /\ UNCHANGED <<storage, wire, req, edits, history>>

Pause(p) ==
    /\ Recording(p)
    /\ Look(p)
    /\ RefreshAs([Known EXCEPT !.paused = TRUE])
    /\ UNCHANGED <<live, db, root, seen, agent, wire, req, starting, edits, history>>

Resume(p) ==
    /\ Recording(p)
    /\ Look(p)
    /\ RefreshAs([Known EXCEPT !.paused = FALSE])
    /\ UNCHANGED <<live, db, root, seen, agent, wire, req, starting, edits, history>>

-----------------------------------------------------------------------------
(* The agent: main.swift.  Segments are queued when the frontmost app      *)
(* changes; heartbeats leave no trace the properties can see.              *)

Ended(a) == [a EXCEPT !.pc = "exited", !.tries = 0]

(* Top of the loop: leave it if the stop file exists or the parent died,   *)
(* queueing the last segment; else queue one if the app changed.  Then send*)
(* what is pending.                                                        *)
Observe(i) ==
    LET ends == i \in stopFiles \/ ~agent[i].parent
    IN  /\ agent[i].pc = "look"
        /\ \E n \in {agent[i].made, agent[i].made + 1} \cap (0 .. MaxSegment) :
              LET a == [agent[i] EXCEPT !.made = n, !.ending = ends, !.tries = IF ends THEN 3 ELSE 0]
              IN  agent' = [agent EXCEPT ![i] = IF a.head <= n THEN [a EXCEPT !.pc = "send"]
                                                ELSE IF ends THEN Ended(a) ELSE a]
        /\ UNCHANGED <<storage, manager, wire, req, starting, edits, history>>

PostHead(i) ==
    /\ agent[i].pc = "send"
    /\ agent' = [agent EXCEPT ![i].pc = "wait"]
    /\ wire' = wire \cup {[session |-> i, sequence |-> agent[i].head, late |-> FALSE]}
    /\ UNCHANGED <<storage, manager, req, starting, edits, history>>

(* Mutant: while ending, the agent passes over its queue until it is empty.*)
ReturnedForever(a, succeeded) == IF succeeded THEN [a EXCEPT !.head = @ + 1] ELSE a

(* Mutant: every failed pass is counted, not only those made while ending. *)
ReturnedCounted(a, succeeded) ==
    IF succeeded THEN [a EXCEPT !.head = @ + 1] ELSE [a EXCEPT !.tries = @ - 1]

(* Mutant: a segment leaves the queue whether or not its post succeeded.   *)
ReturnedRegardless(a, succeeded) == [a EXCEPT !.head = @ + 1]

(* client.post returned.  A failure ends the pass over the queue; while    *)
(* ending, three passes are made.                                          *)
Returned(a, succeeded) ==
    IF succeeded THEN [a EXCEPT !.head = @ + 1]
    ELSE IF a.ending THEN [a EXCEPT !.tries = @ - 1] ELSE a

Posted(a, succeeded) ==
    LET b == Returned(a, succeeded)
    IN  IF b.head <= b.made /\ (succeeded \/ b.tries > 0) THEN [b EXCEPT !.pc = "send"]
        ELSE IF b.ending THEN Ended(b) ELSE [b EXCEPT !.pc = "look"]

(* The agent gives up on a post that the API may still handle.             *)
GiveUp(i) ==
    LET m == [session |-> i, sequence |-> agent[i].head, late |-> FALSE]
    IN  /\ "timeout" \in Env
        /\ agent[i].pc = "wait"
        /\ agent' = [agent EXCEPT ![i] = Posted(@, FALSE)]
        /\ wire' = (wire \ {m}) \cup {[m EXCEPT !.late = TRUE]}
        /\ UNCHANGED <<storage, manager, req, starting, edits, history>>

-----------------------------------------------------------------------------
(* ingest.                                                                 *)

Answered(m, succeeded) ==
    /\ wire' = wire \ {m}
    /\ agent' = IF m.late THEN agent ELSE [agent EXCEPT ![m.session] = Posted(@, succeeded)]

(* Mutant: a token stays good after its recording was stopped.             *)
AuthorizedForever(m) == m.session = session.id

(* _authorize: the token belongs to the process the manager holds.         *)
Authorized(m) == session.active /\ current = session.id /\ m.session = session.id

(* 403 or 400: not authorised, over a limit, or a sequence already accepted*)
Refuse(m) ==
    /\ m \in wire
    /\ ~Authorized(m) \/ "limit" \in Env \/ m.sequence \in seen
    /\ Answered(m, FALSE)
    /\ UNCHANGED <<storage, manager, req, starting, edits, history>>

Acceptable(m) == m \in wire /\ Authorized(m) /\ m.sequence \notin seen

(* What SQLite holds of a recording, in whatever project.                  *)
Stored(i) == UNION {{e \in db[p].events : e[1] = i} : p \in Project}

(* What edits removed of it.                                               *)
Taken(i) == {e \in taken : e[1] = i}

(* Mutant: a post answered in a pause does not consume its sequence.       *)
ConsumedUnpaused(m) == IF session.paused THEN seen ELSE seen \cup {m.sequence}

(* Mutant: only what is left out consumes its sequence, since storage knows*)
(* the rest.                                                               *)
ConsumedLeftOut(m) ==
    IF session.paused \/ db[session.project].excludes THEN seen \cup {m.sequence} ELSE seen

Consumed(m) == seen \cup {m.sequence}

(* Acknowledged, and not stored unless an earlier attempt was.             *)
LeftOut(m) == skipped' = skipped \cup ({<<m.session, m.sequence>>} \ Stored(m.session))

Skip(m) ==
    /\ Acceptable(m) /\ session.paused
    /\ seen' = Consumed(m)
    /\ LeftOut(m) /\ UNCHANGED taken
    /\ Answered(m, TRUE)
    /\ UNCHANGED <<storage, session, current, stopFiles, req, starting, edits>>

(* Mutant: the store the request came with, default_store(), is used.      *)
BoundToDefault == Legacy

(* _session_store: whatever store the request came with, the one used is   *)
(* bound to the project of the session.                                    *)
BoundTo == session.project

(* Events of the legacy project go through default_store() itself, others  *)
(* through the cached view of their project.                               *)
Copy(p) == IF p = Legacy THEN root ELSE View(p)

Through(p, rows) ==
    IF p = Legacy
    THEN root' = rows /\ UNCHANGED <<viewed, view>>
    ELSE viewed' = viewed \cup {p} /\ view' = [view EXCEPT ![p] = rows] /\ UNCHANGED root

(* append filters by the settings in the copy, and counts no event.        *)
LeaveOut(m) ==
    /\ Acceptable(m) /\ ~session.paused
    /\ Copy(BoundTo).excludes
    /\ <<m.session, m.sequence>> \notin Copy(BoundTo).events
    /\ Through(BoundTo, Copy(BoundTo))
    /\ seen' = Consumed(m)
    /\ LeftOut(m) /\ UNCHANGED taken
    /\ Answered(m, TRUE)
    /\ UNCHANGED <<live, db, session, current, stopFiles, req, starting, edits>>

(* An event the copy already holds is not written again.                   *)
Store(m) ==
    LET p == BoundTo
        event == <<m.session, m.sequence>>
        copy == Copy(p)
        rows == [copy EXCEPT !.rev = @ + 1, !.events = @ \cup {event}]
    IN  /\ Acceptable(m) /\ ~session.paused
        /\ \/ /\ event \in copy.events
              /\ db' = db /\ Through(p, copy)
              /\ seen' = Consumed(m) /\ UNCHANGED session
              /\ Answered(m, TRUE)
           \/ /\ event \notin copy.events
              /\ \E outcome \in Outcomes(p, copy) :
                    /\ Commit(p, rows, outcome) /\ Through(p, After(p, copy, outcome))
                    /\ IF outcome = "ok"
                       THEN /\ seen' = Consumed(m)
                            /\ session' = [session EXCEPT !.count = @ + 1]
                       ELSE UNCHANGED <<seen, session>>
                    /\ Answered(m, outcome = "ok")
        /\ UNCHANGED <<live, current, stopFiles, req, starting, edits, history>>

-----------------------------------------------------------------------------
(* Stopping a recording, deleting a project's data.                        *)

(* Mutant: the agent is not told.                                          *)
TouchedNone == Files

(* A process the manager holds is asked to stop by its stop file.          *)
Touched == Files \cup ({Process} \ {0})

(* With no recording of that project a stop does what Status does.         *)
StopBegins(c, p) ==
    /\ req[c].pc = "idle"
    /\ Recording(p)
    /\ Look(p)
    /\ session' = Known /\ current' = Process /\ stopFiles' = Touched
    /\ req' = [req EXCEPT ![c] = [Idle EXCEPT !.pc = "wait", !.project = p, !.shared = TRUE,
                                              !.process = Process]]
    /\ UNCHANGED <<live, db, root, seen, agent, wire, starting, edits, history>>

(* A confirmed deletion, which carries a revision, stops an active         *)
(* recording of the project first.                                         *)
DeleteDataBegins(c, p) ==
    LET request == [Idle EXCEPT !.kind = "delete", !.project = p, !.rows = db[p]]
    IN  /\ req[c].pc = "idle"
        /\ p \in live
        /\ edits < MaxEdits /\ edits' = edits + 1
        /\ Drop(p)
        /\ session' = Known /\ current' = Process
        /\ IF Recording(p)
           THEN /\ stopFiles' = Touched
                /\ req' = [Detached(p) EXCEPT ![c] = [request EXCEPT !.pc = "wait", !.process = Process]]
           ELSE /\ stopFiles' = Files
                /\ req' = [Detached(p) EXCEPT ![c] = [request EXCEPT !.pc = "clear"]]
        /\ UNCHANGED <<live, db, root, seen, agent, wire, starting, history>>

(* Mutant: the stop does not wait for the agent.                           *)
AgentLeftBehind(c) ==
    /\ req[c].pc = "wait"
    /\ req' = [req EXCEPT ![c].pc = "finish", ![c].process = 0]
    /\ UNCHANGED <<storage, manager, agent, wire, starting, edits, history>>

(* process.wait(timeout=8) returns.                                        *)
AgentLeft(c) ==
    /\ req[c].pc = "wait"
    /\ req[c].process \in {0} \cup Exited
    /\ req' = [req EXCEPT ![c].pc = "finish", ![c].process = 0]
    /\ UNCHANGED <<storage, manager, agent, wire, starting, edits, history>>

(* It expires: the agent is terminated, the API may still handle its post. *)
Terminate(c) ==
    LET i == req[c].process
    IN  /\ "kill" \in Env
        /\ req[c].pc = "wait" /\ i # 0 /\ agent[i].pc # "exited"
        /\ agent' = [agent EXCEPT ![i] = Ended(@)]
        /\ wire' = {IF m.session = i THEN [m EXCEPT !.late = TRUE] ELSE m : m \in wire}
        /\ req' = [req EXCEPT ![c].pc = "finish", ![c].process = 0]
        /\ UNCHANGED <<storage, manager, starting, edits, history>>

Closed == [session EXCEPT !.paused = FALSE, !.ended = TRUE]

Finalised ==
    /\ session' = [Closed EXCEPT !.active = FALSE]
    /\ current' = 0
    /\ stopFiles' = stopFiles \ {current}

(* Mutant: the marker of an earlier attempt is not looked for.             *)
NeedsAuditAgain(c, copy) == req[c].kind = "stop" /\ session.count > 0

(* record_import writes nothing if the marker of the session is there.     *)
NeedsAudit(c, copy) ==
    /\ req[c].kind = "stop"
    /\ session.count > 0
    /\ \A k \in DOMAIN copy.audit : copy.audit[k].session # session.id

(* The second section under the lock acts on the session it finds.  One    *)
(* that cannot be audited stays active, so that the stop can be retried.   *)
Finish(c) ==
    LET p == BoundTo
        own == req[c].project = p
        copy == IF own THEN Held(c) ELSE db[p]
        row == [session |-> session.id, count |-> session.count]
    IN  /\ req[c].pc = "finish"
        /\ \/ /\ ~NeedsAudit(c, copy)
              /\ Finalised
              /\ req' = [req EXCEPT ![c] = IF @.kind = "delete" THEN [@ EXCEPT !.pc = "clear"] ELSE Idle]
              /\ UNCHANGED <<db, view>>
           \/ /\ NeedsAudit(c, copy)
              /\ \E outcome \in Outcomes(p, copy) :
                    /\ Commit(p, [copy EXCEPT !.rev = @ + 1, !.audit = Append(@, row)], outcome)
                    /\ view' = IF own /\ req[c].shared
                               THEN [view EXCEPT ![p] = After(p, copy, outcome)] ELSE view
                    /\ IF outcome = "ok" THEN Finalised
                       ELSE session' = Closed /\ UNCHANGED <<current, stopFiles>>
              /\ req' = [req EXCEPT ![c] = Idle]
        /\ UNCHANGED <<live, root, viewed, seen, agent, wire, starting, edits, history>>

(* The store of a deletion is its own, nothing else reads its memory.      *)
Clear(c) ==
    LET p == req[c].project
    IN  /\ req[c].pc = "clear"
        /\ \E outcome \in Outcomes(p, req[c].rows) :
              Commit(p, [Empty EXCEPT !.rev = req[c].rows.rev + 1,
                                      !.excludes = req[c].rows.excludes], outcome)
        /\ req' = [req EXCEPT ![c] = Idle]
        /\ UNCHANGED <<live, root, viewed, view, manager, agent, wire, starting, edits, history>>

-----------------------------------------------------------------------------
(* The rest of the API, as far as a recording notices it.                  *)

Rewritten(r, kept, excludes) ==
    [r EXCEPT !.rev = @ + 1, !.events = kept, !.excludes = excludes]

(* Any other revision-bound write of a project: events are excluded, split *)
(* or merged into events of other identifiers, replaced by an import, or   *)
(* filtered by new settings; labels, cases and imports leave them alone.   *)
(* The row of a recording stays as it is.                                  *)
Edit(p) ==
    /\ p \in live
    /\ edits < MaxEdits /\ edits' = edits + 1
    /\ \E kept \in SUBSET db[p].events, excludes \in BOOLEAN :
          /\ db' = [db EXCEPT ![p] = Rewritten(db[p], kept, excludes)]
          /\ taken' = taken \cup (db[p].events \ kept)
    /\ req' = Detached(p)
    /\ \/ Drop(p)
       \/ /\ "recache" \in Env
          /\ viewed' = viewed \cup {p}
          /\ view' = [view EXCEPT ![p] = db[p]]
    /\ UNCHANGED <<live, root, manager, agent, wire, starting, skipped>>

(* project_deletion_guard, then delete_project.                            *)
DeleteProject(p) ==
    /\ p \in live /\ live # {p}
    /\ ~Recording(p)
    /\ db[p].events = {}
    /\ live' = live \ {p}
    /\ db' = [db EXCEPT ![p] = Empty]
    /\ RefreshAs(Known)
    /\ Drop(p) /\ req' = Detached(p)
    /\ UNCHANGED <<root, seen, agent, wire, starting, edits, history>>

(* The API process is gone and started again; its agents lost their parent *)
(* and their posts.                                                        *)
Crash ==
    /\ "crash" \in Env
    /\ Legacy \in live
    /\ root' = db[Legacy]
    /\ viewed' = {} /\ view' = [p \in Project |-> Empty]
    /\ session' = NoSession /\ current' = 0 /\ seen' = {}
    /\ req' = [c \in Client |-> Idle]
    /\ wire' = {}
    /\ starting' = {}
    /\ agent' = [i \in SessionId |->
                    [(IF agent[i].pc = "wait" THEN Posted(agent[i], FALSE) ELSE agent[i])
                        EXCEPT !.parent = FALSE]]
    /\ UNCHANGED <<live, db, stopFiles, edits, history>>

-----------------------------------------------------------------------------

AgentStep(i) == Observe(i) \/ PostHead(i)

Handle(m) == Refuse(m) \/ Skip(m) \/ LeaveOut(m) \/ Store(m)

RequestStep(c) == AgentLeft(c) \/ Finish(c) \/ Clear(c)

Dashboard ==
    \E p \in Asked :
        \/ Status(p) \/ Pause(p) \/ Resume(p) \/ Edit(p) \/ DeleteProject(p)
        \/ Start(p) \/ \E versioned \in BOOLEAN : StartBegins(p, versioned)
        \/ \E c \in Client : StopBegins(c, p) \/ DeleteDataBegins(c, p)

Next ==
    \/ Dashboard
    \/ \E i \in SessionId : AgentStep(i) \/ GiveUp(i)
    \/ \E m \in wire : Handle(m)
    \/ \E c \in Client : RequestStep(c) \/ Terminate(c)
    \/ Crash

Spec == Init /\ [][Next]_vars

(* Processes and threads keep running; the user asks again as long as the  *)
(* recording is active.                                                    *)
Fairness ==
    /\ \A i \in SessionId : WF_vars(AgentStep(i))
    /\ \A m \in Post : WF_vars(Handle(m))
    /\ \A c \in Client : WF_vars(RequestStep(c))
    /\ WF_vars(\E c \in Client, p \in Asked : StopBegins(c, p))

FairSpec == Spec /\ Fairness

-----------------------------------------------------------------------------
(* Properties.                                                             *)

TypeOK ==
    /\ live \subseteq Project
    /\ db \in [Project -> Rows] /\ root \in Rows
    /\ viewed \subseteq Project /\ view \in [Project -> Rows]
    /\ session \in Session
    /\ current \in 0 .. MaxSession
    /\ seen \subseteq Segment
    /\ stopFiles \subseteq SessionId
    /\ agent \in [SessionId -> Agent]
    /\ wire \subseteq Post
    /\ req \in [Client -> Request]
    /\ starting \subseteq Project
    /\ edits \in 0 .. MaxEdits
    /\ skipped \subseteq Recorded /\ taken \subseteq Recorded

Running(i) == agent[i].pc \in {"look", "send", "wait"}

(* A recorded event is only ever stored in the project its recording was   *)
(* started for, whatever project is active, deleted or edited meanwhile    *)
(* (_session_store).                                                       *)
EventsInTheirProject ==
    \A p \in Project : \A e \in db[p].events : agent[e[1]].project = p

(* What was acknowledged without being stored, because the session was     *)
(* paused or the settings exclude its application, and not stored before,  *)
(* is never stored, not even when the agent, which did not hear the answer,*)
(* posts it again after the recording was resumed or the settings were     *)
(* changed (_seen_sequences).                                              *)
LeftOutStaysOut == \A i \in SessionId : Stored(i) \cap skipped = {}

(* While the outcome of every commit is known, what an edit of the user    *)
(* removed stays removed: the agent's repeated post of a segment whose     *)
(* answer it did not hear does not bring it back (_seen_sequences; the     *)
(* store no longer knows the event).                                       *)
TakenStaysOut == \A i \in SessionId : Stored(i) \cap taken = {}

(* However often a stop is repeated, by whomever, and whatever became of   *)
(* its commits, a project's history tells of a recording once (the marker  *)
(* of record_import).                                                      *)
AuditedOnce ==
    \A p \in Project : \A j, k \in DOMAIN db[p].audit :
        db[p].audit[j].session = db[p].audit[k].session => j = k

(* The audit row of a recording never claims more events than were stored  *)
(* for it, those included that an edit has removed since, whatever became  *)
(* of the commits of events and of the row itself.                         *)
(* Two clients that stop recordings of one project cannot break this; with *)
(* overlapping stops of several projects stop's second section, which does *)
(* not look which session it finds (recording.py:278), can write a line    *)
(* that claims events a deletion has cleared.                              *)
AuditNeverOverstates ==
    \A p \in Project : \A k \in DOMAIN db[p].audit :
        LET row == db[p].audit[k]
        IN  row.count <= Cardinality(Stored(row.session) \cup Taken(row.session))

(* The history of a project tells of each recording once and claims nothing*)
(* that was not stored.                                                    *)
AuditSound == AuditedOnce /\ AuditNeverOverstates

(* While the outcome of every commit is known, the row counts exactly what *)
(* was stored: an event an edit removes meanwhile is counted, and nothing  *)
(* the agent posted too late is added behind the row.                      *)
AuditedTruly ==
    \A p \in Project : \A k \in DOMAIN db[p].audit :
        LET row == db[p].audit[k]
        IN  row.count = Cardinality(Stored(row.session) \cup Taken(row.session))

(* The project of an active recording exists (project_deletion_guard and   *)
(* the check start makes under the same lock).                             *)
RecordedProjectLives == session.active => session.project \in live

(* A segment the agent drops from its queue, because a post was answered,  *)
(* is stored, unless it was left out in a pause or by the settings, or an  *)
(* edit of the user removed it after it was stored.                        *)
AcknowledgedIsKept ==
    session.active =>
        \A n \in 1 .. agent[session.id].head - 1 :
            <<session.id, n>> \in Stored(session.id) \cup skipped \cup taken

(* An agent runs only while its recording is active, being stopped, or     *)
(* about to notice that the API process died.                              *)
NoStrayAgent ==
    \A i \in SessionId :
        Running(i) => \/ ~agent[i].parent
                      \/ i \in stopFiles
                      \/ current = i /\ session.active

(* An agent told to stop by its stop file, or whose parent died, exits.    *)
AgentWindsDown ==
    \A i \in SessionId : (i \in stopFiles \/ ~agent[i].parent) /\ Running(i) ~> ~Running(i)

(* app.py:1790: stopping must not trap "the user in an un-stoppable active *)
(* session".  A recording the user keeps asking to stop becomes inactive.  *)
StopCompletes == session.active ~> ~session.active
=============================================================================
