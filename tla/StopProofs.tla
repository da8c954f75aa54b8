------------------------------ MODULE StopProofs ------------------------------
(***************************************************************************)
(* What a stop achieves when stops do not overlap: no agent is left behind,*)
(* and the history counts what was stored.  A stop looks at the session    *)
(* again only after it waited for the agent; while another request waits   *)
(* at the same time, what it finds need not be the session it stopped, and *)
(* both statements fail (see the double_stop run).  And, however stops     *)
(* overlap, what edits achieve while the outcome of commits is known: what *)
(* the user removed is not stored again.                                   *)
(***************************************************************************)
EXTENDS RecordingProofs

(* Requests that stop a recording or delete data come one after the other. *)
OneClient == \A c, d \in Client : c = d

(* Whoever stops a recording finds it active when it comes back, and the   *)
(* manager holds no process but the one that was waited for.               *)
Waits ==
    \A c \in Client :
        /\ req[c].pc \in {"wait", "finish"} => session.active
        /\ req[c].pc = "wait" => current \in {0, req[c].process}
        /\ req[c].pc = "finish" => current \in {0} \cup Exited

(* AuditNeverOverstates, read off the project the line is in.              *)
LinesCovered ==
    \A p \in Project : \A k \in DOMAIN db[p].audit :
        db[p].audit[k].count <= Cardinality(Ever(db[p], db[p].audit[k].session, taken))

StopInv == RecInv /\ Waits /\ NoStrayAgent /\ LinesCovered

(* While every outcome is known, the manager knows the sequence of all that*)
(* was ever stored of its recording, counts it, and no line is written     *)
(* before the recording is over.                                           *)
AllSeen ==
    session.active => \A e \in Ever(db[session.project], session.id, taken) : e[2] \in seen

Counted ==
    session.active =>
        /\ session.count = Cardinality(Ever(db[session.project], session.id, taken))
        /\ \A p \in Project : \A k \in DOMAIN db[p].audit :
              db[p].audit[k].session # session.id

(* AuditedTruly, read off the project the line is in.                      *)
LinesExact ==
    \A p \in Project : \A k \in DOMAIN db[p].audit :
        db[p].audit[k].count = Cardinality(Ever(db[p], db[p].audit[k].session, taken))

ExactInv == StopInv /\ AllSeen /\ Counted /\ LinesExact

(* Nothing of an edit comes back: it takes the same knowledge of sequences.*)
TakenInv == RecInv /\ AllSeen /\ TakenStaysOut
-----------------------------------------------------------------------------
(* What a step does to agents: none but a start brings one to life.        *)

AgentsGoOn ==
    \A i \in SessionId :
        /\ agent[i].pc = "exited" => agent'[i].pc = "exited"
        /\ Running(i)' => Running(i) /\ (agent'[i].parent => agent[i].parent)

(* One agent moves on; the others stay.                                    *)
LEMMA OneAgentGoesOn ==
  ASSUME TypeOK, NEW i \in SessionId, NEW a, agent' = [agent EXCEPT ![i] = a],
         agent[i].pc # "exited", Running(i) \/ a.pc \notin {"look", "send", "wait"},
         a.parent = agent[i].parent
  PROVE  AgentsGoOn
<1>1. agent'[i] = a /\ \A j \in SessionId \ {i} : agent'[j] = agent[j]
  BY DEF TypeOK
<1>2. QED BY <1>1 DEF AgentsGoOn, Running

LEMMA AnsweredGoesOn ==
  ASSUME RecInv, NEW m \in wire, NEW s \in BOOLEAN, Answered(m, s)
  PROVE  AgentsGoOn
<1>0. TypeOK
  BY DEF RecInv
<1>1. m.session \in SessionId /\ m.late \in BOOLEAN
  BY <1>0 DEF TypeOK, Post
<1>2. CASE m.late
  BY <1>2 DEF Answered, AgentsGoOn, Running
<1>3. CASE ~m.late
  <2>1. /\ agent[m.session] \in Agent /\ AgentSound(agent[m.session])
        /\ agent[m.session].pc = "wait"
    BY <1>0, <1>1, <1>3 DEF RecInv, TypeOK, AgentsSound, PostsSound, PostSound
  <2>2. Posted(agent[m.session], s).parent = agent[m.session].parent
    BY <2>1, PostedAgent
  <2>3. agent' = [agent EXCEPT ![m.session] = Posted(agent[m.session], s)]
    BY <1>3 DEF Answered
  <2>4. QED BY <1>0, <1>1, <2>1, <2>2, <2>3, OneAgentGoesOn DEF Running
<1>4. QED BY <1>1, <1>2, <1>3

LEMMA AgentStepGoesOn ==
  ASSUME RecInv, NEW i \in SessionId, Observe(i) \/ PostHead(i) \/ GiveUp(i)
  PROVE  AgentsGoOn
<1>0. TypeOK /\ agent[i] \in Agent /\ AgentSound(agent[i])
  BY DEF RecInv, TypeOK, AgentsSound
<1>1. CASE Observe(i)
  <2> DEFINE ends == i \in stopFiles \/ ~agent[i].parent
             a(n) == [agent[i] EXCEPT !.made = n, !.ending = ends, !.tries = IF ends THEN 3 ELSE 0]
  <2>1. PICK n \in {agent[i].made, agent[i].made + 1} \cap (0 .. MaxSegment) :
           agent' = [agent EXCEPT ![i] = IF a(n).head <= n THEN [a(n) EXCEPT !.pc = "send"]
                                         ELSE IF ends THEN Ended(a(n)) ELSE a(n)]
    BY <1>1 DEF Observe
  <2>2. /\ [a(n) EXCEPT !.pc = "send"].parent = agent[i].parent
        /\ Ended(a(n)).parent = agent[i].parent /\ a(n).parent = agent[i].parent
    BY <1>0 DEF Agent, Ended
  <2>3. agent[i].pc = "look"
    BY <1>1 DEF Observe
  <2> HIDE DEF a
  <2>4. QED BY <1>0, <2>1, <2>2, <2>3, OneAgentGoesOn DEF Running
<1>2. CASE PostHead(i)
  <2>1. agent[i].pc = "send" /\ agent' = [agent EXCEPT ![i].pc = "wait"]
    BY <1>2 DEF PostHead
  <2>2. agent'[i].parent = agent[i].parent /\ \A j \in SessionId \ {i} : agent'[j] = agent[j]
    BY <1>0, <2>1 DEF TypeOK, Agent
  <2>3. QED BY <2>1, <2>2 DEF AgentsGoOn, Running
<1>3. CASE GiveUp(i)
  <2>1. agent[i].pc = "wait" /\ agent' = [agent EXCEPT ![i] = Posted(agent[i], FALSE)]
    BY <1>3 DEF GiveUp
  <2>2. Posted(agent[i], FALSE).parent = agent[i].parent
    BY <1>0, <2>1, PostedAgent
  <2>3. QED BY <1>0, <2>1, <2>2, OneAgentGoesOn DEF Running
<1>4. QED BY <1>1, <1>2, <1>3

LEMMA TerminateGoesOn ==
  ASSUME RecInv, NEW c \in Client, Terminate(c)
  PROVE  AgentsGoOn /\ req[c].process \in SessionId /\ agent'[req[c].process].pc = "exited"
<1> DEFINE i == req[c].process
<1>0. TypeOK
  BY DEF RecInv
<1>1. i \in SessionId
  <2>1. i \in 0 .. MaxSession
    BY <1>0, CopyTypes DEF Request
  <2>2. QED BY <2>1, RecordingAssumption DEF Terminate, SessionId
<1>2. /\ agent[i].pc # "exited" /\ agent' = [agent EXCEPT ![i] = Ended(agent[i])]
  BY DEF Terminate
<1>3. Ended(agent[i]).pc = "exited" /\ Ended(agent[i]).parent = agent[i].parent
  <2>1. agent[i] \in Agent /\ agent[i].head \in 1 .. agent[i].made + 1
    BY <1>0, <1>1 DEF RecInv, TypeOK, AgentsSound, AgentSound
  <2>2. QED BY <2>1, EndedAgent
<1>4. AgentsGoOn
  BY <1>0, <1>1, <1>2, <1>3, OneAgentGoesOn
<1>5. agent'[i].pc = "exited"
  BY <1>0, <1>1, <1>2, <1>3 DEF TypeOK
<1>6. QED BY <1>1, <1>4, <1>5

LEMMA CrashGoesOn ==
  ASSUME RecInv, Crash
  PROVE  AgentsGoOn /\ \A i \in SessionId : ~agent'[i].parent
<1>1. ASSUME NEW i \in SessionId
      PROVE  /\ ~agent'[i].parent
             /\ agent[i].pc = "exited" => agent'[i].pc = "exited"
             /\ Running(i)' => Running(i)
  <2> DEFINE a == IF agent[i].pc = "wait" THEN Posted(agent[i], FALSE) ELSE agent[i]
  <2>1. agent'[i] = [a EXCEPT !.parent = FALSE]
    BY DEF Crash
  <2>2. agent[i] \in Agent /\ AgentSound(agent[i])
    BY DEF RecInv, TypeOK, AgentsSound
  <2>3. a \in Agent /\ (agent[i].pc # "wait" => a.pc = agent[i].pc)
    BY <2>2, PostedAgent
  <2> HIDE DEF a
  <2>4. ~agent'[i].parent /\ agent'[i].pc = a.pc
    BY <2>1, <2>3 DEF Agent
  <2>5. QED BY <2>3, <2>4 DEF Running
<1>2. QED BY <1>1 DEF AgentsGoOn
-----------------------------------------------------------------------------
(* Requests that wait, and agents nobody would stop.                       *)

(* Nothing new waits, and what is waited for is not replaced.              *)
LEMMA WaitsGoOn ==
  ASSUME RecInv, Waits, AgentsGoOn, current' \in {0, current},
         \A c \in Client :
            req'[c].pc \in {"wait", "finish"} =>
               /\ req'[c].pc = req[c].pc /\ req'[c].process = req[c].process
               /\ session'.active = session.active
  PROVE  Waits'
<1>1. current \in 0 .. MaxSession
  BY DEF RecInv, TypeOK
<1>2. Exited \subseteq Exited'
  BY DEF Exited, AgentsGoOn
<1>3. QED BY <1>2 DEF Waits

(* What the manager held stays held, or is gone.                           *)
LEMMA StraysGoOn ==
  ASSUME NoStrayAgent, AgentsGoOn,
         stopFiles \subseteq stopFiles' \cup Exited,
         session.active =>
            \/ session'.active /\ current' = current
            \/ current \notin SessionId \/ current \in Exited
  PROVE  NoStrayAgent'
<1> SUFFICES ASSUME NEW i \in SessionId, Running(i)', agent'[i].parent
             PROVE  i \in stopFiles' \/ (current' = i /\ session'.active)
  BY DEF NoStrayAgent
<1>1. Running(i) /\ agent[i].parent
  BY DEF AgentsGoOn
<1>2. i \notin Exited
  BY <1>1 DEF Running, Exited
<1>3. QED BY <1>1, <1>2 DEF NoStrayAgent

(* A poll lets go of a process that exited, and of its stop file.          *)
LEMMA PolledEffect ==
  ASSUME RecInv,
         session' \in {Known, [Known EXCEPT !.paused = TRUE], [Known EXCEPT !.paused = FALSE]},
         current' = Process, stopFiles' \in {Files, Touched}
  PROVE  /\ current' \in {0, current} /\ session'.active = session.active
         /\ stopFiles \subseteq stopFiles' \cup Exited
         /\ current' = current \/ current \in Exited
<1>1. session'.active = session.active /\ Process \in {0, current}
  BY KnownSession DEF RecInv
<1>2. stopFiles \subseteq stopFiles' \cup Exited
  BY DEF Files, Touched, Gone
<1>3. Process = current \/ current \in Exited
  BY DEF Process, Gone
<1>4. QED BY <1>1, <1>2, <1>3

(* A start goes through, or does what Status does without looking.         *)
StartRefused(p) ==
    /\ starting' = starting \ {p} /\ RefreshAs(Known)
    /\ UNCHANGED <<storage, seen, agent, wire, req, edits, history>>

LEMMA StartOutcomes ==
  ASSUME NEW p \in Asked, Start(p)
  PROVE  Started(p) \/ StartRefused(p)
  BY DEF Start, Started, StartRefused

(* Requests that leave the manager's process alone, or poll it.            *)
LEMMA PollWaits ==
  ASSUME RecInv, Waits, NoStrayAgent, NEW p \in Asked,
         \/ Status(p) \/ Pause(p) \/ Resume(p) \/ DeleteProject(p) \/ Edit(p)
         \/ StartRefused(p) \/ \E versioned \in BOOLEAN : StartBegins(p, versioned)
  PROVE  Waits' /\ NoStrayAgent'
<1>0. TypeOK /\ RequestSound /\ p \in Project
  BY RecordingAssumption DEF RecInv
<1>1. /\ current' \in {0, current} /\ session'.active = session.active
      /\ stopFiles \subseteq stopFiles' \cup Exited
      /\ current' = current \/ current \in Exited
  <2>1. CASE Edit(p) \/ \E versioned \in BOOLEAN : StartBegins(p, versioned)
    BY <2>1 DEF Edit, StartBegins, manager
  <2>2. CASE Status(p) \/ Pause(p) \/ Resume(p) \/ DeleteProject(p) \/ StartRefused(p)
    BY <2>2, PolledEffect DEF Status, Pause, Resume, DeleteProject, StartRefused, RefreshAs
  <2>3. QED BY <2>1, <2>2
<1>2. agent' = agent
  BY DEF Status, Pause, Resume, DeleteProject, Edit, StartRefused, StartBegins
<1>3. AgentsGoOn
  BY <1>2 DEF AgentsGoOn, Running
<1>4. \A c \in Client : req'[c].pc = req[c].pc /\ req'[c].process = req[c].process
  <2>1. req' = req \/ req' = Detached(p)
    BY DEF Status, Pause, Resume, DeleteProject, Edit, StartRefused, StartBegins
  <2>2. QED BY <1>0, <2>1, DetachedEffect
<1>5. Waits'
  BY <1>1, <1>3, <1>4, WaitsGoOn
<1>6. NoStrayAgent'
  BY <1>1, <1>3, StraysGoOn
<1>7. QED BY <1>5, <1>6

(* A recording starts only if none is active: nobody waits.                *)
LEMMA StartWaits ==
  ASSUME RecInv, Waits, NoStrayAgent, NEW p \in Asked, Started(p)
  PROVE  Waits' /\ NoStrayAgent'
<1>0. TypeOK /\ RequestSound /\ p \in Project
  BY RecordingAssumption DEF RecInv
<1>1. ~session.active
  BY <1>0, KnownSession DEF Started, Startable
<1>2. req' = req
  BY DEF Started
<1>3. Waits'
  BY <1>1, <1>2 DEF Waits
<1>4. NoStrayAgent'
  <2>1. NewSession \in SessionId
    BY NewIsUnused DEF Started
  <2>2. \A i \in SessionId \ {NewSession} : agent'[i] = agent[i]
    BY <1>0, <2>1 DEF Started, TypeOK
  <2>3. session'.active /\ current' = NewSession
    BY <1>0, <2>1 DEF Started, NoSession
  <2>4. \A i \in SessionId : Running(i) /\ i \in stopFiles => i \in stopFiles'
    BY DEF Started, Files, Gone, Exited, Running
  <2>5. QED BY <1>1, <2>2, <2>3, <2>4 DEF NoStrayAgent, Running
<1>5. QED BY <1>3, <1>4

(* Who begins to wait waits for the process the manager holds.             *)
LEMMA BeginWaits ==
  ASSUME RecInv, Waits, NoStrayAgent, NEW p \in Asked, NEW c \in Client,
         StopBegins(c, p) \/ DeleteDataBegins(c, p)
  PROVE  Waits' /\ NoStrayAgent'
<1>0. TypeOK /\ RequestSound /\ p \in Project
  BY RecordingAssumption DEF RecInv
<1>1. /\ current' \in {0, current} /\ session'.active = session.active
      /\ stopFiles \subseteq stopFiles' \cup Exited
      /\ current' = current \/ current \in Exited
  BY PolledEffect DEF StopBegins, DeleteDataBegins
<1>2. agent' = agent
  BY DEF StopBegins, DeleteDataBegins
<1>3. AgentsGoOn
  BY <1>2 DEF AgentsGoOn, Running
<1>4. \A d \in Client \ {c} : req'[d].pc = req[d].pc /\ req'[d].process = req[d].process
  <2>1. CASE StopBegins(c, p)
    BY <1>0, <2>1 DEF StopBegins, TypeOK
  <2>2. CASE DeleteDataBegins(c, p)
    <3>1. Detached(p) \in [Client -> Request]
      BY <1>0, DetachedEffect
    <3>2. \A d \in Client \ {c} : req'[d] = Detached(p)[d]
      BY <2>2, <3>1 DEF DeleteDataBegins
    <3>3. QED BY <1>0, <3>2, DetachedEffect
  <2>3. QED BY <2>1, <2>2
<1>5. \/ req'[c].pc = "wait" /\ req'[c].process = current' /\ session.active
      \/ req'[c].pc = "clear"
  <2>1. Known.active = session.active
    BY <1>0, KnownSession
  <2>2. CASE StopBegins(c, p)
    BY <1>0, <2>1, <2>2 DEF StopBegins, TypeOK, Recording, Idle
  <2>3. CASE DeleteDataBegins(c, p)
    <3>1. Detached(p) \in [Client -> Request]
      BY <1>0, DetachedEffect
    <3>2. CASE Recording(p)
      <4> DEFINE r == [Idle EXCEPT !.kind = "delete", !.project = p, !.rows = db[p]]
      <4>1. req'[c] = [r EXCEPT !.pc = "wait", !.process = Process]
        BY <2>3, <3>1, <3>2 DEF DeleteDataBegins
      <4>2. req'[c].pc = "wait" /\ req'[c].process = Process
        BY <4>1 DEF Idle
      <4>3. QED BY <2>1, <2>3, <3>2, <4>2 DEF DeleteDataBegins, Recording
    <3>3. CASE ~Recording(p)
      <4> DEFINE r == [Idle EXCEPT !.kind = "delete", !.project = p, !.rows = db[p]]
      <4>1. req'[c] = [r EXCEPT !.pc = "clear"]
        BY <2>3, <3>1, <3>3 DEF DeleteDataBegins
      <4>2. QED BY <4>1 DEF Idle
    <3>4. QED BY <3>2, <3>3
  <2>4. QED BY <2>2, <2>3
<1>6. Waits'
  <2>1. Exited' = Exited
    BY <1>2 DEF Exited
  <2>2. QED BY <1>1, <1>4, <1>5, <2>1 DEF Waits
<1>7. NoStrayAgent'
  BY <1>1, <1>3, StraysGoOn
<1>8. QED BY <1>6, <1>7

(* Agents and posts do not concern the manager's process.                  *)
LEMMA TrafficWaits ==
  ASSUME RecInv, Waits, NoStrayAgent, AgentsGoOn,
         session'.active = session.active, UNCHANGED <<current, stopFiles, req>>
  PROVE  Waits' /\ NoStrayAgent'
<1>1. Waits'
  BY WaitsGoOn
<1>2. NoStrayAgent'
  BY StraysGoOn
<1>3. QED BY <1>1, <1>2

LEMMA HandleWaits ==
  ASSUME RecInv, Waits, NoStrayAgent, NEW m \in wire, Handle(m)
  PROVE  Waits' /\ NoStrayAgent'
<1>1. PICK s \in BOOLEAN : Answered(m, s)
  <2>1. CASE Refuse(m)
    BY <2>1 DEF Refuse
  <2>2. CASE Skip(m)
    BY <2>2 DEF Skip
  <2>3. CASE Store(m)
    BY <2>3 DEF Store
  <2>4. CASE LeaveOut(m)
    BY <2>4 DEF LeaveOut
  <2>5. QED BY <2>1, <2>2, <2>3, <2>4 DEF Handle
<1>2. AgentsGoOn
  BY <1>1, AnsweredGoesOn
<1>3. session'.active = session.active
  <2>1. session \in Session
    BY DEF RecInv, TypeOK
  <2>2. session' = session \/ session' = [session EXCEPT !.count = @ + 1]
    BY DEF Handle, Refuse, Skip, LeaveOut, Store, manager
  <2>3. QED BY <2>1, <2>2 DEF Session
<1>4. UNCHANGED <<current, stopFiles, req>>
  BY DEF Handle, Refuse, Skip, LeaveOut, Store, manager
<1>5. QED BY <1>2, <1>3, <1>4, TrafficWaits

LEMMA AgentWaits ==
  ASSUME RecInv, Waits, NoStrayAgent, NEW i \in SessionId, AgentStep(i) \/ GiveUp(i)
  PROVE  Waits' /\ NoStrayAgent'
<1>1. AgentsGoOn
  BY AgentStepGoesOn DEF AgentStep
<1>2. UNCHANGED <<session, current, stopFiles, req>>
  BY DEF AgentStep, Observe, PostHead, GiveUp, manager
<1>3. QED BY <1>1, <1>2, TrafficWaits

(* The wait ends when the process is gone, one way or the other.           *)
LEMMA LeftWaits ==
  ASSUME RecInv, Waits, NoStrayAgent, NEW c \in Client, AgentLeft(c) \/ Terminate(c)
  PROVE  Waits' /\ NoStrayAgent'
<1>0. TypeOK
  BY DEF RecInv
<1>1. /\ req[c].pc = "wait" /\ req' = [req EXCEPT ![c].pc = "finish", ![c].process = 0]
      /\ UNCHANGED <<session, current, stopFiles>>
  BY DEF AgentLeft, Terminate, manager
<1>2. AgentsGoOn
  <2>1. CASE AgentLeft(c)
    BY <2>1 DEF AgentLeft, AgentsGoOn, Running
  <2>2. QED BY <2>1, TerminateGoesOn
<1>3. current' \in {0} \cup Exited'
  <2>1. current \in {0, req[c].process}
    BY <1>1 DEF Waits
  <2>2. CASE AgentLeft(c)
    BY <1>1, <2>1, <2>2 DEF AgentLeft, Exited
  <2>3. CASE Terminate(c)
    BY <1>1, <2>1, <2>3, TerminateGoesOn DEF Exited
  <2>4. QED BY <2>2, <2>3
<1>4. \A d \in Client \ {c} : req'[d] = req[d]
  BY <1>0, <1>1 DEF TypeOK
<1>5. req'[c].pc = "finish"
  BY <1>0, <1>1 DEF TypeOK, Request
<1>6. Waits'
  <2>1. Exited \subseteq Exited'
    BY <1>2 DEF Exited, AgentsGoOn
  <2>2. session.active
    BY <1>1 DEF Waits
  <2>3. QED BY <1>1, <1>3, <1>4, <1>5, <2>1, <2>2 DEF Waits
<1>7. NoStrayAgent'
  BY <1>1, <1>2, StraysGoOn
<1>8. QED BY <1>6, <1>7

(* A stop ends a recording whose process is gone, and then nobody waits.   *)
LEMMA FinishWaits ==
  ASSUME OneClient, RecInv, Waits, NoStrayAgent, NEW c \in Client, Finish(c) \/ Clear(c)
  PROVE  Waits' /\ NoStrayAgent'
<1>0. TypeOK
  BY DEF RecInv
<1>1. \A d \in Client : d = c
  BY DEF OneClient
<1>2. req'[c].pc \in {"idle", "clear"}
  <2>1. req[c] \in Request
    BY <1>0, CopyTypes
  <2>2. \/ req' = [req EXCEPT ![c] = Idle]
        \/ req' = [req EXCEPT ![c] = [req[c] EXCEPT !.pc = "clear"]]
    BY DEF Finish, Clear
  <2>3. [req[c] EXCEPT !.pc = "clear"].pc = "clear"
    BY <2>1, RequestUpdate
  <2>4. req'[c] = Idle \/ req'[c] = [req[c] EXCEPT !.pc = "clear"]
    BY <1>0, <2>2 DEF TypeOK
  <2>5. QED BY <2>3, <2>4, IdleRequest
<1>3. Waits'
  BY <1>1, <1>2 DEF Waits
<1>4. NoStrayAgent'
  <2>1. AgentsGoOn
    BY DEF Finish, Clear, AgentsGoOn, Running
  <2>2. CASE Clear(c)
    BY <2>1, <2>2, StraysGoOn DEF Clear, manager
  <2>3. CASE Finish(c)
    <3>1. current \in {0} \cup Exited
      BY <2>3 DEF Finish, Waits
    <3>2. current \notin SessionId \/ current \in Exited
      BY <3>1, RecordingAssumption DEF SessionId
    <3>3. stopFiles \subseteq stopFiles' \cup Exited
      <4>1. stopFiles' = stopFiles \/ stopFiles' = stopFiles \ {current}
        BY <2>3 DEF Finish, Finalised
      <4>2. stopFiles \subseteq SessionId
        BY <1>0 DEF TypeOK
      <4>3. QED BY <3>2, <4>1, <4>2
    <3>4. QED BY <2>1, <3>2, <3>3, StraysGoOn
  <2>4. QED BY <2>2, <2>3
<1>5. QED BY <1>3, <1>4

LEMMA CrashWaits ==
  ASSUME RecInv, Crash
  PROVE  Waits' /\ NoStrayAgent'
<1>1. \A c \in Client : req'[c].pc = "idle"
  BY IdleRequest DEF Crash
<1>2. \A i \in SessionId : ~agent'[i].parent
  BY CrashGoesOn
<1>3. QED BY <1>1, <1>2 DEF Waits, NoStrayAgent

LEMMA WaitsKept ==
  ASSUME OneClient, RecInv, Waits, NoStrayAgent, [Next]_vars
  PROVE  Waits' /\ NoStrayAgent'
<1>1. CASE Dashboard
  BY <1>1, PollWaits, StartOutcomes, StartWaits, BeginWaits DEF Dashboard
<1>2. ASSUME NEW c \in Client, RequestStep(c) \/ Terminate(c)
      PROVE  Waits' /\ NoStrayAgent'
  BY <1>2, LeftWaits, FinishWaits DEF RequestStep
<1>3. CASE UNCHANGED vars
  <2>1. UNCHANGED <<session, current, stopFiles, agent, req>>
    BY <1>3 DEF vars, manager
  <2>2. QED BY <2>1 DEF Waits, NoStrayAgent, Exited, Running
<1>4. QED BY <1>1, <1>2, <1>3, AgentWaits, HandleWaits, CrashWaits DEF Next
-----------------------------------------------------------------------------
(* What steps do to the events and the history of projects.                *)

(* Where a line is, the events it counts are (StoredAtHome).               *)
LEMMA LinesAtHome ==
  ASSUME RecInv, NEW p \in Project, NEW k \in DOMAIN db[p].audit
  PROVE  /\ db[p].audit[k].session \in SessionId /\ agent[db[p].audit[k].session].project = p
         /\ Stored(db[p].audit[k].session) \cup Taken(db[p].audit[k].session)
              = Ever(db[p], db[p].audit[k].session, taken)
<1>1. db[p].audit \in Seq(Line)
  BY RowsFields DEF RecInv, TypeOK
<1>2. db[p].audit[k] \in Line
  BY <1>1, ElementOfSeq, LenProperties
<1>3. db[p].audit[k].session \in SessionId /\ agent[db[p].audit[k].session].project = p
  BY <1>2 DEF RecInv, Homes, AtHome, Line
<1>4. QED BY <1>3, StoredAtHome DEF RecInv, Homes

(* No line is written and no event of the recording comes; one that goes   *)
(* is remembered.                                                          *)
Unwritten ==
    /\ \A p \in Project :
          \/ /\ db'[p].audit = db[p].audit
             /\ \A i \in SessionId : agent[i].project = p =>
                   Ever(db'[p], i, taken') = Ever(db[p], i, taken)
          \/ db'[p].audit = <<>>
    /\ session'.active =>
          /\ session.active
          /\ session'.id = session.id /\ session'.project = session.project
          /\ session'.count = session.count /\ seen \subseteq seen'
          /\ Ever(db'[session.project], session.id, taken')
               = Ever(db[session.project], session.id, taken)
    /\ \A p \in Project : db'[p].events \subseteq db[p].events
    /\ \A e \in taken' \ taken : \A p \in Project : e \notin db'[p].events

LEMMA UnwrittenKeeps ==
  ASSUME RecInv, Unwritten
  PROVE  /\ LinesCovered => LinesCovered'
         /\ LinesExact => LinesExact'
         /\ Counted => Counted'
         /\ AllSeen => AllSeen'
         /\ TakenStaysOut => TakenStaysOut'
<1>0. ASSUME NEW p \in Project, NEW k \in DOMAIN db'[p].audit
      PROVE  /\ k \in DOMAIN db[p].audit /\ db'[p].audit[k] = db[p].audit[k]
             /\ Ever(db'[p], db'[p].audit[k].session, taken')
                  = Ever(db[p], db[p].audit[k].session, taken)
  <2>1. /\ db'[p].audit = db[p].audit
        /\ \A i \in SessionId : agent[i].project = p =>
              Ever(db'[p], i, taken') = Ever(db[p], i, taken)
    BY DEF Unwritten
  <2>2. db[p].audit[k].session \in SessionId /\ agent[db[p].audit[k].session].project = p
    BY <2>1, LinesAtHome
  <2>3. QED BY <2>1, <2>2
<1>1. LinesCovered => LinesCovered'
  <2> SUFFICES ASSUME LinesCovered, NEW p \in Project, NEW k \in DOMAIN db'[p].audit
               PROVE  db'[p].audit[k].count
                        <= Cardinality(Ever(db'[p], db'[p].audit[k].session, taken'))
    BY DEF LinesCovered, Ever
  <2>1. db[p].audit[k].count <= Cardinality(Ever(db[p], db[p].audit[k].session, taken))
    BY <1>0 DEF LinesCovered
  <2>2. QED BY <1>0, <2>1
<1>2. LinesExact => LinesExact'
  <2> SUFFICES ASSUME LinesExact, NEW p \in Project, NEW k \in DOMAIN db'[p].audit
               PROVE  db'[p].audit[k].count
                        = Cardinality(Ever(db'[p], db'[p].audit[k].session, taken'))
    BY DEF LinesExact, Ever
  <2>1. db[p].audit[k].count = Cardinality(Ever(db[p], db[p].audit[k].session, taken))
    BY <1>0 DEF LinesExact
  <2>2. QED BY <1>0, <2>1
<1>3. Counted => Counted'
  <2> SUFFICES ASSUME Counted, session'.active PROVE Counted'
    BY DEF Counted
  <2>1. session'.count = Cardinality(Ever(db'[session'.project], session'.id, taken'))
    BY DEF Unwritten, Counted
  <2>2. \A p \in Project : \A k \in DOMAIN db'[p].audit : db'[p].audit[k].session # session'.id
    BY DEF Unwritten, Counted
  <2>3. QED BY <2>1, <2>2 DEF Counted, Ever
<1>4. AllSeen => AllSeen'
  <2> SUFFICES ASSUME AllSeen, session'.active,
                      NEW e \in Ever(db'[session'.project], session'.id, taken')
               PROVE  e[2] \in seen'
    BY DEF AllSeen, Ever
  <2>1. e \in Ever(db[session.project], session.id, taken)
    BY DEF Unwritten
  <2>2. QED BY <2>1 DEF Unwritten, AllSeen
<1>5. TakenStaysOut => TakenStaysOut'
  <2>1. ASSUME TakenStaysOut, NEW p \in Project, NEW e \in db'[p].events
        PROVE  e \notin taken'
    <3>1. e \in db[p].events
      BY <2>1 DEF Unwritten
    <3>2. e[1] \in SessionId
      BY <3>1, RowsFields DEF RecInv, TypeOK, Recorded
    <3>3. e \notin taken
      BY <2>1, <3>1, <3>2 DEF TakenStaysOut, Stored
    <3>4. QED BY <2>1, <3>3 DEF Unwritten
  <2>2. QED BY <2>1 DEF TakenStaysOut, Stored
<1>6. QED BY <1>1, <1>2, <1>3, <1>4, <1>5

(* An edit takes events of its project only.                               *)
LEMMA EditUnwritten ==
  ASSUME RecInv, NEW p \in Asked, Edit(p)
  PROVE  Unwritten
<1>0. TypeOK /\ p \in Project /\ session.project \in Project
  BY RecordingAssumption, CopyTypes DEF RecInv
<1>1. session' = session /\ seen' = seen
  BY DEF Edit, manager
<1>2. /\ db'[p].events \subseteq db[p].events /\ db'[p].audit = db[p].audit
      /\ \A q \in Project : q # p => db'[q] = db[q]
      /\ taken' = taken \cup (db[p].events \ db'[p].events)
  BY <1>0, EditEffect
<1>3. \A q \in Project : \A e \in db[q].events : agent[e[1]].project = q
  BY DEF RecInv, Homes, AtHome
<1>4. ASSUME NEW q \in Project, NEW i \in SessionId, agent[i].project = q
      PROVE  Ever(db'[q], i, taken') = Ever(db[q], i, taken)
  <2>1. CASE q = p
    BY <1>2, <2>1 DEF Ever
  <2>2. CASE q # p
    <3>1. \A e \in db[p].events : e[1] # i
      BY <1>0, <1>3, <1>4, <2>2
    <3>2. QED BY <1>2, <1>4, <2>2, <3>1 DEF Ever
  <2>3. QED BY <2>1, <2>2
<1>5. session.active => session.id \in SessionId /\ agent[session.id].project = session.project
  BY <1>0, CopyTypes, RecordingAssumption DEF RecInv, SessionSound, SessionId
<1>6. ASSUME NEW e \in taken' \ taken, NEW q \in Project
      PROVE  e \notin db'[q].events
  <2>1. e \in db[p].events /\ e \notin db'[p].events
    BY <1>2
  <2>2. QED BY <1>0, <1>2, <1>3, <2>1
<1>7. \A q \in Project : db'[q].events \subseteq db[q].events /\ db'[q].audit = db[q].audit
  BY <1>2
<1>8. QED BY <1>0, <1>1, <1>4, <1>5, <1>6, <1>7 DEF Unwritten

(* Whatever polls, refuses, leaves out, edits, clears or restarts.         *)
LEMMA MostStepsWriteNothing ==
  ASSUME RecInv, [Next]_vars,
         \A m \in wire : ~Store(m),
         \A c \in Client : Finish(c) => db' = db,
         \A p \in Asked : ~Started(p)
  PROVE  Unwritten
<1>0. TypeOK /\ session.project \in Project /\ session \in Session
  BY CopyTypes DEF RecInv, TypeOK
<1> DEFINE Same == /\ session'.id = session.id /\ session'.project = session.project
                   /\ session'.count = session.count
                   /\ session'.active => session.active
<1>1. ASSUME db' = db, taken' = taken, Same \/ ~session'.active,
             seen \subseteq seen' \/ ~session'.active
      PROVE  Unwritten
  BY <1>1 DEF Unwritten
<1>2. ASSUME NEW p \in Asked, Status(p) \/ Pause(p) \/ Resume(p) \/ StartRefused(p)
      PROVE  Unwritten
  <2>1. db' = db /\ taken' = taken /\ seen' = seen /\ Same
    BY <1>0, <1>2, KnownSession DEF Status, Pause, Resume, StartRefused, RefreshAs, history, storage
  <2>2. QED BY <1>1, <2>1
<1>3. ASSUME NEW p \in Asked, DeleteProject(p)
      PROVE  Unwritten
  <2>1. p \in Project
    BY RecordingAssumption
  <2>2. Same /\ ~(session.active /\ session.project = p) /\ seen' = seen /\ taken' = taken
    BY <1>0, <1>3, KnownSession DEF DeleteProject, RefreshAs, Recording, history
  <2>3. db'[p] = Empty /\ \A q \in Project : q # p => db'[q] = db[q]
    BY <1>0, <1>3, <2>1 DEF DeleteProject, TypeOK
  <2>4. QED BY <1>0, <2>2, <2>3, EmptyRows DEF Unwritten
<1>4. ASSUME NEW p \in Asked, NEW c \in Client, StopBegins(c, p) \/ DeleteDataBegins(c, p)
      PROVE  Unwritten
  <2>1. db' = db /\ session' = Known /\ seen' = seen /\ taken' = taken
    BY <1>4 DEF StopBegins, DeleteDataBegins, history
  <2>2. Same
    BY <1>0, <2>1, KnownSession
  <2>3. QED BY <1>1, <2>1, <2>2
<1>5. ASSUME UNCHANGED <<db, session, taken>>, seen \subseteq seen'
      PROVE  Unwritten
  BY <1>1, <1>5
<1>6. ASSUME NEW c \in Client, RequestStep(c) \/ Terminate(c)
      PROVE  Unwritten
  <2>1. CASE AgentLeft(c) \/ Terminate(c)
    BY <1>5, <2>1 DEF AgentLeft, Terminate, storage, manager, history
  <2>2. CASE Finish(c)
    <3>1. db' = db /\ seen' = seen /\ taken' = taken
      BY <2>2 DEF Finish, history
    <3>2. session' \in {Closed, [Closed EXCEPT !.active = FALSE]}
      BY <2>2 DEF Finish, Finalised
    <3>3. Same
      BY <1>0, <3>2, ClosedSession
    <3>4. QED BY <1>1, <3>1, <3>3
  <2>3. CASE Clear(c)
    <3>1. session' = session /\ seen' = seen /\ taken' = taken
      BY <2>3 DEF Clear, manager, history
    <3>2. /\ \/ db' = db
             \/ /\ db'[req[c].project].events = {} /\ db'[req[c].project].audit = <<>>
                /\ \A q \in Project : q # req[c].project => db'[q] = db[q]
          /\ session.active =>
                Of(db'[session.project], session.id) = Of(db[session.project], session.id)
      BY <2>3, ClearEffect
    <3>3. session.active => Ever(db'[session.project], session.id, taken)
                              = Ever(db[session.project], session.id, taken)
      BY <3>2 DEF Of, Ever
    <3>4. QED BY <1>0, <3>1, <3>2, <3>3 DEF Unwritten
  <2>4. QED BY <1>6, <2>1, <2>2, <2>3 DEF RequestStep
<1>7. CASE Crash
  <2>1. db' = db /\ ~session'.active /\ taken' = taken
    BY <1>7 DEF Crash, NoSession, history
  <2>2. QED BY <1>1, <2>1
<1>8. ASSUME NEW i \in SessionId, AgentStep(i) \/ GiveUp(i)
      PROVE  Unwritten
  BY <1>5, <1>8 DEF AgentStep, Observe, PostHead, GiveUp, storage, manager, history
<1>9. ASSUME NEW m \in wire, Handle(m)
      PROVE  Unwritten
  BY <1>5, <1>9 DEF Handle, Refuse, Skip, LeaveOut, Consumed, storage, manager, history
<1>10. CASE UNCHANGED vars
  BY <1>5, <1>10 DEF vars, storage, manager, history
<1>11. ASSUME NEW p \in Asked, NEW versioned \in BOOLEAN, StartBegins(p, versioned)
       PROVE  Unwritten
  BY <1>5, <1>11 DEF StartBegins, manager, history
<1>12. CASE Dashboard
  BY <1>2, <1>3, <1>4, <1>11, <1>12, EditUnwritten, StartOutcomes DEF Dashboard
<1>13. QED BY <1>6, <1>7, <1>8, <1>9, <1>10, <1>12 DEF Next

(* A new recording has no event and no line.                               *)
LEMMA StartCounts ==
  ASSUME RecInv, NEW p \in Asked, Started(p)
  PROVE  db' = db /\ taken' = taken /\ Counted' /\ AllSeen'
<1>0. TypeOK /\ p \in Project /\ db' = db /\ taken' = taken
  BY RecordingAssumption DEF RecInv, Started, storage, history
<1>1. agent[NewSession].pc = "unborn" /\ NewSession \in SessionId
  BY NewIsUnused DEF Started
<1>2. /\ session'.id = NewSession /\ session'.project = p /\ session'.count = 0
  BY DEF Started, NoSession
<1> DEFINE n == NewSession
<1> HIDE DEF n
<1>3. /\ Ever(db[p], n, taken) = {}
      /\ \A q \in Project : \A k \in DOMAIN db[q].audit : db[q].audit[k].session # n
  BY <1>0, <1>1 DEF RecInv, Homes, AtHome, SkippedSeen, Ever, n
<1>4. session'.count = Cardinality(Ever(db'[session'.project], session'.id, taken'))
  BY <1>0, <1>2, <1>3, FS_EmptySet DEF n
<1>5. \A q \in Project : \A k \in DOMAIN db'[q].audit : db'[q].audit[k].session # session'.id
  BY <1>0, <1>2, <1>3 DEF n
<1>6. Counted'
  BY <1>0, <1>4, <1>5 DEF Counted, Ever
<1>7. AllSeen'
  BY <1>0, <1>2, <1>3 DEF AllSeen, Ever, n
<1>8. QED BY <1>0, <1>6, <1>7

(* What is stored is new to the project of the session, of a sequence that *)
(* was not accepted yet, and is counted unless the commit was reported as  *)
(* failed.                                                                 *)
LEMMA StoreEffect ==
  ASSUME RecInv, NEW m \in wire, Store(m)
  PROVE  /\ session'.id = session.id /\ session'.project = session.project /\ session.active
         /\ session.project \in Project
         /\ taken' = taken /\ seen \subseteq seen'
         /\ \A q \in Project : q # session.project => db'[q] = db[q]
         /\ \/ db' = db /\ session'.count = session.count
            \/ /\ db'[session.project].audit = db[session.project].audit
               /\ \E e \in Recorded \ db[session.project].events :
                     /\ e[1] = session.id /\ e[2] \notin seen
                     /\ db'[session.project].events = db[session.project].events \cup {e}
                     /\ \/ session'.count = session.count + 1 /\ e[2] \in seen'
                        \/ "unconfirmed" \in Env
<1> DEFINE p == session.project
           e == <<m.session, m.sequence>>
           copy == Copy(p)
           rows == [copy EXCEPT !.rev = @ + 1, !.events = @ \cup {e}]
<1>0. TypeOK /\ session \in Session /\ taken' = taken
  BY DEF RecInv, TypeOK, Store, history
<1>1. /\ p \in Project /\ session.active /\ e \in Recorded
      /\ e[1] = session.id /\ e[2] = m.sequence /\ m.sequence \notin seen
  <2>1. Acceptable(m)
    BY DEF Store
  <2>2. QED BY <2>1, AcceptedPost DEF Acceptable
<1>2. copy \in Rows /\ (CopyOf(copy, p) \/ copy = db[p])
  BY <1>0, <1>1, CopyEffect
<1>3. \/ db' = db /\ session' = session /\ seen' = seen \cup {m.sequence}
      \/ /\ e \notin copy.events
         /\ \E outcome \in Outcomes(p, copy) :
               /\ Commit(p, rows, outcome)
               /\ IF outcome = "ok" THEN /\ session' = [session EXCEPT !.count = @ + 1]
                                        /\ seen' = seen \cup {m.sequence}
                  ELSE session' = session /\ seen' = seen
  BY DEF Store, BoundTo, Consumed
<1> HIDE DEF copy, e
<1>4. rows \in Rows /\ rows.events = copy.events \cup {e} /\ rows.audit = copy.audit
  BY <1>1, <1>2, AddEvent
<1> HIDE DEF rows
<1>5. CASE db' = db /\ session' = session /\ seen' = seen \cup {m.sequence}
  BY <1>0, <1>1, <1>5
<1>6. ASSUME e \notin copy.events, NEW outcome \in Outcomes(p, copy), Commit(p, rows, outcome),
             IF outcome = "ok" THEN /\ session' = [session EXCEPT !.count = @ + 1]
                                    /\ seen' = seen \cup {m.sequence}
             ELSE session' = session /\ seen' = seen
      PROVE  /\ session'.id = session.id /\ session'.project = p /\ seen \subseteq seen'
             /\ \A q \in Project : q # p => db'[q] = db[q]
             /\ \/ db' = db /\ session'.count = session.count
                \/ /\ db'[p].audit = db[p].audit
                   /\ e \notin db[p].events /\ db'[p].events = db[p].events \cup {e}
                   /\ \/ session'.count = session.count + 1 /\ e[2] \in seen'
                      \/ "unconfirmed" \in Env
  <2>1. /\ \/ outcome \in {"ok", "committed"} /\ copy = db[p] /\ db' = [db EXCEPT ![p] = rows]
           \/ outcome \notin {"ok", "committed"} /\ db' = db
        /\ outcome = "committed" => "unconfirmed" \in Env
        /\ \A q \in Project : q # p => db'[q] = db[q]
    BY <1>0, <1>1, <1>2, <1>4, <1>6, CommitEffect DEF RecInv
  <2>2. /\ session'.id = session.id /\ session'.project = p
        /\ session'.count = IF outcome = "ok" THEN session.count + 1 ELSE session.count
    BY <1>0, <1>6 DEF Session
  <2>3. db' = [db EXCEPT ![p] = rows] => db'[p] = rows
    BY <1>0, <1>1 DEF TypeOK
  <2>4. seen \subseteq seen' /\ (outcome = "ok" => e[2] \in seen')
    BY <1>1, <1>6
  <2>5. QED BY <1>4, <1>6, <2>1, <2>2, <2>3, <2>4
<1>7. QED BY <1>0, <1>1, <1>3, <1>5, <1>6

(* A line is written about the session, and leaves it active only if the   *)
(* commit was reported as failed.                                          *)
LEMMA FinishEffect ==
  ASSUME RecInv, NEW c \in Client, Finish(c), db' # db
  PROVE  /\ session.project \in Project
         /\ \A q \in Project : q # session.project => db'[q] = db[q]
         /\ taken' = taken
         /\ db'[session.project].events = db[session.project].events
         /\ db'[session.project].audit = Append(db[session.project].audit,
                [session |-> session.id, count |-> session.count])
         /\ [session |-> session.id, count |-> session.count] \in Line
         /\ db[session.project].audit \in Seq(Line)
         /\ ~session'.active \/ "unconfirmed" \in Env
<1> DEFINE p == session.project
           own == req[c].project = p
           copy == IF own THEN Held(c) ELSE db[p]
           line == [session |-> session.id, count |-> session.count]
           rows == [copy EXCEPT !.rev = @ + 1, !.audit = Append(@, line)]
<1>0. TypeOK /\ taken' = taken
  BY DEF RecInv, Finish, history
<1>1. copy \in Rows /\ (CopyOf(copy, p) \/ copy = db[p]) /\ p \in Project /\ db[p] \in Rows
  BY <1>0, CopyTypes
<1>2. PICK outcome \in Outcomes(p, copy) :
         /\ Commit(p, rows, outcome)
         /\ outcome = "ok" => Finalised
  BY DEF Finish, BoundTo
<1>3. NeedsAudit(c, copy)
  BY DEF Finish, BoundTo
<1> HIDE DEF copy
<1>4. line \in Line
  <2>1. session.id # 0 /\ session.count \in Nat
    BY <1>0, <1>3, CopyTypes DEF NeedsAudit, RecInv, SessionSound
  <2>2. session.id \in SessionId
    BY <1>0, <2>1, CopyTypes, RecordingAssumption DEF SessionId
  <2>3. QED BY <2>1, <2>2 DEF Line
<1> HIDE DEF line
<1>5. rows \in Rows /\ rows.events = copy.events /\ rows.audit = Append(copy.audit, line)
  BY <1>1, <1>4, AddLine
<1> HIDE DEF rows
<1>6. /\ outcome \in {"ok", "committed"} /\ copy = db[p] /\ db' = [db EXCEPT ![p] = rows]
      /\ outcome = "committed" => "unconfirmed" \in Env
      /\ \A q \in Project : q # p => db'[q] = db[q]
  BY <1>0, <1>1, <1>2, <1>5, CommitEffect DEF RecInv
<1>7. db'[p] = rows
  BY <1>0, <1>1, <1>6 DEF TypeOK
<1>8. Finalised => ~session'.active
  <2>1. Closed \in Session
    BY <1>0, ClosedSession
  <2>2. QED BY <2>1 DEF Finalised, Session
<1>9. db[p].audit \in Seq(Line)
  BY <1>1, RowsFields
<1>10. QED BY <1>0, <1>1, <1>2, <1>4, <1>5, <1>6, <1>7, <1>8, <1>9 DEF line
-----------------------------------------------------------------------------
(* The history never claims too much.                                      *)

LEMMA StoreCovers ==
  ASSUME RecInv, LinesCovered, NEW m \in wire, Store(m)
  PROVE  LinesCovered'
<1> DEFINE p == session.project
<1>1. /\ p \in Project
      /\ \A q \in Project : q # p => db'[q] = db[q]
      /\ db'[p].audit = db[p].audit /\ db[p].events \subseteq db'[p].events
      /\ taken' = taken
  BY StoreEffect
<1>2. taken \in SUBSET Recorded /\ \A q \in Project : db[q] \in Rows /\ db'[q] \in Rows
  <2>1. RecInv'
    BY StoreKeeps
  <2>2. QED BY <2>1 DEF RecInv, TypeOK
<1>3. \A q \in Project : db'[q].audit = db[q].audit /\ db[q].events \subseteq db'[q].events
  BY <1>1
<1> SUFFICES ASSUME NEW q \in Project, NEW k \in DOMAIN db'[q].audit
             PROVE  db'[q].audit[k].count <= Cardinality(Ever(db'[q], db'[q].audit[k].session, taken'))
  BY DEF LinesCovered, Ever
<1> DEFINE line == db[q].audit[k]
<1>4. k \in DOMAIN db[q].audit /\ db'[q].audit[k] = line
  BY <1>3
<1>5. line \in Line
  <2>1. db[q].audit \in Seq(Line)
    BY <1>2, RowsFields
  <2>2. QED BY <1>4, <2>1, ElementOfSeq, LenProperties
<1>6. line.count <= Cardinality(Ever(db[q], line.session, taken))
  BY <1>4 DEF LinesCovered
<1> HIDE DEF line
<1>7. Cardinality(Ever(db[q], line.session, taken)) <= Cardinality(Ever(db'[q], line.session, taken))
  <2>1. Ever(db[q], line.session, taken) \subseteq Ever(db'[q], line.session, taken)
    BY <1>3 DEF Ever
  <2>2. QED BY <1>2, <2>1, EverFinite, FS_Subset
<1>8. /\ line.count \in Nat /\ Cardinality(Ever(db[q], line.session, taken)) \in Nat
      /\ Cardinality(Ever(db'[q], line.session, taken)) \in Nat
  BY <1>2, <1>5, EverFinite DEF Line
<1>9. line.count <= Cardinality(Ever(db'[q], line.session, taken))
  BY <1>6, <1>7, <1>8
<1>10. QED BY <1>1, <1>4, <1>9

(* The line about a recording that is still active claims what the manager *)
(* counted, which is stored (SessionKept).                                 *)
LEMMA FinishCovers ==
  ASSUME RecInv, Waits, LinesCovered, NEW c \in Client, Finish(c), db' # db
  PROVE  LinesCovered'
<1> DEFINE p == session.project
           line == [session |-> session.id, count |-> session.count]
<1>1. /\ p \in Project
      /\ \A q \in Project : q # p => db'[q] = db[q]
      /\ db'[p].events = db[p].events /\ db'[p].audit = Append(db[p].audit, line)
      /\ line \in Line /\ db[p].audit \in Seq(Line) /\ taken' = taken
  BY FinishEffect
<1>2. line.count <= Cardinality(Ever(db[p], line.session, taken))
  <2>1. session.active
    BY DEF Finish, Waits
  <2>2. session.count <= Cardinality(Tallied(db[p], session.id, taken, seen))
    BY <2>1 DEF RecInv, SessionKept
  <2>3. db[p] \in Rows /\ taken \in SUBSET Recorded /\ session.count \in Nat
    BY <1>1, CopyTypes DEF RecInv, TypeOK
  <2>4. /\ Cardinality(Tallied(db[p], session.id, taken, seen)) \in Nat
        /\ Cardinality(Ever(db[p], session.id, taken)) \in Nat
        /\ Cardinality(Tallied(db[p], session.id, taken, seen))
             <= Cardinality(Ever(db[p], session.id, taken))
    BY <2>3, EverFinite
  <2>5. session.count <= Cardinality(Ever(db[p], session.id, taken))
    BY <2>2, <2>3, <2>4
  <2>6. QED BY <2>5
<1> HIDE DEF line
<1>3. \A k \in DOMAIN db'[p].audit :
         db'[p].audit[k] = line \/ (k \in DOMAIN db[p].audit /\ db'[p].audit[k] = db[p].audit[k])
  BY <1>1, LineAppended
<1> SUFFICES ASSUME NEW q \in Project, NEW k \in DOMAIN db'[q].audit
             PROVE  db'[q].audit[k].count <= Cardinality(Ever(db'[q], db'[q].audit[k].session, taken'))
  BY DEF LinesCovered, Ever
<1>4. \A i : Ever(db'[q], i, taken') = Ever(db[q], i, taken)
  BY <1>1 DEF Ever
<1>5. CASE k \in DOMAIN db[q].audit /\ db'[q].audit[k] = db[q].audit[k]
  BY <1>4, <1>5 DEF LinesCovered
<1>6. CASE q = p /\ db'[q].audit[k] = line
  BY <1>2, <1>4, <1>6
<1>7. QED BY <1>1, <1>3, <1>5, <1>6

LEMMA StopInvKeeps ==
  ASSUME OneClient, StopInv, [Next]_vars
  PROVE  StopInv'
<1>1. RecInv'
  BY NextKeeps DEF StopInv
<1>2. Waits' /\ NoStrayAgent'
  BY WaitsKept DEF StopInv
<1>3. LinesCovered'
  <2>1. CASE \E m \in wire : Store(m)
    BY <2>1, StoreCovers DEF StopInv
  <2>2. CASE \E c \in Client : Finish(c) /\ db' # db
    BY <2>2, FinishCovers DEF StopInv
  <2>3. CASE \E p \in Asked : Started(p)
    <3>1. db' = db /\ taken' = taken
      BY <2>3, StartCounts DEF StopInv
    <3>2. QED BY <3>1 DEF StopInv, LinesCovered, Ever
  <2>4. CASE /\ \A m \in wire : ~Store(m)
             /\ \A c \in Client : Finish(c) => db' = db
             /\ \A p \in Asked : ~Started(p)
    BY <2>4, MostStepsWriteNothing, UnwrittenKeeps DEF StopInv
  <2>5. QED BY <2>1, <2>2, <2>3, <2>4
<1>4. QED BY <1>1, <1>2, <1>3 DEF StopInv

-----------------------------------------------------------------------------
(* While every outcome is known, the history is exact.                     *)

LEMMA StoreExact ==
  ASSUME RecInv, AllSeen, "unconfirmed" \notin Env, NEW m \in wire, Store(m)
  PROVE  /\ AllSeen'
         /\ Counted /\ LinesExact => Counted' /\ LinesExact'
         /\ TakenStaysOut => TakenStaysOut'
<1> DEFINE p == session.project
           i == session.id
<1>1. /\ session'.id = i /\ session'.project = p /\ session.active /\ p \in Project
      /\ taken' = taken /\ seen \subseteq seen'
      /\ \A q \in Project : q # p => db'[q] = db[q]
  BY StoreEffect
<1>2. CASE db' = db /\ session'.count = session.count
  <2>1. Counted => Counted'
    BY <1>1, <1>2 DEF Counted, Ever
  <2>2. LinesExact => LinesExact'
    BY <1>1, <1>2 DEF LinesExact, Ever
  <2>3. AllSeen'
    BY <1>1, <1>2 DEF AllSeen, Ever
  <2>4. TakenStaysOut => TakenStaysOut'
    BY <1>1, <1>2 DEF TakenStaysOut, Stored
  <2>5. QED BY <2>1, <2>2, <2>3, <2>4
<1>3. ASSUME NEW e \in Recorded, e[1] = i, e[2] \notin seen, e[2] \in seen',
             db'[p].events = db[p].events \cup {e}, db'[p].audit = db[p].audit,
             session'.count = session.count + 1
      PROVE  /\ AllSeen'
             /\ Counted /\ LinesExact => Counted' /\ LinesExact'
             /\ TakenStaysOut => TakenStaysOut'
  <2>1. Ever(db'[p], i, taken) = Ever(db[p], i, taken) \cup {e} /\ e \notin Ever(db[p], i, taken)
    <3>1. e \notin Ever(db[p], i, taken)
      BY <1>1, <1>3 DEF AllSeen
    <3>2. QED BY <1>3, <3>1 DEF Ever
  <2>2. IsFiniteSet(Ever(db[p], i, taken))
    <3>1. db[p] \in Rows /\ taken \in SUBSET Recorded
      BY <1>1 DEF RecInv, TypeOK
    <3>2. QED BY <3>1, EverFinite
  <2>3. Cardinality(Ever(db'[p], i, taken)) = Cardinality(Ever(db[p], i, taken)) + 1
    BY <2>1, <2>2, FS_AddElement
  <2>4. Counted => session'.count = Cardinality(Ever(db'[p], i, taken))
    BY <1>1, <1>3, <2>3 DEF Counted
  <2>5. \A q \in Project : db'[q].audit = db[q].audit
    BY <1>1, <1>3
  <2>6. Counted => \A q \in Project : \A k \in DOMAIN db[q].audit : db[q].audit[k].session # i
    BY <1>1 DEF Counted
  <2>7. Counted => Counted'
    BY <1>1, <2>4, <2>5, <2>6 DEF Counted, Ever
  <2>8. Counted /\ LinesExact => LinesExact'
    <3> SUFFICES ASSUME Counted, LinesExact, NEW q \in Project, NEW k \in DOMAIN db'[q].audit
                 PROVE  db'[q].audit[k].count
                          = Cardinality(Ever(db'[q], db'[q].audit[k].session, taken'))
      BY DEF LinesExact, Ever
    <3>1. k \in DOMAIN db[q].audit /\ db'[q].audit[k] = db[q].audit[k]
      BY <2>5
    <3>2. Ever(db'[q], db[q].audit[k].session, taken') = Ever(db[q], db[q].audit[k].session, taken)
      BY <1>1, <1>3, <2>6, <3>1 DEF Ever
    <3>3. QED BY <3>1, <3>2 DEF LinesExact
  <2>9. AllSeen'
    <3>1. \A x \in Ever(db[p], i, taken) \cup {e} : x[2] \in seen'
      BY <1>1, <1>3 DEF AllSeen
    <3>2. \A x \in Ever(db'[p], i, taken) : x[2] \in seen'
      BY <2>1, <3>1
    <3>3. QED BY <1>1, <3>2 DEF AllSeen, Ever
  <2>10. TakenStaysOut => TakenStaysOut'
    <3>1. e \notin taken
      BY <1>3, <2>1 DEF Ever
    <3>2. \A q \in Project : db'[q].events \subseteq db[q].events \cup {e}
      BY <1>1, <1>3
    <3>3. QED BY <1>1, <3>1, <3>2 DEF TakenStaysOut, Stored
  <2>11. QED BY <2>7, <2>8, <2>9, <2>10
<1>4. QED BY <1>2, <1>3, StoreEffect

LEMMA FinishExact ==
  ASSUME RecInv, Waits, Counted, LinesExact, "unconfirmed" \notin Env,
         NEW c \in Client, Finish(c), db' # db
  PROVE  AllSeen' /\ Counted' /\ LinesExact'
<1> DEFINE p == session.project
           line == [session |-> session.id, count |-> session.count]
<1>1. /\ p \in Project
      /\ \A q \in Project : q # p => db'[q] = db[q]
      /\ db'[p].events = db[p].events /\ db'[p].audit = Append(db[p].audit, line)
      /\ line \in Line /\ db[p].audit \in Seq(Line)
      /\ ~session'.active /\ taken' = taken
  BY FinishEffect
<1>2. line.count = Cardinality(Ever(db[p], line.session, taken))
  <2>1. session.active
    BY DEF Finish, Waits
  <2>2. QED BY <2>1 DEF Counted
<1> HIDE DEF line
<1>3. \A k \in DOMAIN db'[p].audit :
         db'[p].audit[k] = line \/ (k \in DOMAIN db[p].audit /\ db'[p].audit[k] = db[p].audit[k])
  BY <1>1, LineAppended
<1>4. LinesExact'
  <2> SUFFICES ASSUME NEW q \in Project, NEW k \in DOMAIN db'[q].audit
               PROVE  db'[q].audit[k].count = Cardinality(Ever(db'[q], db'[q].audit[k].session, taken'))
    BY DEF LinesExact, Ever
  <2>1. \A i : Ever(db'[q], i, taken') = Ever(db[q], i, taken)
    BY <1>1 DEF Ever
  <2>2. CASE k \in DOMAIN db[q].audit /\ db'[q].audit[k] = db[q].audit[k]
    BY <2>1, <2>2 DEF LinesExact
  <2>3. CASE q = p /\ db'[q].audit[k] = line
    BY <1>2, <2>1, <2>3
  <2>4. QED BY <1>1, <1>3, <2>2, <2>3
<1>5. QED BY <1>1, <1>4 DEF Counted, AllSeen

(* A line, written or not, changes no event and no sequence.               *)
LEMMA FinishSeen ==
  ASSUME RecInv, AllSeen, NEW c \in Client, Finish(c)
  PROVE  AllSeen' /\ (TakenStaysOut => TakenStaysOut')
<1>1. \A q \in Project : db'[q].events = db[q].events
  BY FinishEffect
<1>2. taken' = taken /\ seen' = seen
  BY DEF Finish, history
<1>3. session'.id = session.id /\ session'.project = session.project
      /\ (session'.active => session.active)
  <2>1. session' \in {Closed, [Closed EXCEPT !.active = FALSE]}
    BY DEF Finish, Finalised
  <2>2. QED BY <2>1, ClosedSession DEF RecInv
<1>4. session.project \in Project
  BY CopyTypes DEF RecInv
<1>5. AllSeen'
  BY <1>1, <1>2, <1>3, <1>4 DEF AllSeen, Ever
<1>6. TakenStaysOut => TakenStaysOut'
  BY <1>1, <1>2 DEF TakenStaysOut, Stored
<1>7. QED BY <1>5, <1>6

LEMMA ExactInvKeeps ==
  ASSUME OneClient, "unconfirmed" \notin Env, ExactInv, [Next]_vars
  PROVE  ExactInv'
<1>1. StopInv'
  BY StopInvKeeps DEF ExactInv
<1>2. RecInv /\ Waits /\ AllSeen /\ Counted /\ LinesExact
  BY DEF ExactInv, StopInv
<1>3. AllSeen' /\ Counted' /\ LinesExact'
  <2>1. CASE \E m \in wire : Store(m)
    BY <1>2, <2>1, StoreExact
  <2>2. CASE \E c \in Client : Finish(c) /\ db' # db
    BY <1>2, <2>2, FinishExact
  <2>3. CASE \E p \in Asked : Started(p)
    <3>1. db' = db /\ taken' = taken /\ Counted' /\ AllSeen'
      BY <1>2, <2>3, StartCounts
    <3>2. QED BY <1>2, <3>1 DEF LinesExact, Ever
  <2>4. CASE /\ \A m \in wire : ~Store(m)
             /\ \A c \in Client : Finish(c) => db' = db
             /\ \A p \in Asked : ~Started(p)
    BY <1>2, <2>4, MostStepsWriteNothing, UnwrittenKeeps
  <2>5. QED BY <2>1, <2>2, <2>3, <2>4
<1>4. QED BY <1>1, <1>3 DEF ExactInv

(* No edit is undone, however stops overlap.                               *)
LEMMA TakenInvKeeps ==
  ASSUME "unconfirmed" \notin Env, TakenInv, [Next]_vars
  PROVE  TakenInv'
<1>1. RecInv /\ AllSeen /\ TakenStaysOut
  BY DEF TakenInv
<1>2. RecInv'
  BY <1>1, NextKeeps
<1>3. CASE \E m \in wire : Store(m)
  BY <1>1, <1>2, <1>3, StoreExact DEF TakenInv
<1>4. CASE \E c \in Client : Finish(c)
  BY <1>1, <1>2, <1>4, FinishSeen DEF TakenInv
<1>5. CASE \E p \in Asked : Started(p)
  <2>1. db' = db /\ taken' = taken /\ AllSeen'
    BY <1>1, <1>5, StartCounts
  <2>2. QED BY <1>1, <1>2, <2>1 DEF TakenInv, TakenStaysOut, Stored
<1>6. CASE /\ \A m \in wire : ~Store(m)
           /\ \A c \in Client : ~Finish(c)
           /\ \A p \in Asked : ~Started(p)
  BY <1>1, <1>2, <1>6, MostStepsWriteNothing, UnwrittenKeeps DEF TakenInv
<1>7. QED BY <1>3, <1>4, <1>5, <1>6

LEMMA InitialStop ==
  ASSUME Init
  PROVE  StopInv /\ ExactInv /\ TakenInv
<1>1. RecInv
  BY InitialRecording
<1>2. Waits /\ NoStrayAgent /\ Counted /\ AllSeen
  BY IdleRequest DEF Init, Waits, NoStrayAgent, Running, Unborn, Counted, AllSeen, NoSession
<1>3. LinesCovered /\ LinesExact
  BY EmptyRows DEF Init, LinesCovered, LinesExact
<1>4. TakenStaysOut
  BY DEF Init, TakenStaysOut
<1>5. QED BY <1>1, <1>2, <1>3, <1>4 DEF StopInv, ExactInv, TakenInv
-----------------------------------------------------------------------------

(* When stops do not overlap, an agent runs only while its recording is    *)
(* active, while its stop file tells it to end, or until it notices that   *)
(* the API process died: a stop lets go of a process only after it waited  *)
(* for it or killed it.                                                    *)
THEOREM NoAgentAstray ==
  ASSUME OneClient
  PROVE  Spec => []NoStrayAgent
<1>1. Init => StopInv
  BY InitialStop
<1>2. StopInv /\ [Next]_vars => StopInv'
  BY StopInvKeeps
<1>3. StopInv => NoStrayAgent
  BY DEF StopInv
<1>4. QED BY <1>1, <1>2, <1>3, PTL DEF Spec

(* When stops do not overlap, the history of a project tells of a recording*)
(* once and claims no more events than were stored, those included that an *)
(* edit removed since, whatever became of the commits of events and of the *)
(* line itself (record_import, stop).                                      *)
THEOREM HistorySound ==
  ASSUME OneClient
  PROVE  Spec => []AuditSound
<1>1. Init => StopInv
  BY InitialStop
<1>2. StopInv /\ [Next]_vars => StopInv'
  BY StopInvKeeps
<1>3. StopInv => AuditSound
  BY LinesAtHome DEF StopInv, RecInv, LinesCovered, AuditSound, AuditNeverOverstates
<1>4. QED BY <1>1, <1>2, <1>3, PTL DEF Spec

(* When stops do not overlap and the outcome of every commit is known, the *)
(* line counts exactly what was stored, those events included that an edit *)
(* removed: nothing is counted twice, and nothing the agent posts late is  *)
(* added behind the line, whichever agents were killed, whatever was       *)
(* refused and whatever was edited meanwhile.                              *)
THEOREM HistoryExact ==
  ASSUME OneClient, "unconfirmed" \notin Env
  PROVE  Spec => []AuditedTruly
<1>1. Init => ExactInv
  BY InitialStop
<1>2. ExactInv /\ [Next]_vars => ExactInv'
  BY ExactInvKeeps
<1>3. ExactInv => AuditedTruly
  <2> SUFFICES ASSUME ExactInv, NEW p \in Project, NEW k \in DOMAIN db[p].audit
               PROVE  db[p].audit[k].count
                        = Cardinality(Stored(db[p].audit[k].session)
                                        \cup Taken(db[p].audit[k].session))
    BY DEF AuditedTruly
  <2>1. Stored(db[p].audit[k].session) \cup Taken(db[p].audit[k].session)
          = Ever(db[p], db[p].audit[k].session, taken)
    BY LinesAtHome DEF ExactInv, StopInv
  <2>2. QED BY <2>1 DEF ExactInv, LinesExact
<1>4. QED BY <1>1, <1>2, <1>3, PTL DEF Spec

(* While the outcome of every commit is known, what an edit removed from   *)
(* the project of a recording is not stored again by a repeated post: the  *)
(* store no longer knows the event, but the manager knows its sequence     *)
(* (_seen_sequences).                                                      *)
THEOREM TakenIsOut ==
  ASSUME "unconfirmed" \notin Env
  PROVE  Spec => []TakenStaysOut
<1>1. Init => TakenInv
  BY InitialStop
<1>2. TakenInv /\ [Next]_vars => TakenInv'
  BY TakenInvKeeps
<1>3. TakenInv => TakenStaysOut
  BY DEF TakenInv
<1>4. QED BY <1>1, <1>2, <1>3, PTL DEF Spec
=============================================================================
