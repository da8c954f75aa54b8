---------------------------- MODULE RecordingProofs ----------------------------
(***************************************************************************)
(* Proofs about Recording for any projects, clients, sessions, segments    *)
(* and surroundings: types, where events go, what is left out, what an     *)
(* acknowledgement promises and what the history tells, whatever the user  *)
(* edits meanwhile.                                                        *)
(***************************************************************************)
EXTENDS Recording, FiniteSetTheorems, SequenceTheorems, WellFoundedInduction, TLAPS

(* An agent by itself: the head is in its queue while it posts, and passes *)
(* are only counted, and left, while it is ending.                         *)
AgentSound(a) ==
    /\ a.head \in 1 .. a.made + 1
    /\ a.pc \in {"send", "wait"} => a.head <= a.made /\ (a.ending => a.tries > 0)
    /\ a.pc = "look" => ~a.ending
    /\ a.ending \/ a.tries = 0

AgentsSound == \A i \in SessionId : AgentSound(agent[i])

(* A post that is not late is the head of an agent that waits for it.      *)
PostSound(m) ==
    /\ agent[m.session].pc # "unborn"
    /\ m.late \/ (agent[m.session].pc = "wait" /\ agent[m.session].head = m.sequence)

PostsSound == \A m \in wire : PostSound(m)

(* A deletion writes through a store of its own.                           *)
RequestSound ==
    \A c \in Client :
        /\ req[c].pc = "clear" => req[c].kind = "delete"
        /\ req[c].kind = "delete" => ~req[c].shared

(* What the manager knows of its session.                                  *)
SessionSound ==
    /\ session.id = 0 => ~session.active /\ session.count = 0
    /\ session.id # 0 => /\ agent[session.id].pc # "unborn"
                         /\ agent[session.id].project = session.project
    /\ current \in {0, session.id}
    /\ session.active => session.project \in live

(* The rows of a project that somebody holds: a view, default_store() or a *)
(* request.                                                                *)
CopyOf(r, p) ==
    \/ r = view[p]
    \/ p = Legacy /\ r = root
    \/ \E c \in Client : req[c].project = p /\ r = req[c].rows

(* A copy that carries the durable revision is the durable rows.           *)
Fits(r, p) == r.rev <= db[p].rev /\ (r.rev = db[p].rev => r = db[p])

CopiesFit ==
    /\ \A p \in Project : db[p].rev = 0 => db[p] = Empty
    /\ \A p \in live, r \in Rows : CopyOf(r, p) => Fits(r, p)

(* Rows of a project tell only of recordings of that project.              *)
AtHome(r, p) ==
    /\ \A e \in r.events : agent[e[1]].pc # "unborn" /\ agent[e[1]].project = p
    /\ \A k \in DOMAIN r.audit : /\ agent[r.audit[k].session].pc # "unborn"
                                 /\ agent[r.audit[k].session].project = p

Homes ==
    /\ \A p \in Project : AtHome(db[p], p)
    /\ \A p \in Project, r \in Rows : CopyOf(r, p) => AtHome(r, p)

(* A skipped sequence stays consumed as long as its token is good.         *)
SkippedSeen ==
    /\ \A e \in skipped \cup taken : agent[e[1]].pc # "unborn"
    /\ \A e \in skipped : session.active /\ current = e[1] => e[2] \in seen

(* Events of a recording in some rows; with those that edits removed; and  *)
(* those of them whose sequence is consumed.                               *)
Of(r, i) == {e \in r.events : e[1] = i}

Ever(r, i, removed) == {e \in r.events \cup removed : e[1] = i}

Tallied(r, i, removed, consumed) == {e \in Ever(r, i, removed) : e[2] \in consumed}

(* Nothing but an edit takes an event of the active recording away: no     *)
(* copy knows of one that SQLite never held, a deletion that is about to   *)
(* clear the project either finds none or is refused, and what the session *)
(* counts was stored under a sequence it has consumed.                     *)
SessionKept ==
    session.active =>
        /\ \A r \in Rows : CopyOf(r, session.project) =>
              Of(r, session.id) \subseteq Ever(db[session.project], session.id, taken)
        /\ \A c \in Client :
              req[c].pc = "clear" /\ req[c].project = session.project =>
                 \/ Of(db[session.project], session.id) = {}
                 \/ req[c].rows.rev # db[session.project].rev
        /\ session.count <= Cardinality(Tallied(db[session.project], session.id, taken, seen))

RecInv ==
    /\ TypeOK
    /\ AgentsSound
    /\ PostsSound
    /\ RequestSound
    /\ SessionSound
    /\ CopiesFit
    /\ Homes
    /\ SkippedSeen
    /\ LeftOutStaysOut
    /\ SessionKept
    /\ AcknowledgedIsKept
    /\ AuditedOnce
-----------------------------------------------------------------------------
(* What steps do to copies, agents and the session, in terms that the      *)
(* invariant needs.                                                        *)

(* Copies are made of copies, of the durable rows, or of nothing.          *)
CopiesCome ==
    \A p \in Project, r \in Rows :
        CopyOf(r, p)' => CopyOf(r, p) \/ r = db[p] \/ r = db'[p] \/ r = Empty

(* An agent keeps its project, and neither comes back nor finds its parent *)
(* again.                                                                  *)
Carried ==
    \A i \in SessionId :
        agent[i].pc # "unborn" =>
            /\ agent'[i].pc # "unborn"
            /\ agent'[i].project = agent[i].project
            /\ agent'[i].parent => agent[i].parent
            /\ agent[i].pc = "exited" => agent'[i].pc = "exited"

HeadsStay == \A i \in SessionId : agent'[i].head = agent[i].head

(* AtHome in the next state, for given rows.                               *)
HomeAfter(r, p) ==
    /\ \A e \in r.events : agent'[e[1]].pc # "unborn" /\ agent'[e[1]].project = p
    /\ \A k \in DOMAIN r.audit : /\ agent'[r.audit[k].session].pc # "unborn"
                                 /\ agent'[r.audit[k].session].project = p

SameSession ==
    /\ session'.id = session.id /\ session'.project = session.project
    /\ session'.active = session.active /\ session'.count = session.count
    /\ current' \in {0, current}

ClearsKept ==
    \A c \in Client :
        req'[c].pc = "clear" =>
            \/ req[c].pc = "clear" /\ req'[c].project = req[c].project /\ req'[c].rows = req[c].rows
            \/ ~(session.active /\ session.project = req'[c].project)

(* A step that neither commits nor skips nor begins or ends a recording.   *)
Quiet ==
    /\ db' = db /\ live' = live /\ skipped' = skipped /\ taken' = taken /\ seen' = seen
    /\ SameSession /\ Carried /\ HeadsStay /\ CopiesCome /\ ClearsKept
-----------------------------------------------------------------------------
(* Sessions and their numbers.                                             *)

(* A set of session numbers has a least element: strict inclusion of the   *)
(* intervals they end is well-founded.                                     *)
LEMMA LeastExists ==
  ASSUME NEW U \in SUBSET SessionId, U # {}
  PROVE  \E i \in U : \A j \in U : i <= j
<1> DEFINE T == {1 .. i : i \in U}
<1>1. U \subseteq Nat
  BY RecordingAssumption DEF SessionId
<1>2. IsWellFoundedOn(StrictSubsetOrdering(Nat), FiniteSubsetsOf(Nat))
  BY FS_StrictSubsetOrderingWellFounded
<1>3. T \subseteq FiniteSubsetsOf(Nat)
  <2>1. \A i \in U : 1 .. i \subseteq Nat /\ IsFiniteSet(1 .. i)
    BY <1>1, FS_Interval
  <2>2. QED BY <2>1 DEF FiniteSubsetsOf
<1>4. PICK x \in T : \A y \in T : <<y, x>> \notin StrictSubsetOrdering(Nat)
  <2>1. T # {} OBVIOUS
  <2>2. QED BY <1>2, <1>3, <2>1, WFMin
<1>5. PICK i \in U : x = 1 .. i OBVIOUS
<1>6. ASSUME NEW j \in U PROVE i <= j
  <2>1. <<1 .. j, 1 .. i>> \notin StrictSubsetOrdering(Nat)
    BY <1>4, <1>5
  <2>2. 1 .. j \subseteq Nat /\ 1 .. i \subseteq Nat
    BY <1>1
  <2>3. ~(1 .. j \subseteq 1 .. i /\ 1 .. j # 1 .. i)
    BY <2>1, <2>2 DEF StrictSubsetOrdering
  <2>4. i \in Nat /\ j \in Nat
    BY <1>1
  <2>5. j < i => 1 .. j \subseteq 1 .. i /\ i \notin 1 .. j /\ i \in 1 .. i
    BY <2>4
  <2>6. QED BY <2>3, <2>4, <2>5
<1>7. QED BY <1>6

LEMMA NewIsUnused ==
  ASSUME Unused # {}
  PROVE  NewSession \in SessionId /\ agent[NewSession].pc = "unborn" /\ NewSession # 0
<1>1. NewSession \in Unused
  BY LeastExists DEF NewSession, Unused
<1>2. QED BY <1>1, RecordingAssumption DEF Unused, SessionId
-----------------------------------------------------------------------------
(* Rows.                                                                   *)

Line == [session : SessionId, count : Nat]

LEMMA EmptyRows == Empty \in Rows /\ Empty.rev = 0 /\ Empty.events = {} /\ Empty.audit = <<>>
  BY EmptySeq DEF Empty, Rows

LEMMA RowsFields ==
  ASSUME NEW r \in Rows
  PROVE  r.rev \in Nat /\ r.events \subseteq Recorded /\ r.audit \in Seq(Line)
  BY DEF Rows, Line

LEMMA Edited ==
  ASSUME NEW r \in Rows, NEW kept \in SUBSET r.events, NEW b \in BOOLEAN
  PROVE  /\ Rewritten(r, kept, b) \in Rows
         /\ Rewritten(r, kept, b).rev = r.rev + 1
         /\ Rewritten(r, kept, b).events = kept
         /\ Rewritten(r, kept, b).audit = r.audit
<1>1. r.rev + 1 \in Nat /\ kept \in SUBSET Recorded
  BY DEF Rows
<1>2. QED BY <1>1 DEF Rows, Rewritten

LEMMA AddEvent ==
  ASSUME NEW r \in Rows, NEW e \in Recorded
  PROVE  /\ [r EXCEPT !.rev = @ + 1, !.events = @ \cup {e}] \in Rows
         /\ [r EXCEPT !.rev = @ + 1, !.events = @ \cup {e}].rev = r.rev + 1
         /\ [r EXCEPT !.rev = @ + 1, !.events = @ \cup {e}].events = r.events \cup {e}
         /\ [r EXCEPT !.rev = @ + 1, !.events = @ \cup {e}].audit = r.audit
<1>1. r.rev + 1 \in Nat /\ r.events \cup {e} \in SUBSET Recorded
  BY DEF Rows
<1>2. QED BY <1>1 DEF Rows

LEMMA AddLine ==
  ASSUME NEW r \in Rows, NEW l \in Line
  PROVE  /\ [r EXCEPT !.rev = @ + 1, !.audit = Append(@, l)] \in Rows
         /\ [r EXCEPT !.rev = @ + 1, !.audit = Append(@, l)].rev = r.rev + 1
         /\ [r EXCEPT !.rev = @ + 1, !.audit = Append(@, l)].events = r.events
         /\ [r EXCEPT !.rev = @ + 1, !.audit = Append(@, l)].audit = Append(r.audit, l)
<1>1. r.rev + 1 \in Nat /\ Append(r.audit, l) \in Seq(Line)
  BY RowsFields, AppendProperties
<1>2. QED BY <1>1 DEF Rows, Line

LEMMA Wiped ==
  ASSUME NEW n \in Nat, NEW b \in BOOLEAN
  PROVE  /\ [Empty EXCEPT !.rev = n + 1, !.excludes = b] \in Rows
         /\ [Empty EXCEPT !.rev = n + 1, !.excludes = b].rev = n + 1
         /\ [Empty EXCEPT !.rev = n + 1, !.excludes = b].events = {}
         /\ [Empty EXCEPT !.rev = n + 1, !.excludes = b].audit = <<>>
<1>1. n + 1 \in Nat
  OBVIOUS
<1>2. QED BY <1>1, EmptyRows DEF Rows

(* Events of one recording are finitely many.                              *)
LEMMA EverFinite ==
  ASSUME NEW r \in Rows, NEW i, NEW removed \in SUBSET Recorded, NEW consumed
  PROVE  /\ IsFiniteSet(Of(r, i)) /\ Cardinality(Of(r, i)) \in Nat
         /\ IsFiniteSet(Ever(r, i, removed)) /\ Cardinality(Ever(r, i, removed)) \in Nat
         /\ IsFiniteSet(Tallied(r, i, removed, consumed))
         /\ Cardinality(Tallied(r, i, removed, consumed)) \in Nat
         /\ Cardinality(Tallied(r, i, removed, consumed)) <= Cardinality(Ever(r, i, removed))
<1>1. IsFiniteSet(Segment) /\ IsFiniteSet({i})
  <2>1. 1 \in Int /\ MaxSegment \in Int
    BY RecordingAssumption
  <2>2. QED BY <2>1, FS_Interval, FS_Singleton DEF Segment
<1>2. IsFiniteSet({i} \X Segment)
  BY <1>1, FS_Product
<1>3. Ever(r, i, removed) \subseteq {i} \X Segment
  BY DEF Ever, Rows, Recorded
<1>4. IsFiniteSet(Ever(r, i, removed))
  BY <1>2, <1>3, FS_Subset
<1>5. Of(r, i) \subseteq Ever(r, i, removed)
  BY DEF Of, Ever
<1>6. Tallied(r, i, removed, consumed) \subseteq Ever(r, i, removed)
  BY DEF Tallied
<1>7. QED BY <1>4, <1>5, <1>6, FS_Subset, FS_CardinalityType

(* The tally grows with the rows, with what was removed and with what is   *)
(* consumed.                                                               *)
LEMMA MoreTallied ==
  ASSUME NEW r \in Rows, NEW s \in Rows, NEW i,
         NEW removed \in SUBSET Recorded, NEW removal \in SUBSET Recorded,
         NEW consumed, NEW consuming,
         Ever(r, i, removed) \subseteq Ever(s, i, removal), consumed \subseteq consuming
  PROVE  Cardinality(Tallied(r, i, removed, consumed))
           <= Cardinality(Tallied(s, i, removal, consuming))
<1>1. Tallied(r, i, removed, consumed) \subseteq Tallied(s, i, removal, consuming)
  BY DEF Tallied
<1>2. QED BY <1>1, EverFinite, FS_Subset

(* What SQLite holds of a recording is in the project of its agent.        *)
LEMMA StoredAtHome ==
  ASSUME TypeOK, \A p \in Project : AtHome(db[p], p), NEW i \in SessionId
  PROVE  /\ Stored(i) = Of(db[agent[i].project], i)
         /\ Stored(i) \cup Taken(i) = Ever(db[agent[i].project], i, taken)
<1>1. agent[i].project \in Project
  BY DEF TypeOK, Agent
<1>2. QED BY <1>1 DEF Stored, Of, AtHome, Taken, Ever
-----------------------------------------------------------------------------
(* Agents.                                                                 *)

LEMMA EndedAgent ==
  ASSUME NEW a \in Agent, a.head \in 1 .. a.made + 1
  PROVE  /\ Ended(a) \in Agent /\ AgentSound(Ended(a))
         /\ Ended(a).pc = "exited" /\ Ended(a).head = a.head
         /\ Ended(a).project = a.project /\ Ended(a).parent = a.parent
<1>1. Ended(a) = [a EXCEPT !.pc = "exited", !.tries = 0]
  BY DEF Ended
<1>2. 0 \in 0 .. 3
  OBVIOUS
<1>3. Ended(a) \in Agent
  BY <1>1, <1>2 DEF Agent
<1>4. /\ Ended(a).made = a.made /\ Ended(a).tries = 0 /\ Ended(a).pc = "exited"
      /\ Ended(a).head = a.head /\ Ended(a).project = a.project /\ Ended(a).parent = a.parent
  BY <1>1 DEF Agent
<1>5. AgentSound(Ended(a))
  BY <1>4 DEF AgentSound
<1>6. QED BY <1>3, <1>4, <1>5

LEMMA ReturnedAgent ==
  ASSUME NEW a \in Agent, AgentSound(a), a.pc = "wait", NEW s \in BOOLEAN
  PROVE  /\ Returned(a, s) \in Agent /\ Returned(a, s).pc = "wait"
         /\ Returned(a, s).made = a.made /\ Returned(a, s).project = a.project
         /\ Returned(a, s).parent = a.parent /\ Returned(a, s).ending = a.ending
         /\ Returned(a, s).head = (IF s THEN a.head + 1 ELSE a.head)
         /\ Returned(a, s).tries = (IF ~s /\ a.ending THEN a.tries - 1 ELSE a.tries)
<1>1. a.head + 1 \in Nat /\ (a.ending => a.tries - 1 \in 0 .. 3)
  BY DEF Agent, AgentSound
<1>2. QED BY <1>1 DEF Returned, Agent

(* The return of a post leaves a sound agent behind.                       *)
LEMMA PostedAgent ==
  ASSUME NEW a \in Agent, AgentSound(a), a.pc = "wait", NEW s \in BOOLEAN
  PROVE  /\ Posted(a, s) \in Agent /\ AgentSound(Posted(a, s))
         /\ Posted(a, s).pc \in {"send", "look", "exited"}
         /\ Posted(a, s).project = a.project /\ Posted(a, s).parent = a.parent
         /\ Posted(a, s).head = (IF s THEN a.head + 1 ELSE a.head)
<1> DEFINE b == Returned(a, s)
<1>1. /\ b \in Agent /\ b.pc = "wait" /\ b.made = a.made /\ b.project = a.project
      /\ b.parent = a.parent /\ b.ending = a.ending
      /\ b.head = (IF s THEN a.head + 1 ELSE a.head)
      /\ b.tries = (IF ~s /\ a.ending THEN a.tries - 1 ELSE a.tries)
  BY ReturnedAgent
<1>2. /\ a.head \in 1 .. a.made + 1 /\ a.head <= a.made /\ (a.ending => a.tries > 0)
      /\ a.ending \/ a.tries = 0
      /\ a.made \in Nat /\ a.tries \in Nat
  BY RecordingAssumption DEF Agent, AgentSound
<1>3. b.head \in 1 .. b.made + 1 /\ (b.ending \/ b.tries = 0)
  BY <1>1, <1>2
<1>4. CASE b.head <= b.made /\ (s \/ b.tries > 0)
  <2>1. Posted(a, s) = [b EXCEPT !.pc = "send"]
    BY <1>4 DEF Posted
  <2>2. s /\ a.ending => b.tries > 0
    BY <1>1, <1>2
  <2>3. QED BY <1>1, <1>3, <1>4, <2>1, <2>2 DEF Agent, AgentSound
<1>5. CASE ~(b.head <= b.made /\ (s \/ b.tries > 0)) /\ b.ending
  <2>1. Posted(a, s) = Ended(b)
    BY <1>5 DEF Posted
  <2>2. Ended(b) \in Agent /\ AgentSound(Ended(b))
    BY <1>1, <1>3, EndedAgent
  <2>3. QED BY <1>1, <1>3, <2>1, <2>2, EndedAgent
<1>6. CASE ~(b.head <= b.made /\ (s \/ b.tries > 0)) /\ ~b.ending
  <2>1. Posted(a, s) = [b EXCEPT !.pc = "look"]
    BY <1>6 DEF Posted
  <2>2. QED BY <1>1, <1>3, <1>6, <2>1 DEF Agent, AgentSound
<1>7. QED BY <1>4, <1>5, <1>6

(* An answer moves the head of the agent that waits for it, if it is good  *)
(* news.                                                                   *)
LEMMA AnsweredEffect ==
  ASSUME TypeOK, AgentsSound, PostsSound, NEW m \in wire, NEW s \in BOOLEAN, Answered(m, s)
  PROVE  /\ agent' \in [SessionId -> Agent] /\ wire' \subseteq wire
         /\ AgentsSound' /\ PostsSound' /\ Carried
         /\ \A i \in SessionId :
               \/ agent'[i].head = agent[i].head
               \/ /\ s /\ i = m.session /\ m.sequence = agent[i].head
                  /\ agent'[i].head = agent[i].head + 1
<1>1. m \in Post /\ m.session \in SessionId /\ m.late \in BOOLEAN
  BY DEF TypeOK, Post
<1>2. wire' = wire \ {m}
  BY DEF Answered
<1>3. CASE m.late
  <2>1. agent' = agent
    BY <1>3 DEF Answered
  <2>2. AgentsSound' /\ PostsSound'
    BY <1>2, <2>1 DEF AgentsSound, PostsSound, PostSound
  <2>3. QED BY <1>2, <2>1, <2>2 DEF TypeOK, Carried
<1>4. CASE ~m.late
  <2> DEFINE i == m.session
  <2>1. /\ agent[i] \in Agent /\ AgentSound(agent[i]) /\ agent[i].pc = "wait"
        /\ agent[i].head = m.sequence
    BY <1>1, <1>4 DEF TypeOK, AgentsSound, PostsSound, PostSound
  <2>2. /\ Posted(agent[i], s) \in Agent /\ AgentSound(Posted(agent[i], s))
        /\ Posted(agent[i], s).pc \in {"send", "look", "exited"}
        /\ Posted(agent[i], s).project = agent[i].project
        /\ Posted(agent[i], s).parent = agent[i].parent
        /\ Posted(agent[i], s).head = (IF s THEN agent[i].head + 1 ELSE agent[i].head)
    BY <2>1, PostedAgent
  <2>3. agent' = [agent EXCEPT ![i] = Posted(agent[i], s)]
    BY <1>4 DEF Answered
  <2>4. agent'[i] = Posted(agent[i], s) /\ \A j \in SessionId \ {i} : agent'[j] = agent[j]
    BY <1>1, <2>3 DEF TypeOK
  <2>5. agent' \in [SessionId -> Agent] /\ AgentsSound'
    BY <1>1, <2>2, <2>3, <2>4 DEF TypeOK, AgentsSound
  <2>6. PostsSound'
    <3> SUFFICES ASSUME NEW n \in wire, n # m PROVE PostSound(n)'
      BY <1>2 DEF PostsSound
    <3>1. n \in Post /\ n.session \in SessionId /\ PostSound(n)
      BY DEF TypeOK, Post, PostsSound
    <3>2. n.session = i => n.late
      BY <1>1, <1>4, <2>1, <3>1 DEF PostSound, Post
    <3>3. QED BY <2>1, <2>2, <2>4, <3>1, <3>2 DEF PostSound
  <2>7. Carried
    BY <2>1, <2>2, <2>4 DEF Carried
  <2>8. QED BY <1>2, <2>1, <2>2, <2>4, <2>5, <2>6, <2>7 DEF TypeOK
<1>5. QED BY <1>1, <1>3, <1>4
-----------------------------------------------------------------------------
(* Copies, requests and commits.                                           *)

LEMMA CopyTypes ==
  ASSUME TypeOK
  PROVE  /\ \A p \in Project : view[p] \in Rows /\ db[p] \in Rows /\ View(p) \in Rows
         /\ \A c \in Client : /\ req[c] \in Request
                              /\ req[c].project \in Project /\ req[c].rows \in Rows
                              /\ Held(c) \in Rows /\ CopyOf(Held(c), req[c].project)
         /\ Legacy \in Project /\ session.project \in Project
         /\ session.id \in 0 .. MaxSession /\ session.count \in Nat
<1>1. \A c \in Client : req[c] \in Request
  BY DEF TypeOK
<1>2. \A c \in Client : req[c].project \in Project /\ req[c].rows \in Rows
  BY <1>1 DEF Request
<1>3. \A p \in Project : view[p] \in Rows /\ db[p] \in Rows /\ View(p) \in Rows
  BY DEF TypeOK, View
<1>4. \A c \in Client : Held(c) \in Rows /\ CopyOf(Held(c), req[c].project)
  BY <1>2, <1>3 DEF Held, CopyOf
<1>5. session \in Session /\ Legacy \in Project
  BY RecordingAssumption DEF TypeOK
<1>6. QED BY <1>1, <1>2, <1>3, <1>4, <1>5 DEF Session

LEMMA LookEffect ==
  ASSUME TypeOK, NEW p \in Project, Look(p)
  PROVE  /\ viewed' \subseteq Project /\ view' \in [Project -> Rows]
         /\ \A q \in Project : view'[q] \in {view[q], db[q]}
  BY CopyTypes DEF TypeOK, Look, View

LEMMA DropEffect ==
  ASSUME TypeOK, NEW p \in Project, Drop(p)
  PROVE  /\ viewed' \subseteq Project /\ view' \in [Project -> Rows]
         /\ \A q \in Project : view'[q] \in {view[q], Empty}
  BY EmptyRows DEF TypeOK, Drop

(* A request at another place.                                             *)
LEMMA RequestUpdate ==
  ASSUME NEW r \in Request
  PROVE  /\ [r EXCEPT !.pc = "finish", !.process = 0] \in Request
         /\ [r EXCEPT !.pc = "finish", !.process = 0].pc = "finish"
         /\ [r EXCEPT !.pc = "finish", !.process = 0].kind = r.kind
         /\ [r EXCEPT !.pc = "finish", !.process = 0].shared = r.shared
         /\ [r EXCEPT !.pc = "finish", !.process = 0].rows = r.rows
         /\ [r EXCEPT !.pc = "finish", !.process = 0].project = r.project
         /\ [r EXCEPT !.pc = "clear"] \in Request
         /\ [r EXCEPT !.pc = "clear"].pc = "clear"
         /\ [r EXCEPT !.pc = "clear"].kind = r.kind
         /\ [r EXCEPT !.pc = "clear"].shared = r.shared
         /\ [r EXCEPT !.pc = "clear"].rows = r.rows
         /\ [r EXCEPT !.pc = "clear"].project = r.project
<1>1. 0 \in 0 .. MaxSession
  BY RecordingAssumption
<1>2. /\ [r EXCEPT !.pc = "finish", !.process = 0] \in Request
      /\ [r EXCEPT !.pc = "clear"] \in Request
  BY <1>1 DEF Request
<1>3. QED BY <1>2 DEF Request

LEMMA IdleRequest ==
  Idle \in Request /\ Idle.pc = "idle" /\ Idle.kind = "stop" /\ Idle.rows = Empty
<1>1. 0 \in 0 .. MaxSession /\ Legacy \in Project
  BY RecordingAssumption
<1>2. QED BY <1>1, EmptyRows DEF Idle, Request

LEMMA DetachedEffect ==
  ASSUME TypeOK, RequestSound, NEW p \in Project
  PROVE  /\ Detached(p) \in [Client -> Request]
         /\ \A c \in Client :
               /\ Detached(p)[c].pc = req[c].pc /\ Detached(p)[c].kind = req[c].kind
               /\ Detached(p)[c].project = req[c].project /\ Detached(p)[c].process = req[c].process
               /\ Detached(p)[c].shared => req[c].shared
               /\ Detached(p)[c].rows \in {req[c].rows, view[req[c].project]}
               /\ req[c].pc = "clear" => Detached(p)[c].rows = req[c].rows
<1>1. \A c \in Client : req[c] \in Request /\ view[req[c].project] \in Rows
  BY CopyTypes
<1>2. view[p] \in Rows
  BY CopyTypes
<1>3. Detached(p) = [c \in Client |-> IF req[c].shared /\ req[c].project = p
                                      THEN [req[c] EXCEPT !.shared = FALSE, !.rows = view[p]]
                                      ELSE req[c]]
  BY DEF Detached
<1>4. ASSUME NEW c \in Client
      PROVE  /\ Detached(p)[c] \in Request
             /\ Detached(p)[c].pc = req[c].pc /\ Detached(p)[c].kind = req[c].kind
             /\ Detached(p)[c].project = req[c].project /\ Detached(p)[c].process = req[c].process
             /\ Detached(p)[c].shared => req[c].shared
             /\ Detached(p)[c].rows \in {req[c].rows, view[req[c].project]}
             /\ req[c].pc = "clear" => Detached(p)[c].rows = req[c].rows
  <2>1. CASE req[c].shared /\ req[c].project = p
    <3>1. Detached(p)[c] = [req[c] EXCEPT !.shared = FALSE, !.rows = view[p]]
      BY <1>3, <2>1
    <3>2. req[c].pc # "clear"
      BY <2>1 DEF RequestSound
    <3>3. /\ Detached(p)[c] \in Request
          /\ Detached(p)[c].rows = view[p] /\ Detached(p)[c].shared = FALSE
          /\ Detached(p)[c].pc = req[c].pc /\ Detached(p)[c].kind = req[c].kind
          /\ Detached(p)[c].process = req[c].process
          /\ Detached(p)[c].project = req[c].project
      <4> DEFINE r == req[c]
      <4>1. r \in Request /\ view[p] \in Rows
        BY <1>1, <1>2
      <4>2. /\ [r EXCEPT !.shared = FALSE, !.rows = view[p]] \in Request
            /\ [r EXCEPT !.shared = FALSE, !.rows = view[p]].rows = view[p]
            /\ [r EXCEPT !.shared = FALSE, !.rows = view[p]].shared = FALSE
            /\ [r EXCEPT !.shared = FALSE, !.rows = view[p]].pc = r.pc
            /\ [r EXCEPT !.shared = FALSE, !.rows = view[p]].kind = r.kind
            /\ [r EXCEPT !.shared = FALSE, !.rows = view[p]].process = r.process
            /\ [r EXCEPT !.shared = FALSE, !.rows = view[p]].project = r.project
        <5> HIDE DEF r
        <5> QED BY <4>1 DEF Request
      <4>3. QED BY <3>1, <4>2
    <3>4. QED BY <2>1, <3>2, <3>3
  <2>2. CASE ~(req[c].shared /\ req[c].project = p)
    BY <1>1, <1>3, <2>2
  <2>3. QED BY <2>1, <2>2
<1>5. QED BY <1>3, <1>4

(* Where copies come from: views from the durable rows, requests from      *)
(* views.                                                                  *)
LEMMA CopiesComeFrom ==
  ASSUME TypeOK,
         \A q \in Project : view'[q] \in {view[q], db[q], db'[q], Empty},
         root' \in {root, db[Legacy], db'[Legacy]},
         \A c \in Client :
            \/ /\ req'[c].project = req[c].project
               /\ req'[c].rows \in {req[c].rows, view[req[c].project]}
            \/ req'[c].rows \in {db[req'[c].project], Empty}
  PROVE  CopiesCome
<1> SUFFICES ASSUME NEW p \in Project, NEW r \in Rows, CopyOf(r, p)'
             PROVE  CopyOf(r, p) \/ r = db[p] \/ r = db'[p] \/ r = Empty
  BY DEF CopiesCome
<1>1. CASE r = view'[p]
  BY <1>1 DEF CopyOf
<1>2. CASE p = Legacy /\ r = root'
  BY <1>2 DEF CopyOf
<1>3. ASSUME NEW c \in Client, req'[c].project = p, r = req'[c].rows
      PROVE  CopyOf(r, p) \/ r = db[p] \/ r = Empty
  BY <1>3 DEF CopyOf
<1>4. QED BY <1>1, <1>2, <1>3 DEF CopyOf

(* A commit goes through only if the copy is the durable rows; what the    *)
(* copy holds afterwards is what it held or what SQLite holds.             *)
LEMMA CommitEffect ==
  ASSUME TypeOK, CopiesFit, NEW p \in Project, NEW copy \in Rows,
         CopyOf(copy, p) \/ copy = db[p],
         NEW rows \in Rows, NEW outcome \in Outcomes(p, copy), Commit(p, rows, outcome)
  PROVE  /\ \/ /\ outcome \in {"ok", "committed"}
               /\ p \in live /\ copy = db[p] /\ db' = [db EXCEPT ![p] = rows]
            \/ outcome \notin {"ok", "committed"} /\ db' = db
         /\ outcome = "committed" => "unconfirmed" \in Env
         /\ db' \in [Project -> Rows]
         /\ \A q \in Project : q # p => db'[q] = db[q]
         /\ After(p, copy, outcome) \in {copy, db'[p]}
         /\ outcome = "ok" => After(p, copy, outcome) = db'[p]
<1>1. outcome \in {"ok", "committed"} => p \in live /\ copy.rev = db[p].rev
  BY DEF Outcomes
<1>2. p \in live /\ copy.rev = db[p].rev => copy = db[p]
  BY DEF CopiesFit, Fits
<1>3. outcome = "committed" => "unconfirmed" \in Env
  BY DEF Outcomes
<1>4. db \in [Project -> Rows]
  BY DEF TypeOK
<1>5. QED BY <1>1, <1>2, <1>3, <1>4 DEF Commit, After
-----------------------------------------------------------------------------
(* What the parts of the invariant ask of a step.                          *)

LEMMA FitKeeps ==
  ASSUME RecInv, TypeOK', live' \subseteq live, CopiesCome,
         \A p \in Project : \/ db'[p] = db[p]
                            \/ db'[p].rev > db[p].rev
                            \/ p \notin live' /\ db'[p] = Empty
  PROVE  CopiesFit'
<1>1. \A p \in Project : /\ db[p] \in Rows /\ db'[p] \in Rows
                         /\ db[p].rev \in Nat /\ db'[p].rev \in Nat
  BY RowsFields DEF RecInv, TypeOK
<1>2. \A p \in Project : db'[p].rev = 0 => db'[p] = Empty
  BY <1>1 DEF RecInv, CopiesFit
<1>3. ASSUME NEW p \in live', NEW r \in Rows, CopyOf(r, p)'
      PROVE  Fits(r, p)'
  <2>1. p \in Project /\ p \in live
    BY DEF RecInv, TypeOK
  <2>2. db'[p] = db[p] \/ db'[p].rev > db[p].rev
    BY <2>1
  <2>3. r.rev \in Nat
    BY RowsFields
  <2>4. CASE CopyOf(r, p)
    <3>1. Fits(r, p)
      BY <2>1, <2>4 DEF RecInv, CopiesFit
    <3>2. QED BY <1>1, <2>1, <2>2, <2>3, <3>1 DEF Fits
  <2>5. CASE r = db[p]
    BY <1>1, <2>1, <2>2, <2>5 DEF Fits
  <2>6. CASE r = db'[p]
    BY <1>1, <2>1, <2>6 DEF Fits
  <2>7. CASE r = Empty
    BY <1>1, <1>2, <2>1, <2>7, EmptyRows DEF Fits
  <2>8. QED BY <1>3, <2>1, <2>4, <2>5, <2>6, <2>7 DEF CopiesCome
<1>4. QED BY <1>2, <1>3 DEF CopiesFit

LEMMA HomeStays ==
  ASSUME Carried, NEW r \in Rows, NEW p \in Project, AtHome(r, p)
  PROVE  HomeAfter(r, p)
<1>1. \A e \in r.events : e[1] \in SessionId
  BY RowsFields DEF Recorded
<1>2. \A k \in DOMAIN r.audit : r.audit[k].session \in SessionId
  <2>1. r.audit \in Seq(Line)
    BY RowsFields
  <2>2. \A k \in DOMAIN r.audit : r.audit[k] \in Line
    BY <2>1, ElementOfSeq, LenProperties
  <2>3. QED BY <2>2 DEF Line
<1>3. QED BY <1>1, <1>2 DEF Carried, AtHome, HomeAfter

LEMMA HomesKeep ==
  ASSUME RecInv, TypeOK', CopiesCome, Carried,
         \A p \in Project : db'[p] = db[p] \/ HomeAfter(db'[p], p)
  PROVE  Homes'
<1>1. \A p \in Project : db[p] \in Rows /\ HomeAfter(db[p], p)
  BY HomeStays DEF RecInv, TypeOK, Homes
<1>2. \A p \in Project : HomeAfter(Empty, p)
  BY EmptyRows DEF HomeAfter
<1>3. \A p \in Project : HomeAfter(db'[p], p)
  BY <1>1
<1>4. \A p \in Project : AtHome(db[p], p)'
  BY <1>3 DEF AtHome, HomeAfter
<1>5. ASSUME NEW p \in Project, NEW r \in Rows, CopyOf(r, p)'
      PROVE  AtHome(r, p)'
  <2>1. CopyOf(r, p) => HomeAfter(r, p)
    BY HomeStays DEF RecInv, Homes
  <2>2. HomeAfter(r, p)
    BY <1>1, <1>2, <1>3, <1>5, <2>1 DEF CopiesCome
  <2>3. QED BY <2>2 DEF AtHome, HomeAfter
<1>6. QED BY <1>4, <1>5 DEF Homes

(* Nothing that was skipped is stored, as long as nothing new is.          *)
LEMMA OutKeeps ==
  ASSUME RecInv, NEW X, X \cap skipped = {}, skipped' = skipped,
         \A p \in Project : db'[p].events \subseteq db[p].events \cup X
  PROVE  LeftOutStaysOut'
  BY DEF RecInv, LeftOutStaysOut, Stored

(* The session goes on, and what SQLite held of it stays known.            *)
LEMMA KeptKeeps ==
  ASSUME RecInv, TypeOK', CopiesCome,
         session'.active =>
            /\ session.active
            /\ session'.id = session.id /\ session'.project = session.project
            /\ Ever(db[session.project], session.id, taken)
                  \subseteq Ever(db'[session.project], session.id, taken')
            /\ \A c \in Client :
                  req'[c].pc = "clear" /\ req'[c].project = session.project =>
                     \/ Of(db'[session.project], session.id) = {}
                     \/ req'[c].rows.rev # db'[session.project].rev
            /\ session'.count
                  <= Cardinality(Tallied(db'[session.project], session.id, taken', seen'))
  PROVE  SessionKept'
<1> SUFFICES ASSUME session'.active
             PROVE  \A r \in Rows : CopyOf(r, session.project)' =>
                       Of(r, session.id) \subseteq Ever(db'[session.project], session.id, taken')
  BY DEF SessionKept, Of, CopyOf
<1>1. \A r \in Rows : CopyOf(r, session.project) =>
         Of(r, session.id) \subseteq Ever(db'[session.project], session.id, taken')
  BY DEF RecInv, SessionKept
<1>2. Of(Empty, session.id) = {}
  BY EmptyRows DEF Of
<1>3. session.project \in Project
  BY CopyTypes DEF RecInv
<1>4. /\ Of(db[session.project], session.id)
            \subseteq Ever(db'[session.project], session.id, taken')
      /\ Of(db'[session.project], session.id)
            \subseteq Ever(db'[session.project], session.id, taken')
  BY DEF Of, Ever
<1>5. QED BY <1>1, <1>2, <1>3, <1>4 DEF CopiesCome

(* A quiet step keeps what is said of storage and of the session.          *)
LEMMA QuietKeeps ==
  ASSUME RecInv, TypeOK', Quiet
  PROVE  /\ SessionSound' /\ CopiesFit' /\ Homes' /\ SkippedSeen' /\ LeftOutStaysOut'
         /\ SessionKept' /\ AcknowledgedIsKept' /\ AuditedOnce'
<1>1. SessionSound'
  <2>1. session.id \in SessionId \cup {0}
    BY CopyTypes, RecordingAssumption DEF RecInv, SessionId
  <2>2. QED BY <2>1 DEF RecInv, Quiet, SameSession, SessionSound, Carried
<1>2. CopiesFit'
  BY FitKeeps DEF Quiet
<1>3. Homes'
  BY HomesKeep DEF Quiet
<1>4. SkippedSeen'
  <2>1. skipped \subseteq Recorded /\ taken \subseteq Recorded
    BY DEF RecInv, TypeOK
  <2>2. \A e \in skipped \cup taken : e[1] \in SessionId /\ e[1] # 0
    BY <2>1, RecordingAssumption DEF Recorded, SessionId
  <2>3. QED BY <2>2 DEF RecInv, Quiet, SameSession, SkippedSeen, Carried
<1>5. LeftOutStaysOut'
  BY DEF RecInv, Quiet, LeftOutStaysOut, Stored
<1>6. SessionKept'
  <2>1. CopiesCome /\ db' = db
    BY DEF Quiet
  <2>2. session.active =>
           /\ \A c \in Client :
                 req'[c].pc = "clear" /\ req'[c].project = session.project =>
                    \/ Of(db[session.project], session.id) = {}
                    \/ req'[c].rows.rev # db[session.project].rev
           /\ session.count <= Cardinality(Tallied(db[session.project], session.id, taken, seen))
    BY DEF RecInv, SessionKept, Quiet, ClearsKept
  <2>3. QED BY <2>1, <2>2, KeptKeeps DEF Quiet, SameSession
<1>7. AcknowledgedIsKept'
  <2>1. session.active => session.id \in SessionId
    BY CopyTypes, RecordingAssumption DEF RecInv, SessionSound, SessionId
  <2>2. QED BY <2>1 DEF RecInv, Quiet, SameSession, HeadsStay, AcknowledgedIsKept, Stored
<1>8. AuditedOnce'
  BY DEF RecInv, Quiet, AuditedOnce
<1>9. QED BY <1>1, <1>2, <1>3, <1>4, <1>5, <1>6, <1>7, <1>8

(* What the manager knows is a session with the same identity.             *)
LEMMA KnownSession ==
  ASSUME TypeOK
  PROVE  /\ Known \in Session /\ [Known EXCEPT !.paused = TRUE] \in Session
         /\ [Known EXCEPT !.paused = FALSE] \in Session
         /\ \A s \in {Known, [Known EXCEPT !.paused = TRUE], [Known EXCEPT !.paused = FALSE]} :
               /\ s.id = session.id /\ s.project = session.project
               /\ s.active = session.active /\ s.count = session.count
         /\ Process \in {0, current} /\ Process \in 0 .. MaxSession
         /\ Files \subseteq SessionId /\ Touched \subseteq SessionId
<1>1. session \in Session
  BY DEF TypeOK
<1>2. Known \in {session, [session EXCEPT !.ended = TRUE, !.paused = FALSE]}
  BY DEF Known
<1>3. /\ Known \in Session /\ Known.id = session.id /\ Known.project = session.project
      /\ Known.active = session.active /\ Known.count = session.count
  BY <1>1, <1>2 DEF Session
<1>4. /\ [Known EXCEPT !.paused = TRUE] \in Session
      /\ [Known EXCEPT !.paused = FALSE] \in Session
      /\ \A s \in {[Known EXCEPT !.paused = TRUE], [Known EXCEPT !.paused = FALSE]} :
            /\ s.id = Known.id /\ s.project = Known.project
            /\ s.active = Known.active /\ s.count = Known.count
  BY <1>3 DEF Session
<1>5. Process \in {0, current} /\ Process \in 0 .. MaxSession
  BY RecordingAssumption DEF TypeOK, Process
<1>6. Files \subseteq SessionId /\ Touched \subseteq SessionId
  BY <1>5, RecordingAssumption DEF TypeOK, Files, Touched, SessionId
<1>7. QED BY <1>3, <1>4, <1>5, <1>6

(* A handler that may poll the process and changes neither agents nor rows.*)
LEMMA HandlerKeeps ==
  ASSUME RecInv, NEW p \in Project,
         session' \in {session, Known, [Known EXCEPT !.paused = TRUE],
                       [Known EXCEPT !.paused = FALSE]},
         current' \in {current, Process}, stopFiles' \in {stopFiles, Files, Touched},
         Look(p) \/ Drop(p) \/ UNCHANGED <<viewed, view>>,
         req' \in [Client -> Request], RequestSound', ClearsKept,
         \A c \in Client :
            \/ /\ req'[c].project = req[c].project
               /\ req'[c].rows \in {req[c].rows, view[req[c].project]}
            \/ req'[c].rows \in {db[req'[c].project], Empty},
         edits' \in 0 .. MaxEdits, starting' \subseteq Project,
         UNCHANGED <<live, db, root, seen, agent, wire, history>>
  PROVE  RecInv'
<1>1. TypeOK /\ skipped' = skipped /\ taken' = taken
  BY DEF RecInv, history
<1>2. /\ viewed' \subseteq Project /\ view' \in [Project -> Rows]
      /\ \A q \in Project : view'[q] \in {view[q], db[q], Empty}
  <2>1. CASE UNCHANGED <<viewed, view>>
    BY <1>1, <2>1 DEF TypeOK
  <2>2. QED BY <1>1, <2>1, LookEffect, DropEffect
<1>3. TypeOK'
  <2>1. session' \in Session /\ current' \in 0 .. MaxSession /\ stopFiles' \subseteq SessionId
    BY <1>1, KnownSession DEF TypeOK
  <2>2. QED BY <1>1, <1>2, <2>1 DEF TypeOK
<1>4. CopiesCome
  BY <1>1, <1>2, CopiesComeFrom
<1>5. SameSession
  BY <1>1, KnownSession DEF SameSession
<1>6. Quiet
  BY <1>1, <1>4, <1>5 DEF Quiet, Carried, HeadsStay
<1>7. AgentsSound' /\ PostsSound'
  BY DEF RecInv, AgentsSound, PostsSound, PostSound
<1>8. QED BY <1>3, <1>6, <1>7, QuietKeeps DEF RecInv
-----------------------------------------------------------------------------
(* The steps that change neither rows nor the session's identity.          *)

LEMMA SameRequests ==
  ASSUME RecInv, UNCHANGED req
  PROVE  /\ req' \in [Client -> Request] /\ RequestSound' /\ ClearsKept
         /\ \A c \in Client :
               /\ req'[c].project = req[c].project
               /\ req'[c].rows \in {req[c].rows, view[req[c].project]}
  BY DEF RecInv, TypeOK, RequestSound, ClearsKept

LEMMA PollKeeps ==
  ASSUME RecInv, NEW p \in Asked, Status(p) \/ Pause(p) \/ Resume(p)
  PROVE  RecInv'
<1>1. p \in Project
  BY RecordingAssumption
<1>2. edits' \in 0 .. MaxEdits /\ starting' \subseteq Project
  BY DEF RecInv, TypeOK, Status, Pause, Resume
<1>3. /\ Look(p) /\ current' = Process /\ stopFiles' = Files
      /\ session' \in {Known, [Known EXCEPT !.paused = TRUE], [Known EXCEPT !.paused = FALSE]}
      /\ UNCHANGED <<live, db, root, seen, agent, wire, req, history>>
  BY DEF Status, Pause, Resume, RefreshAs
<1>4. QED BY <1>1, <1>2, <1>3, SameRequests, HandlerKeeps

(* A start that resolves its store.                                        *)
LEMMA StartBeginsKeeps ==
  ASSUME RecInv, NEW p \in Asked, NEW versioned \in BOOLEAN, StartBegins(p, versioned)
  PROVE  RecInv'
<1>0. TypeOK /\ RequestSound
  BY DEF RecInv
<1>1. p \in Project
  BY RecordingAssumption
<1>2. /\ edits' \in 0 .. MaxEdits /\ starting' \subseteq Project
      /\ UNCHANGED <<live, db, root, session, current, seen, stopFiles, agent, wire, history>>
  BY <1>0, <1>1 DEF StartBegins, TypeOK, manager
<1>3. CASE Look(p) /\ UNCHANGED req
  BY <1>1, <1>2, <1>3, SameRequests, HandlerKeeps
<1>4. CASE Drop(p) /\ req' = Detached(p)
  <2>1. /\ req' \in [Client -> Request] /\ RequestSound' /\ ClearsKept
        /\ \A c \in Client : /\ req'[c].project = req[c].project
                             /\ req'[c].rows \in {req[c].rows, view[req[c].project]}
    BY <1>0, <1>1, <1>4, DetachedEffect DEF RequestSound, ClearsKept
  <2>2. QED BY <1>1, <1>2, <1>4, <2>1, HandlerKeeps
<1>5. QED BY <1>3, <1>4 DEF StartBegins

(* A start that finds a recording active, or its project gone.             *)
LEMMA StartRefusedKeeps ==
  ASSUME RecInv, NEW p \in Asked, RefreshAs(Known), starting' = starting \ {p},
         UNCHANGED <<storage, seen, agent, wire, req, edits, history>>
  PROVE  RecInv'
<1>1. p \in Project
  BY RecordingAssumption
<1>2. /\ edits' \in 0 .. MaxEdits /\ starting' \subseteq Project
      /\ session' = Known /\ current' = Process /\ stopFiles' = Files
      /\ UNCHANGED <<live, db, root, viewed, view>>
  BY DEF RecInv, TypeOK, RefreshAs, storage
<1>3. QED BY <1>1, <1>2, SameRequests, HandlerKeeps

LEMMA StopBeginsKeeps ==
  ASSUME RecInv, NEW p \in Asked, NEW c \in Client, StopBegins(c, p)
  PROVE  RecInv'
<1> DEFINE r == [Idle EXCEPT !.pc = "wait", !.project = p, !.shared = TRUE, !.process = Process]
<1>1. p \in Project
  BY RecordingAssumption
<1>2. r \in Request /\ r.pc = "wait" /\ r.kind = "stop" /\ r.rows = Empty
  <2>1. Process \in 0 .. MaxSession
    BY KnownSession DEF RecInv
  <2>2. QED BY <1>1, <2>1, EmptyRows DEF Idle, Request
<1>3. req' = [req EXCEPT ![c] = r] /\ req \in [Client -> Request]
  BY DEF StopBegins, RecInv, TypeOK
<1>4. /\ req' \in [Client -> Request] /\ req'[c] = r
      /\ \A d \in Client \ {c} : req'[d] = req[d]
  BY <1>2, <1>3
<1>5. RequestSound' /\ ClearsKept
  BY <1>2, <1>4 DEF RecInv, RequestSound, ClearsKept
<1>6. \A d \in Client :
         \/ req'[d].project = req[d].project /\ req'[d].rows \in {req[d].rows, view[req[d].project]}
         \/ req'[d].rows \in {db[req'[d].project], Empty}
  BY <1>2, <1>4
<1>7. /\ Look(p) /\ current' = Process /\ stopFiles' = Touched /\ session' = Known
      /\ UNCHANGED <<live, db, root, seen, agent, wire, history>> /\ edits' \in 0 .. MaxEdits
      /\ starting' \subseteq Project
  BY DEF StopBegins, RecInv, TypeOK
<1>8. QED BY <1>1, <1>4, <1>5, <1>6, <1>7, HandlerKeeps

LEMMA DeleteDataBeginsKeeps ==
  ASSUME RecInv, NEW p \in Asked, NEW c \in Client, DeleteDataBegins(c, p)
  PROVE  RecInv'
<1> DEFINE r == [Idle EXCEPT !.kind = "delete", !.project = p, !.rows = db[p]]
           waiting == [r EXCEPT !.pc = "wait", !.process = Process]
           clearing == [r EXCEPT !.pc = "clear"]
<1>0. TypeOK /\ RequestSound
  BY DEF RecInv
<1>1. p \in Project /\ db[p] \in Rows
  BY <1>0, RecordingAssumption, CopyTypes
<1>2. /\ waiting \in Request /\ waiting.pc = "wait" /\ waiting.kind = "delete"
      /\ waiting.project = p /\ waiting.rows = db[p] /\ ~waiting.shared
      /\ clearing \in Request /\ clearing.pc = "clear" /\ clearing.kind = "delete"
      /\ clearing.project = p /\ clearing.rows = db[p] /\ ~clearing.shared
  <2>1. Process \in 0 .. MaxSession
    BY <1>0, KnownSession
  <2>2. /\ r \in Request /\ r.kind = "delete" /\ r.project = p /\ r.rows = db[p] /\ ~r.shared
    <3>1. 0 \in 0 .. MaxSession
      BY RecordingAssumption
    <3>2. QED BY <1>1, <3>1 DEF Idle, Request
  <2> HIDE DEF r
  <2>3. QED BY <2>1, <2>2 DEF Request
<1>3. \/ Recording(p) /\ req' = [Detached(p) EXCEPT ![c] = waiting]
      \/ ~Recording(p) /\ req' = [Detached(p) EXCEPT ![c] = clearing]
  BY DEF DeleteDataBegins
<1>4. /\ req' \in [Client -> Request]
      /\ \/ Recording(p) /\ req'[c] = waiting
         \/ ~Recording(p) /\ req'[c] = clearing
      /\ \A d \in Client \ {c} : req'[d] = Detached(p)[d]
  BY <1>0, <1>1, <1>2, <1>3, DetachedEffect
<1>5. Recording(p) <=> session.active /\ session.project = p
  BY <1>0, KnownSession DEF Recording
<1>6. RequestSound' /\ ClearsKept
  <2>1. ASSUME NEW d \in Client
        PROVE  /\ req'[d].pc = "clear" => req'[d].kind = "delete"
               /\ req'[d].kind = "delete" => ~req'[d].shared
               /\ req'[d].pc = "clear" =>
                     \/ /\ req[d].pc = "clear" /\ req'[d].project = req[d].project
                        /\ req'[d].rows = req[d].rows
                     \/ ~(session.active /\ session.project = req'[d].project)
    <3>1. CASE d = c
      BY <1>2, <1>4, <1>5, <3>1
    <3>2. CASE d # c
      BY <1>0, <1>1, <1>4, <3>2, DetachedEffect DEF RequestSound
    <3>3. QED BY <3>1, <3>2
  <2>2. QED BY <2>1 DEF RequestSound, ClearsKept
<1>7. \A d \in Client :
         \/ req'[d].project = req[d].project /\ req'[d].rows \in {req[d].rows, view[req[d].project]}
         \/ req'[d].rows \in {db[req'[d].project], Empty}
  <2>1. ASSUME NEW d \in Client, d # c
        PROVE  /\ req'[d].project = req[d].project
               /\ req'[d].rows \in {req[d].rows, view[req[d].project]}
    BY <1>0, <1>1, <1>4, <2>1, DetachedEffect
  <2>2. req'[c].rows = db[req'[c].project]
    BY <1>2, <1>4
  <2>3. QED BY <2>1, <2>2
<1>8. /\ Drop(p) /\ current' = Process /\ stopFiles' \in {Files, Touched} /\ session' = Known
      /\ UNCHANGED <<live, db, root, seen, agent, wire, history>> /\ edits' \in 0 .. MaxEdits
      /\ starting' \subseteq Project
  <2>1. edits < MaxEdits /\ edits' = edits + 1 /\ edits \in 0 .. MaxEdits
    BY <1>0 DEF DeleteDataBegins, TypeOK
  <2>2. edits' \in 0 .. MaxEdits
    BY <2>1, RecordingAssumption
  <2>3. QED BY <1>0, <2>2 DEF DeleteDataBegins, TypeOK
<1>9. QED BY <1>1, <1>4, <1>6, <1>7, <1>8, HandlerKeeps

(* Steps outside the lock: only agents, posts and the place of a request   *)
(* change.                                                                 *)
LEMMA OutsideKeeps ==
  ASSUME RecInv, agent' \in [SessionId -> Agent], wire' \subseteq Post,
         AgentsSound', PostsSound', Carried, HeadsStay,
         req' \in [Client -> Request], RequestSound', ClearsKept,
         \A c \in Client : /\ req'[c].project = req[c].project
                           /\ req'[c].rows \in {req[c].rows, view[req[c].project]},
         UNCHANGED <<storage, manager, starting, edits, history>>
  PROVE  RecInv'
<1>1. TypeOK'
  BY DEF RecInv, TypeOK, storage, manager, history
<1>2. CopiesCome
  BY CopiesComeFrom DEF RecInv, storage
<1>3. Quiet
  BY <1>2 DEF Quiet, SameSession, storage, manager, history
<1>4. QED BY <1>1, <1>3, QuietKeeps DEF RecInv

LEMMA ObserveKeeps ==
  ASSUME RecInv, NEW i \in SessionId, Observe(i)
  PROVE  RecInv'
<1>1. agent[i] \in Agent /\ AgentSound(agent[i]) /\ agent[i].pc = "look"
  BY DEF RecInv, TypeOK, AgentsSound, Observe
<1> DEFINE ends == i \in stopFiles \/ ~agent[i].parent
           A(n) == [agent[i] EXCEPT !.made = n, !.ending = ends, !.tries = IF ends THEN 3 ELSE 0]
           B(n) == IF A(n).head <= n THEN [A(n) EXCEPT !.pc = "send"]
                   ELSE IF ends THEN Ended(A(n)) ELSE A(n)
<1>2. PICK n \in {agent[i].made, agent[i].made + 1} \cap (0 .. MaxSegment) :
         agent' = [agent EXCEPT ![i] = B(n)]
  BY DEF Observe
<1> DEFINE a == A(n)
<1>3. ends \in BOOLEAN
  BY <1>1 DEF Agent
<1>4. /\ a \in Agent /\ a.pc = "look" /\ a.made = n /\ a.head = agent[i].head
      /\ a.ending = ends /\ a.tries = (IF ends THEN 3 ELSE 0)
      /\ a.project = agent[i].project /\ a.parent = agent[i].parent
  <2>1. (IF ends THEN 3 ELSE 0) \in 0 .. 3
    OBVIOUS
  <2>2. a \in Agent
    BY <1>1, <1>3, <2>1 DEF Agent
  <2>3. QED BY <1>1, <2>2 DEF Agent
<1>5. /\ a.head \in 1 .. a.made + 1 /\ n \in Nat
  BY <1>1, <1>4, RecordingAssumption DEF AgentSound, Agent
<1> HIDE DEF A, ends
<1>6. /\ B(n) \in Agent /\ AgentSound(B(n)) /\ B(n).pc # "unborn" /\ B(n).head = agent[i].head
      /\ B(n).project = agent[i].project /\ B(n).parent = agent[i].parent
  <2> DEFINE b == B(n)
  <2>1. CASE a.head <= n
    <3>1. B(n) = [a EXCEPT !.pc = "send"]
      BY <2>1
    <3> HIDE DEF a
    <3>2. /\ b \in Agent /\ b.pc = "send" /\ b.made = a.made /\ b.head = a.head
          /\ b.ending = a.ending /\ b.tries = a.tries
          /\ b.project = a.project /\ b.parent = a.parent
      BY <1>4, <3>1 DEF Agent
    <3> HIDE DEF b
    <3>3. AgentSound(b)
      BY <1>3, <1>4, <1>5, <2>1, <3>2 DEF AgentSound
    <3>4. QED BY <1>4, <3>2, <3>3 DEF b
  <2>2. CASE ~(a.head <= n) /\ ends
    <3>1. B(n) = Ended(a)
      BY <2>2
    <3>2. a \in Agent /\ a.head \in 1 .. a.made + 1
      BY <1>4, <1>5
    <3> HIDE DEF a
    <3>3. QED BY <1>4, <3>1, <3>2, EndedAgent
  <2>3. CASE ~(a.head <= n) /\ ~ends
    <3>1. B(n) = a
      BY <2>3
    <3>2. QED BY <1>4, <1>5, <2>3, <3>1 DEF AgentSound
  <2>4. QED BY <2>1, <2>2, <2>3
<1>7. agent'[i] = B(n) /\ \A j \in SessionId \ {i} : agent'[j] = agent[j]
  BY <1>2 DEF RecInv, TypeOK
<1> HIDE DEF B
<1>8. agent' \in [SessionId -> Agent] /\ AgentsSound' /\ Carried /\ HeadsStay
  BY <1>1, <1>2, <1>6, <1>7 DEF RecInv, TypeOK, AgentsSound, Carried, HeadsStay
<1>9. PostsSound'
  <2> SUFFICES ASSUME NEW m \in wire PROVE PostSound(m)'
    BY DEF PostsSound, Observe
  <2>1. m.session \in SessionId /\ PostSound(m)
    BY DEF RecInv, TypeOK, Post, PostsSound
  <2>2. QED BY <1>1, <1>6, <1>7, <2>1 DEF PostSound
<1>10. /\ UNCHANGED <<storage, manager, wire, starting, edits, history, req>> /\ wire' \subseteq Post
  BY DEF Observe, RecInv, TypeOK
<1>11. QED BY <1>8, <1>9, <1>10, SameRequests, OutsideKeeps

LEMMA PostHeadKeeps ==
  ASSUME RecInv, NEW i \in SessionId, PostHead(i)
  PROVE  RecInv'
<1> DEFINE m == [session |-> i, sequence |-> agent[i].head, late |-> FALSE]
           b == [agent[i] EXCEPT !.pc = "wait"]
<1>1. agent[i] \in Agent /\ AgentSound(agent[i]) /\ agent[i].pc = "send"
  BY DEF RecInv, TypeOK, AgentsSound, PostHead
<1>2. agent' = [agent EXCEPT ![i] = b] /\ wire' = wire \cup {m}
  BY DEF PostHead
<1>3. /\ b \in Agent /\ b.pc = "wait" /\ b.head = agent[i].head /\ b.made = agent[i].made
      /\ b.ending = agent[i].ending /\ b.tries = agent[i].tries
      /\ b.project = agent[i].project /\ b.parent = agent[i].parent
  BY <1>1 DEF Agent
<1>4. AgentSound(b)
  BY <1>1, <1>3 DEF AgentSound
<1>5. agent'[i] = b /\ \A j \in SessionId \ {i} : agent'[j] = agent[j]
  BY <1>2 DEF RecInv, TypeOK
<1>6. m \in Post
  <2>1. agent[i].head \in Segment
    BY <1>1, RecordingAssumption DEF AgentSound, Agent, Segment
  <2>2. QED BY <2>1 DEF Post
<1>7. agent' \in [SessionId -> Agent] /\ AgentsSound' /\ Carried /\ HeadsStay
  BY <1>1, <1>2, <1>3, <1>4, <1>5 DEF RecInv, TypeOK, AgentsSound, Carried, HeadsStay
<1>8. PostsSound'
  <2> SUFFICES ASSUME NEW n \in wire' PROVE PostSound(n)'
    BY DEF PostsSound
  <2>1. CASE n = m
    BY <1>3, <1>5, <2>1 DEF PostSound
  <2>2. CASE n \in wire
    <3>1. n.session \in SessionId /\ PostSound(n)
      BY <2>2 DEF RecInv, TypeOK, Post, PostsSound
    <3>2. QED BY <1>1, <1>3, <1>5, <3>1 DEF PostSound
  <2>3. QED BY <1>2, <2>1, <2>2
<1>9. /\ UNCHANGED <<storage, manager, starting, edits, history, req>> /\ wire' \subseteq Post
  BY <1>2, <1>6 DEF PostHead, RecInv, TypeOK
<1>10. QED BY <1>7, <1>8, <1>9, SameRequests, OutsideKeeps

LEMMA GiveUpKeeps ==
  ASSUME RecInv, NEW i \in SessionId, GiveUp(i)
  PROVE  RecInv'
<1> DEFINE m == [session |-> i, sequence |-> agent[i].head, late |-> FALSE]
           l == [session |-> i, sequence |-> agent[i].head, late |-> TRUE]
           b == Posted(agent[i], FALSE)
<1>1. agent[i] \in Agent /\ AgentSound(agent[i]) /\ agent[i].pc = "wait"
  BY DEF RecInv, TypeOK, AgentsSound, GiveUp
<1>2. agent' = [agent EXCEPT ![i] = b] /\ wire' = (wire \ {m}) \cup {l}
  BY DEF GiveUp
<1>3. /\ b \in Agent /\ AgentSound(b) /\ b.pc \in {"send", "look", "exited"}
      /\ b.head = agent[i].head /\ b.project = agent[i].project /\ b.parent = agent[i].parent
  BY <1>1, PostedAgent
<1>4. agent'[i] = b /\ \A j \in SessionId \ {i} : agent'[j] = agent[j]
  BY <1>2 DEF RecInv, TypeOK
<1>5. l \in Post
  <2>1. agent[i].head \in Segment
    BY <1>1, RecordingAssumption DEF AgentSound, Agent, Segment
  <2>2. QED BY <2>1 DEF Post
<1>6. agent' \in [SessionId -> Agent] /\ AgentsSound' /\ Carried /\ HeadsStay
  BY <1>1, <1>2, <1>3, <1>4 DEF RecInv, TypeOK, AgentsSound, Carried, HeadsStay
<1>7. PostsSound'
  <2> SUFFICES ASSUME NEW n \in wire' PROVE PostSound(n)'
    BY DEF PostsSound
  <2>1. CASE n = l
    BY <1>3, <1>4, <2>1 DEF PostSound
  <2>2. CASE n \in wire \ {m}
    <3>1. n \in Post /\ n.session \in SessionId /\ PostSound(n)
      BY <2>2 DEF RecInv, TypeOK, Post, PostsSound
    <3>2. n.session = i => n.late
      <4>1. ASSUME n.session = i, n.late = FALSE PROVE n = m
        BY <3>1, <4>1 DEF Post, PostSound
      <4>2. n.late \in BOOLEAN
        BY <3>1 DEF Post
      <4>3. QED BY <2>2, <4>1, <4>2
    <3>3. QED BY <1>3, <1>4, <3>1, <3>2 DEF PostSound
  <2>3. QED BY <1>2, <2>1, <2>2
<1>8. /\ UNCHANGED <<storage, manager, starting, edits, history, req>> /\ wire' \subseteq Post
  BY <1>2, <1>5 DEF GiveUp, RecInv, TypeOK
<1>9. QED BY <1>6, <1>7, <1>8, SameRequests, OutsideKeeps

LEMMA RefuseKeeps ==
  ASSUME RecInv, NEW m \in wire, Refuse(m)
  PROVE  RecInv'
<1>1. Answered(m, FALSE) /\ UNCHANGED <<storage, manager, req, starting, edits, history>>
  BY DEF Refuse
<1>2. /\ agent' \in [SessionId -> Agent] /\ wire' \subseteq wire
      /\ AgentsSound' /\ PostsSound' /\ Carried /\ HeadsStay
  BY <1>1, AnsweredEffect DEF RecInv, HeadsStay
<1>3. wire' \subseteq Post
  BY <1>2 DEF RecInv, TypeOK
<1>4. QED BY <1>1, <1>2, <1>3, SameRequests, OutsideKeeps

(* A request that goes on to its second section.                           *)
LEMMA RequestGoesOn ==
  ASSUME RecInv, NEW c \in Client,
         req' = [req EXCEPT ![c] = [req[c] EXCEPT !.pc = "finish", !.process = 0]]
  PROVE  /\ req' \in [Client -> Request] /\ RequestSound' /\ ClearsKept
         /\ \A d \in Client : /\ req'[d].project = req[d].project
                              /\ req'[d].rows \in {req[d].rows, view[req[d].project]}
<1> DEFINE r == [req[c] EXCEPT !.pc = "finish", !.process = 0]
<1>1. /\ r \in Request /\ r.pc = "finish" /\ r.kind = req[c].kind /\ r.shared = req[c].shared
      /\ r.rows = req[c].rows /\ r.project = req[c].project
  BY CopyTypes, RequestUpdate DEF RecInv
<1>2. /\ req' \in [Client -> Request] /\ req'[c] = r
      /\ \A d \in Client \ {c} : req'[d] = req[d]
  BY <1>1 DEF RecInv, TypeOK
<1>3. QED BY <1>1, <1>2 DEF RecInv, RequestSound, ClearsKept

LEMMA AgentLeftKeeps ==
  ASSUME RecInv, NEW c \in Client, AgentLeft(c)
  PROVE  RecInv'
<1>1. req' = [req EXCEPT ![c] = [req[c] EXCEPT !.pc = "finish", !.process = 0]]
  BY DEF AgentLeft, RecInv, TypeOK
<1>2. /\ agent' \in [SessionId -> Agent] /\ wire' \subseteq Post /\ AgentsSound' /\ PostsSound'
      /\ Carried /\ HeadsStay
  BY DEF AgentLeft, RecInv, TypeOK, AgentsSound, PostsSound, PostSound, Carried, HeadsStay
<1>3. UNCHANGED <<storage, manager, starting, edits, history>>
  BY DEF AgentLeft
<1>4. QED BY <1>1, <1>2, <1>3, RequestGoesOn, OutsideKeeps

LEMMA TerminateKeeps ==
  ASSUME RecInv, NEW c \in Client, Terminate(c)
  PROVE  RecInv'
<1> DEFINE i == req[c].process
<1>1. req' = [req EXCEPT ![c] = [req[c] EXCEPT !.pc = "finish", !.process = 0]]
  BY DEF Terminate, RecInv, TypeOK
<1>2. i \in SessionId
  <2>1. i \in 0 .. MaxSession /\ i # 0
    BY CopyTypes DEF RecInv, Terminate, Request
  <2>2. QED BY <2>1, RecordingAssumption DEF SessionId
<1>3. agent[i] \in Agent /\ AgentSound(agent[i]) /\ agent[i].head \in 1 .. agent[i].made + 1
  BY <1>2 DEF RecInv, TypeOK, AgentsSound, AgentSound
<1> DEFINE b == Ended(agent[i])
<1>4. /\ b \in Agent /\ AgentSound(b) /\ b.pc = "exited" /\ b.head = agent[i].head
      /\ b.project = agent[i].project /\ b.parent = agent[i].parent
  BY <1>3, EndedAgent
<1>5. /\ agent' = [agent EXCEPT ![i] = b]
      /\ wire' = {IF m.session = i THEN [m EXCEPT !.late = TRUE] ELSE m : m \in wire}
  BY DEF Terminate
<1>6. agent'[i] = b /\ \A j \in SessionId \ {i} : agent'[j] = agent[j]
  BY <1>2, <1>5 DEF RecInv, TypeOK
<1>7. agent' \in [SessionId -> Agent] /\ AgentsSound' /\ Carried /\ HeadsStay
  BY <1>2, <1>4, <1>5, <1>6 DEF RecInv, TypeOK, AgentsSound, Carried, HeadsStay
<1>8. ASSUME NEW n \in wire' PROVE n \in Post /\ PostSound(n)'
  <2>1. PICK m \in wire : n = IF m.session = i THEN [m EXCEPT !.late = TRUE] ELSE m
    BY <1>5
  <2>2. m \in Post /\ m.session \in SessionId /\ PostSound(m)
    BY DEF RecInv, TypeOK, Post, PostsSound
  <2>3. CASE m.session = i
    <3>1. n = [m EXCEPT !.late = TRUE]
      BY <2>1, <2>3
    <3>2. n \in Post /\ n.session = i /\ n.late = TRUE
      BY <2>2, <2>3, <3>1 DEF Post
    <3>3. QED BY <1>4, <1>6, <3>2 DEF PostSound
  <2>4. CASE m.session # i
    BY <1>6, <2>1, <2>2, <2>4 DEF PostSound
  <2>5. QED BY <2>3, <2>4
<1>9. wire' \subseteq Post /\ PostsSound' /\ UNCHANGED <<storage, manager, starting, edits, history>>
  BY <1>8 DEF PostsSound, Terminate
<1>10. QED BY <1>1, <1>7, <1>9, RequestGoesOn, OutsideKeeps
-----------------------------------------------------------------------------
(* The steps that begin or end a recording, commit or skip.                *)

(* The start of a recording that goes through.                             *)
Started(p) ==
    /\ Startable(p) /\ Unused # {}
    /\ starting' = starting \ {p}
    /\ session' = [NoSession EXCEPT !.id = NewSession, !.project = p, !.active = TRUE]
    /\ current' = NewSession /\ stopFiles' = Files /\ seen' = {}
    /\ agent' = [agent EXCEPT ![NewSession] = [Unborn EXCEPT !.pc = "look", !.parent = TRUE,
                                                            !.project = p]]
    /\ UNCHANGED <<storage, wire, req, edits, history>>

(* A recording begins: nothing tells of its number yet.                    *)
LEMMA StartedKeeps ==
  ASSUME RecInv, NEW p \in Asked, Started(p)
  PROVE  RecInv'
<1> DEFINE n == NewSession
           a == [Unborn EXCEPT !.pc = "look", !.parent = TRUE, !.project = p]
<1>0. TypeOK /\ RequestSound
  BY DEF RecInv
<1>1. p \in Project /\ p \in live
  BY RecordingAssumption DEF Startable, Started
<1>2. n \in SessionId /\ agent[n].pc = "unborn" /\ n # 0
  BY NewIsUnused DEF Started
<1>3. /\ session' = [NoSession EXCEPT !.id = n, !.project = p, !.active = TRUE]
      /\ current' = n /\ stopFiles' = Files /\ seen' = {}
      /\ agent' = [agent EXCEPT ![n] = a]
      /\ UNCHANGED <<live, db, root, viewed, view, wire, req, edits, skipped, taken>>
      /\ starting' = starting \ {p}
  BY DEF storage, history, Started
<1> HIDE DEF n
<1>4. /\ a \in Agent /\ AgentSound(a) /\ a.pc = "look" /\ a.head = 1 /\ a.project = p
  <2>1. 0 \in 0 .. MaxSegment /\ 0 \in 0 .. 3 /\ 1 \in Nat
    BY RecordingAssumption
  <2>2. /\ Unborn \in Agent /\ Unborn.made = 0 /\ Unborn.head = 1 /\ Unborn.tries = 0
        /\ Unborn.ending = FALSE
    BY <2>1, RecordingAssumption DEF Unborn, Agent
  <2>3. a \in Agent
    BY <1>1, <2>2 DEF Agent
  <2>4. /\ a.pc = "look" /\ a.made = 0 /\ a.head = 1 /\ a.tries = 0 /\ a.ending = FALSE
        /\ a.project = p
    BY <2>2 DEF Agent
  <2>5. AgentSound(a)
    BY <2>4 DEF AgentSound
  <2>6. QED BY <2>3, <2>4, <2>5
<1> HIDE DEF a
<1>5. agent'[n] = a /\ \A i \in SessionId \ {n} : agent'[i] = agent[i]
  BY <1>2, <1>3 DEF RecInv, TypeOK
<1>6. /\ session' \in Session /\ session'.id = n /\ session'.project = p
      /\ session'.active = TRUE /\ session'.count = 0
  <2>1. n \in 0 .. MaxSession /\ 0 \in Nat
    BY <1>2, RecordingAssumption DEF SessionId
  <2>2. session' = [id |-> n, project |-> p, active |-> TRUE, paused |-> FALSE, ended |-> FALSE,
                    count |-> 0]
    BY <1>3 DEF NoSession
  <2>3. session' \in Session
    BY <1>1, <2>1, <2>2 DEF Session
  <2>4. QED BY <2>2, <2>3
<1>8. RequestSound'
  BY <1>0, <1>3 DEF RequestSound
<1>9. TypeOK'
  <2>1. current' \in 0 .. MaxSession /\ stopFiles' \subseteq SessionId
    BY <1>0, <1>2, <1>3, KnownSession, RecordingAssumption DEF SessionId
  <2>2. agent' \in [SessionId -> Agent]
    BY <1>0, <1>2, <1>3, <1>4 DEF TypeOK
  <2>3. QED BY <1>0, <1>3, <1>6, <2>1, <2>2 DEF TypeOK
<1>10. CopiesCome
  BY <1>0, <1>3, CopiesComeFrom
<1>11. Carried
  BY <1>2, <1>5 DEF Carried
<1>12. AgentsSound'
  BY <1>4, <1>5 DEF RecInv, AgentsSound
<1>13. PostsSound'
  <2> SUFFICES ASSUME NEW m \in wire PROVE PostSound(m)'
    BY <1>3 DEF PostsSound
  <2>1. m.session \in SessionId /\ PostSound(m)
    BY <1>0 DEF RecInv, TypeOK, Post, PostsSound
  <2>2. QED BY <1>2, <1>5, <2>1 DEF PostSound
<1>14. SessionSound'
  <2>1. agent'[session'.id].pc # "unborn" /\ agent'[session'.id].project = p
    BY <1>4, <1>5, <1>6
  <2>2. QED BY <1>1, <1>2, <1>3, <1>6, <2>1 DEF SessionSound
<1>15. CopiesFit'
  BY <1>3, <1>9, <1>10, FitKeeps
<1>16. Homes'
  BY <1>3, <1>9, <1>10, <1>11, HomesKeep
<1>17. SkippedSeen'
  <2>1. ASSUME NEW e \in skipped \cup taken
        PROVE  agent'[e[1]].pc # "unborn" /\ e[1] # n
    <3>1. e[1] \in SessionId /\ agent[e[1]].pc # "unborn"
      BY <1>0 DEF RecInv, TypeOK, SkippedSeen, Recorded
    <3>2. QED BY <1>2, <1>5, <3>1
  <2>2. QED BY <1>3, <2>1 DEF SkippedSeen
<1>18. LeftOutStaysOut'
  BY <1>3 DEF RecInv, LeftOutStaysOut, Stored
<1>19. SessionKept'
  <2>1. \A r \in Rows : AtHome(r, p) => Of(r, n) = {}
    BY <1>2 DEF AtHome, Of
  <2>2. db[p] \in Rows /\ Of(db[p], n) = {}
    BY <1>0, <1>1, <2>1, CopyTypes DEF RecInv, Homes
  <2>3. \A r \in Rows : CopyOf(r, p)' => Of(r, n) = {}
    <3>1. Of(Empty, n) = {}
      BY EmptyRows DEF Of
    <3>2. \A r \in Rows : CopyOf(r, p) => Of(r, n) = {}
      BY <1>1, <2>1 DEF RecInv, Homes
    <3>3. QED BY <1>1, <1>3, <1>10, <2>2, <3>1, <3>2 DEF CopiesCome
  <2>4. 0 <= Cardinality(Tallied(db[p], n, taken, {}))
    <3>1. taken \in SUBSET Recorded
      BY <1>0 DEF TypeOK
    <3>2. Cardinality(Tallied(db[p], n, taken, {})) \in Nat
      BY <2>2, <3>1, EverFinite
    <3>3. QED BY <3>2
  <2>5. \A r \in Rows : CopyOf(r, session.project)' => Of(r, n) = {}
    BY <1>6, <2>3 DEF CopyOf
  <2>6. /\ session'.id = n /\ session'.project = p /\ session'.count = 0 /\ seen' = {}
        /\ db' = db /\ taken' = taken
    BY <1>3, <1>6
  <2> SUFFICES /\ \A r \in Rows : CopyOf(r, session.project)' =>
                     Of(r, n) \subseteq Ever(db[p], n, taken)
               /\ Of(db[p], n) = {}
               /\ 0 <= Cardinality(Tallied(db[p], n, taken, {}))
    BY <2>6 DEF SessionKept, Of, Ever, Tallied
  <2>7. QED BY <2>2, <2>4, <2>5
<1>20. AcknowledgedIsKept'
  <2>1. agent'[session'.id].head = 1
    BY <1>4, <1>5, <1>6
  <2>2. 1 .. agent'[session'.id].head - 1 = {}
    BY <2>1
  <2>3. QED BY <2>2 DEF AcknowledgedIsKept
<1>21. AuditedOnce'
  BY <1>3 DEF RecInv, AuditedOnce
<1>22. QED
  BY <1>8, <1>9, <1>12, <1>13, <1>14, <1>15, <1>16, <1>17, <1>18, <1>19, <1>20, <1>21 DEF RecInv

LEMMA StartKeeps ==
  ASSUME RecInv, NEW p \in Asked, Start(p)
  PROVE  RecInv'
<1>1. CASE Startable(p)
  BY <1>1, StartedKeeps DEF Start, Started
<1>2. CASE ~Startable(p)
  BY <1>2, StartRefusedKeeps DEF Start
<1>3. QED BY <1>1, <1>2

(* A post the API accepts is of the session it holds.                      *)
LEMMA AcceptedPost ==
  ASSUME RecInv, NEW m \in wire, Authorized(m)
  PROVE  /\ m.session \in SessionId /\ m.sequence \in Segment /\ m.session = session.id
         /\ current = session.id /\ session.active
         /\ agent[m.session].pc # "unborn" /\ agent[m.session].project = session.project
         /\ session.project \in live /\ session.project \in Project
         /\ <<m.session, m.sequence>> \in Recorded
<1>1. m \in Post
  BY DEF RecInv, TypeOK
<1>2. /\ m.session \in SessionId /\ m.sequence \in Segment
  BY <1>1 DEF Post
<1>3. m.session # 0
  BY <1>2, RecordingAssumption DEF SessionId
<1>4. QED
  BY <1>2, <1>3, CopyTypes DEF RecInv, Authorized, SessionSound, PostsSound, PostSound, Recorded

(* The copy an event goes through, and what is made of copies by a step    *)
(* that writes nothing through it.                                         *)
LEMMA CopyEffect ==
  ASSUME TypeOK, NEW p \in Project
  PROVE  /\ Copy(p) \in Rows /\ (CopyOf(Copy(p), p) \/ Copy(p) = db[p])
         /\ Copy(p) \in {view[p], db[p]} \/ (p = Legacy /\ Copy(p) = root)
         /\ \A rows \in Rows :
               Through(p, rows) =>
                  /\ viewed' \subseteq Project /\ view' \in [Project -> Rows] /\ root' \in Rows
                  /\ \A q \in Project : view'[q] = view[q] \/ (q = p /\ p # Legacy /\ view'[q] = rows)
                  /\ root' = root \/ (p = Legacy /\ root' = rows)
<1>1. CASE p = Legacy
  BY <1>1 DEF TypeOK, Copy, Through, CopyOf
<1>2. CASE p # Legacy
  BY <1>2, CopyTypes DEF TypeOK, Copy, Through, View, CopyOf
<1>3. QED BY <1>1, <1>2

(* A segment is acknowledged and left out, in a pause or by the settings.  *)
LEMMA SkipKeeps ==
  ASSUME RecInv, NEW m \in wire, Skip(m) \/ LeaveOut(m)
  PROVE  RecInv'
<1> DEFINE e == <<m.session, m.sequence>>
<1>0. TypeOK
  BY DEF RecInv
<1>1. /\ m.session \in SessionId /\ m.sequence \in Segment /\ m.session = session.id
      /\ current = session.id /\ session.active /\ agent[m.session].pc # "unborn"
      /\ e \in Recorded /\ session.project \in Project
  BY AcceptedPost DEF Skip, LeaveOut, Acceptable
<1>2. /\ seen' = seen \cup {m.sequence}
      /\ skipped' = skipped \cup ({e} \ Stored(m.session)) /\ taken' = taken
      /\ Answered(m, TRUE)
      /\ UNCHANGED <<live, db, session, current, stopFiles, req, starting, edits>>
  BY DEF Skip, LeaveOut, storage, Consumed, LeftOut
<1>2a. /\ viewed' \subseteq Project /\ view' \in [Project -> Rows] /\ root' \in Rows
       /\ \A q \in Project : view'[q] \in {view[q], db[q]}
       /\ root' = root \/ root' = db[Legacy]
  <2>1. CASE Skip(m)
    BY <1>0, <2>1 DEF Skip, storage, TypeOK
  <2>2. CASE LeaveOut(m)
    <3>1. Through(session.project, Copy(session.project))
      BY <2>2 DEF LeaveOut, BoundTo
    <3>2. Copy(session.project) \in Rows
      BY <1>0, <1>1, CopyEffect
    <3>3. session.project # Legacy => Copy(session.project) \in {view[session.project], db[session.project]}
      BY DEF Copy, View
    <3>4. session.project = Legacy => Copy(session.project) = root
      BY DEF Copy
    <3>5. QED BY <1>0, <1>1, <3>1, <3>2, <3>3, <3>4, CopyEffect
  <2>3. QED BY <2>1, <2>2
<1>3. /\ agent' \in [SessionId -> Agent] /\ wire' \subseteq wire
      /\ AgentsSound' /\ PostsSound' /\ Carried
      /\ \A i \in SessionId :
            \/ agent'[i].head = agent[i].head
            \/ /\ i = m.session /\ m.sequence = agent[i].head
               /\ agent'[i].head = agent[i].head + 1
  BY <1>2, AnsweredEffect DEF RecInv
<1>4. TypeOK'
  BY <1>0, <1>1, <1>2, <1>2a, <1>3 DEF TypeOK
<1>5. CopiesCome
  BY <1>0, <1>2, <1>2a, CopiesComeFrom
<1>6. RequestSound'
  BY <1>2 DEF RecInv, RequestSound
<1>7. SessionSound'
  BY <1>1, <1>2, <1>3 DEF RecInv, SessionSound, Carried
<1>8. CopiesFit' /\ Homes'
  BY <1>2, <1>3, <1>4, <1>5, FitKeeps, HomesKeep
<1>9. SkippedSeen'
  <2>1. \A x \in skipped \cup taken : x[1] \in SessionId
    BY <1>0 DEF TypeOK, Recorded
  <2>2. e[1] = m.session /\ e[2] = m.sequence
    OBVIOUS
  <2>3. ASSUME NEW x \in skipped' \cup taken'
        PROVE  agent'[x[1]].pc # "unborn"
    <3>1. CASE x \in skipped \cup taken
      BY <1>3, <2>1, <3>1 DEF RecInv, SkippedSeen, Carried
    <3>2. CASE x = e
      BY <1>1, <1>3, <2>2, <3>2 DEF Carried
    <3>3. QED BY <1>2, <3>1, <3>2
  <2>4. ASSUME NEW x \in skipped', session.active, current = x[1]
        PROVE  x[2] \in seen'
    <3>1. CASE x \in skipped
      BY <1>2, <2>4, <3>1 DEF RecInv, SkippedSeen
    <3>2. CASE x = e
      BY <1>2, <2>2, <3>2
    <3>3. QED BY <1>2, <3>1, <3>2
  <2>5. QED BY <1>2, <2>3, <2>4 DEF SkippedSeen
<1>10. LeftOutStaysOut'
  <2>1. \A i \in SessionId : e \in Stored(i) => i = m.session
    BY DEF Stored
  <2>2. \A i \in SessionId : Stored(i)' = Stored(i)
    BY <1>2 DEF Stored
  <2>3. QED BY <1>2, <2>1, <2>2 DEF RecInv, LeftOutStaysOut
<1>11. SessionKept'
  <2>1. /\ \A c \in Client :
              req'[c].pc = "clear" /\ req'[c].project = session.project =>
                 \/ Of(db'[session.project], session.id) = {}
                 \/ req'[c].rows.rev # db'[session.project].rev
        /\ session.count <= Cardinality(Tallied(db[session.project], session.id, taken, seen))
    BY <1>1, <1>2 DEF RecInv, SessionKept
  <2>2. Cardinality(Tallied(db[session.project], session.id, taken, seen))
          <= Cardinality(Tallied(db[session.project], session.id, taken, seen'))
    BY <1>0, <1>1, <1>2, MoreTallied, CopyTypes DEF TypeOK
  <2>3. session.count <= Cardinality(Tallied(db[session.project], session.id, taken, seen'))
    <3>1. /\ Cardinality(Tallied(db[session.project], session.id, taken, seen)) \in Nat
          /\ Cardinality(Tallied(db[session.project], session.id, taken, seen')) \in Nat
      BY <1>0, <1>1, EverFinite, CopyTypes DEF TypeOK
    <3>2. session.count \in Nat
      BY <1>0, CopyTypes
    <3>3. QED BY <2>1, <2>2, <3>1, <3>2
  <2>4. QED BY <1>1, <1>2, <1>4, <1>5, <2>1, <2>3, KeptKeeps
<1>12. AcknowledgedIsKept'
  <2>1. Stored(session.id)' = Stored(session.id)
    BY <1>2 DEF Stored
  <2>2. agent[session.id].head \in Nat
    BY <1>0, <1>1 DEF TypeOK, Agent
  <2>3. ASSUME NEW k \in 1 .. agent'[session.id].head - 1
        PROVE  <<session.id, k>> \in Stored(session.id) \cup skipped' \cup taken'
    <3>1. k \in 1 .. agent[session.id].head - 1 \/ k = m.sequence
      BY <1>1, <1>3, <2>2
    <3>2. QED BY <1>1, <1>2, <3>1 DEF RecInv, AcknowledgedIsKept
  <2>4. QED BY <1>2, <2>1, <2>3 DEF AcknowledgedIsKept
<1>13. AuditedOnce'
  BY <1>2 DEF RecInv, AuditedOnce
<1>14. QED BY <1>3, <1>4, <1>6, <1>7, <1>8, <1>9, <1>10, <1>11, <1>12, <1>13 DEF RecInv

(* The rows after an edit: fewer events, those it removed remembered.      *)
LEMMA EditEffect ==
  ASSUME TypeOK, NEW p \in Asked, Edit(p)
  PROVE  /\ db' \in [Project -> Rows] /\ db'[p].rev = db[p].rev + 1
         /\ db'[p].events \subseteq db[p].events
         /\ db'[p].audit = db[p].audit
         /\ \A q \in Project : q # p => db'[q] = db[q]
         /\ taken' = taken \cup (db[p].events \ db'[p].events)
<1>1. p \in Project /\ db[p] \in Rows
  BY RecordingAssumption, CopyTypes
<1>2. PICK kept \in SUBSET db[p].events, excludes \in BOOLEAN :
         /\ db' = [db EXCEPT ![p] = Rewritten(db[p], kept, excludes)]
         /\ taken' = taken \cup (db[p].events \ kept)
  BY DEF Edit
<1> DEFINE rows == Rewritten(db[p], kept, excludes)
<1>3. /\ rows \in Rows /\ rows.rev = db[p].rev + 1 /\ rows.events = kept
      /\ rows.audit = db[p].audit
  BY <1>1, Edited
<1> HIDE DEF rows
<1>5. db' \in [Project -> Rows] /\ db'[p] = rows /\ \A q \in Project : q # p => db'[q] = db[q]
  <2>1. db' = [db EXCEPT ![p] = rows]
    BY <1>2 DEF rows
  <2>2. QED BY <1>1, <1>3, <2>1 DEF TypeOK
<1>6. QED BY <1>2, <1>3, <1>5

(* A write of somebody else: every event stays, or is remembered as taken. *)
LEMMA EditKeeps ==
  ASSUME RecInv, NEW p \in Asked, Edit(p)
  PROVE  RecInv'
<1>0. TypeOK /\ RequestSound
  BY DEF RecInv
<1>1. p \in Project /\ db[p] \in Rows /\ p \in live
  BY <1>0, RecordingAssumption, CopyTypes DEF Edit
<1>3. /\ req' = Detached(p)
      /\ UNCHANGED <<live, root, session, current, seen, stopFiles, agent, wire, starting, skipped>>
  BY <1>0 DEF Edit, TypeOK, manager
<1>4. /\ db' \in [Project -> Rows] /\ db'[p].rev = db[p].rev + 1
      /\ db'[p].events \subseteq db[p].events
      /\ \A q \in Project : q # p => db'[q] = db[q]
      /\ taken' = taken \cup (db[p].events \ db'[p].events)
  BY <1>0, EditEffect
<1>5. /\ \A q \in Project : db'[q].events \subseteq db[q].events /\ db'[q].audit = db[q].audit
      /\ db'[p].rev > db[p].rev /\ db[p].rev \in Nat
  <2>1. db[p].rev \in Nat
    BY <1>1, RowsFields
  <2>2. db'[p].audit = db[p].audit
    BY <1>0, EditEffect
  <2>3. QED BY <1>1, <1>4, <2>1, <2>2
<1>6. /\ viewed' \subseteq Project /\ view' \in [Project -> Rows]
      /\ \A q \in Project : view'[q] \in {view[q], db[q], Empty}
  <2>1. CASE Drop(p)
    BY <1>0, <1>1, <2>1, DropEffect
  <2>2. CASE viewed' = viewed \cup {p} /\ view' = [view EXCEPT ![p] = db[p]]
    BY <1>0, <1>1, <2>2 DEF TypeOK
  <2>3. QED BY <2>1, <2>2 DEF Edit
<1>7. /\ req' \in [Client -> Request] /\ RequestSound'
      /\ \A c \in Client : /\ req'[c].project = req[c].project
                           /\ req'[c].rows \in {req[c].rows, view[req[c].project]}
                           /\ req'[c].pc = req[c].pc
                           /\ req[c].pc = "clear" => req'[c].rows = req[c].rows
  BY <1>0, <1>1, <1>3, DetachedEffect DEF RequestSound
<1>8. TypeOK'
  <2>1. edits' \in 0 .. MaxEdits
    BY <1>0, RecordingAssumption DEF Edit, TypeOK
  <2>2. taken' \subseteq Recorded
    BY <1>0, <1>1, <1>4, RowsFields DEF TypeOK
  <2>3. QED BY <1>0, <1>3, <1>4, <1>6, <1>7, <2>1, <2>2 DEF TypeOK
<1>9. CopiesCome
  BY <1>0, <1>3, <1>6, <1>7, CopiesComeFrom
<1>10. AgentsSound' /\ PostsSound' /\ SessionSound' /\ Carried
  BY <1>3 DEF RecInv, AgentsSound, PostsSound, PostSound, SessionSound, Carried
<1>10a. SkippedSeen'
  <2>1. \A x \in db[p].events : agent[x[1]].pc # "unborn"
    BY <1>1 DEF RecInv, Homes, AtHome
  <2>2. QED BY <1>3, <1>4, <2>1 DEF RecInv, SkippedSeen
<1>11. CopiesFit'
  BY <1>3, <1>4, <1>5, <1>8, <1>9, FitKeeps
<1>12. Homes'
  <2>1. \A q \in Project : HomeAfter(db[q], q)
    BY <1>0, <1>10, CopyTypes, HomeStays DEF RecInv, Homes
  <2>2. \A q \in Project : HomeAfter(db'[q], q)
    BY <1>5, <2>1 DEF HomeAfter
  <2>3. QED BY <1>8, <1>9, <1>10, <2>2, HomesKeep
<1>13. \A i : Stored(i) \subseteq Stored(i)' \cup taken'
  BY <1>1, <1>4 DEF Stored
<1>14. LeftOutStaysOut' /\ AuditedOnce'
  BY <1>3, <1>5 DEF RecInv, LeftOutStaysOut, AuditedOnce, Stored
<1>14a. AcknowledgedIsKept'
  BY <1>3, <1>4, <1>13 DEF RecInv, AcknowledgedIsKept
<1>15. SessionKept'
  <2>1. session.project \in Project
    BY <1>0, CopyTypes
  <2>2. /\ Ever(db[session.project], session.id, taken)
              \subseteq Ever(db'[session.project], session.id, taken')
        /\ Of(db'[session.project], session.id) \subseteq Of(db[session.project], session.id)
    BY <1>4, <1>5, <2>1 DEF Ever, Of
  <2>3. ASSUME session.active, NEW c \in Client,
               req'[c].pc = "clear", req'[c].project = session.project
        PROVE  \/ Of(db'[session.project], session.id) = {}
               \/ req'[c].rows.rev # db'[session.project].rev
    <3>1. /\ req[c].pc = "clear" /\ req[c].project = session.project /\ req'[c].rows = req[c].rows
          /\ req[c].rows \in Rows /\ CopyOf(req[c].rows, session.project)
      BY <1>0, <1>7, <2>3, CopyTypes DEF CopyOf
    <3>2. session.project # p => db'[session.project] = db[session.project]
      BY <1>4, <2>1
    <3>3. session.project = p => req[c].rows.rev <= db[p].rev /\ req[c].rows.rev \in Nat
      BY <1>1, <3>1, RowsFields DEF RecInv, CopiesFit, Fits
    <3>4. QED BY <1>4, <1>5, <2>2, <2>3, <3>1, <3>2, <3>3 DEF RecInv, SessionKept
  <2>4. ASSUME session.active
        PROVE  session.count
                 <= Cardinality(Tallied(db'[session.project], session.id, taken', seen'))
    <3>1. session.count <= Cardinality(Tallied(db[session.project], session.id, taken, seen))
      BY <2>4 DEF RecInv, SessionKept
    <3>2. db[session.project] \in Rows /\ db'[session.project] \in Rows
      BY <1>0, <1>8, <2>1, CopyTypes DEF TypeOK
    <3>3. taken \in SUBSET Recorded /\ taken' \in SUBSET Recorded /\ session.count \in Nat
      BY <1>0, <1>8, CopyTypes DEF TypeOK
    <3>4. Cardinality(Tallied(db[session.project], session.id, taken, seen))
            <= Cardinality(Tallied(db'[session.project], session.id, taken', seen'))
      BY <1>3, <2>2, <3>2, <3>3, MoreTallied
    <3>5. /\ Cardinality(Tallied(db[session.project], session.id, taken, seen)) \in Nat
          /\ Cardinality(Tallied(db'[session.project], session.id, taken', seen')) \in Nat
      BY <3>2, <3>3, EverFinite
    <3>6. QED BY <3>1, <3>3, <3>4, <3>5
  <2>5. QED BY <1>3, <1>8, <1>9, <2>2, <2>3, <2>4, KeptKeeps
<1>16. QED BY <1>7, <1>8, <1>10, <1>10a, <1>11, <1>12, <1>14, <1>14a, <1>15 DEF RecInv

(* A project goes with its rows; nobody records it.                        *)
LEMMA DeleteProjectKeeps ==
  ASSUME RecInv, NEW p \in Asked, DeleteProject(p)
  PROVE  RecInv'
<1>0. TypeOK /\ RequestSound
  BY DEF RecInv
<1>1. p \in Project
  BY RecordingAssumption
<1>2. /\ skipped' = skipped /\ taken' = taken
      /\ live' = live \ {p} /\ db' = [db EXCEPT ![p] = Empty]
      /\ session' = Known /\ current' = Process /\ stopFiles' = Files
      /\ Drop(p) /\ req' = Detached(p)
      /\ UNCHANGED <<root, seen, agent, wire, starting, edits>>
  BY DEF DeleteProject, RefreshAs, history
<1>3. SameSession /\ ~(session.active /\ session.project = p)
  <2>1. SameSession
    BY <1>0, <1>2, KnownSession DEF SameSession
  <2>2. Known.active = session.active /\ Known.project = session.project
    BY <1>0, KnownSession
  <2>3. QED BY <2>1, <2>2 DEF DeleteProject, Recording
<1>4. /\ db' \in [Project -> Rows] /\ db'[p] = Empty
      /\ \A q \in Project : q # p => db'[q] = db[q]
  BY <1>0, <1>1, <1>2, EmptyRows DEF TypeOK
<1>5. /\ viewed' \subseteq Project /\ view' \in [Project -> Rows]
      /\ \A q \in Project : view'[q] \in {view[q], Empty}
  BY <1>0, <1>1, <1>2, DropEffect
<1>6. /\ req' \in [Client -> Request] /\ RequestSound'
      /\ \A c \in Client : /\ req'[c].project = req[c].project
                           /\ req'[c].rows \in {req[c].rows, view[req[c].project]}
                           /\ req'[c].pc = req[c].pc
                           /\ req[c].pc = "clear" => req'[c].rows = req[c].rows
  BY <1>0, <1>1, <1>2, DetachedEffect DEF RequestSound
<1>7. TypeOK'
  <2>1. session' \in Session /\ current' \in 0 .. MaxSession /\ stopFiles' \subseteq SessionId
    BY <1>0, <1>2, KnownSession
  <2>2. QED BY <1>0, <1>2, <1>4, <1>5, <1>6, <2>1 DEF TypeOK
<1>8. CopiesCome
  BY <1>0, <1>2, <1>5, <1>6, CopiesComeFrom
<1>9. AgentsSound' /\ PostsSound' /\ Carried
  BY <1>2 DEF RecInv, AgentsSound, PostsSound, PostSound, Carried
<1>10. SessionSound'
  BY <1>2, <1>3 DEF RecInv, SessionSound, SameSession
<1>11. CopiesFit'
  BY <1>2, <1>4, <1>7, <1>8, FitKeeps
<1>12. Homes'
  <2>1. HomeAfter(Empty, p)
    BY EmptyRows DEF HomeAfter
  <2>2. QED BY <1>4, <1>7, <1>8, <1>9, <2>1, HomesKeep
<1>13. SkippedSeen'
  <2>1. \A e \in skipped \cup taken : e[1] # 0
    BY <1>0, RecordingAssumption DEF TypeOK, Recorded, SessionId
  <2>2. QED BY <1>2, <1>3, <2>1 DEF RecInv, SkippedSeen, SameSession
<1>14. LeftOutStaysOut'
  <2>1. \A q \in Project : db'[q].events \subseteq db[q].events
    BY <1>4, EmptyRows
  <2>2. QED BY <1>2, <2>1 DEF RecInv, LeftOutStaysOut, Stored
<1>15. SessionKept'
  <2>1. session.active => session.project # p /\ db'[session.project] = db[session.project]
    BY <1>0, <1>3, <1>4, CopyTypes
  <2>2. session.active =>
           /\ \A c \in Client :
                 req'[c].pc = "clear" /\ req'[c].project = session.project =>
                    \/ Of(db'[session.project], session.id) = {}
                    \/ req'[c].rows.rev # db'[session.project].rev
           /\ session.count <= Cardinality(Tallied(db'[session.project], session.id, taken, seen))
    BY <1>6, <2>1 DEF RecInv, SessionKept
  <2>3. session' = Known /\ seen' = seen /\ taken' = taken
    BY <1>2
  <2>4. QED BY <1>3, <1>7, <1>8, <2>1, <2>2, <2>3, KeptKeeps DEF SameSession
<1>16. AcknowledgedIsKept'
  <2>1. ASSUME session.active, NEW x \in Stored(session.id)
        PROVE  \E q \in Project : x \in db'[q].events
    <3>1. session.id # 0
      BY <2>1 DEF RecInv, SessionSound
    <3>2. session.id \in SessionId /\ agent[session.id].project = session.project
      BY <1>0, <3>1, CopyTypes, RecordingAssumption DEF RecInv, SessionSound, SessionId
    <3>3. \A q \in Project : q # session.project => \A e \in db[q].events : e[1] # session.id
      BY <3>2 DEF RecInv, Homes, AtHome
    <3>4. session.project # p
      BY <1>3, <2>1
    <3>5. PICK q \in Project : x \in db[q].events /\ x[1] = session.id
      BY <2>1 DEF Stored
    <3>6. QED BY <1>4, <3>3, <3>4, <3>5
  <2>2. session.active => Stored(session.id) \subseteq Stored(session.id)'
    BY <1>3, <2>1 DEF Stored, SameSession
  <2>3. QED BY <1>2, <1>3, <2>2 DEF RecInv, AcknowledgedIsKept, SameSession
<1>17. AuditedOnce'
  BY <1>4, EmptyRows DEF RecInv, AuditedOnce
<1>18. QED BY <1>6, <1>7, <1>9, <1>10, <1>11, <1>12, <1>13, <1>14, <1>15, <1>16, <1>17 DEF RecInv

(* A new API process knows nothing of the recording.                       *)
LEMMA CrashKeeps ==
  ASSUME RecInv, Crash
  PROVE  RecInv'
<1>0. TypeOK
  BY DEF RecInv
<1> DEFINE a(i) == IF agent[i].pc = "wait" THEN Posted(agent[i], FALSE) ELSE agent[i]
           b(i) == [a(i) EXCEPT !.parent = FALSE]
<1>1. /\ root' = db[Legacy] /\ viewed' = {} /\ view' = [p \in Project |-> Empty]
      /\ session' = NoSession /\ current' = 0 /\ seen' = {} /\ wire' = {}
      /\ req' = [c \in Client |-> Idle] /\ agent' = [i \in SessionId |-> b(i)]
      /\ starting' = {} /\ skipped' = skipped /\ taken' = taken
      /\ UNCHANGED <<live, db, stopFiles, edits>>
  BY DEF Crash, history
<1>2. ASSUME NEW i \in SessionId
      PROVE  /\ b(i) \in Agent /\ AgentSound(b(i)) /\ ~b(i).parent
             /\ b(i).project = agent[i].project
             /\ agent[i].pc # "unborn" => b(i).pc # "unborn"
             /\ agent[i].pc = "exited" => b(i).pc = "exited"
  <2>1. agent[i] \in Agent /\ AgentSound(agent[i])
    BY DEF RecInv, TypeOK, AgentsSound
  <2>2. /\ a(i) \in Agent /\ AgentSound(a(i)) /\ a(i).project = agent[i].project
        /\ agent[i].pc # "unborn" => a(i).pc # "unborn"
        /\ agent[i].pc = "exited" => a(i).pc = "exited"
    BY <2>1, PostedAgent
  <2> DEFINE x == a(i)
             y == [x EXCEPT !.parent = FALSE]
  <2> HIDE DEF x
  <2>3. /\ y \in Agent /\ y.pc = x.pc /\ y.made = x.made /\ y.head = x.head /\ ~y.parent
        /\ y.ending = x.ending /\ y.tries = x.tries /\ y.project = x.project
    BY <2>2 DEF x, Agent
  <2> HIDE DEF y
  <2>4. AgentSound(x)
    BY <2>2 DEF x
  <2>5. AgentSound(y)
    BY <2>3, <2>4 DEF AgentSound
  <2>6. QED BY <2>2, <2>3, <2>5 DEF x, y
<1> HIDE DEF b
<1>3. agent' \in [SessionId -> Agent] /\ AgentsSound' /\ PostsSound' /\ Carried
  BY <1>1, <1>2 DEF AgentsSound, PostsSound, Carried
<1>4. /\ req' \in [Client -> Request] /\ RequestSound'
      /\ \A c \in Client : req'[c].rows = Empty /\ req'[c].pc = "idle"
  BY <1>1, IdleRequest DEF RequestSound
<1>5. session' \in Session /\ session'.id = 0 /\ ~session'.active /\ session'.count = 0
  BY <1>1, RecordingAssumption DEF NoSession, Session
<1>6. TypeOK'
  <2>1. view' \in [Project -> Rows] /\ root' \in Rows
    BY <1>0, <1>1, EmptyRows, CopyTypes
  <2>2. QED BY <1>0, <1>1, <1>3, <1>4, <1>5, <2>1, RecordingAssumption DEF TypeOK
<1>7. CopiesCome
  <2>1. \A q \in Project : view'[q] = Empty
    BY <1>1
  <2>2. QED BY <1>0, <1>1, <1>4, <2>1, CopiesComeFrom
<1>8. SessionSound' /\ SessionKept' /\ AcknowledgedIsKept'
  BY <1>1, <1>5 DEF SessionSound, SessionKept, AcknowledgedIsKept
<1>9. CopiesFit' /\ Homes'
  BY <1>1, <1>3, <1>6, <1>7, FitKeeps, HomesKeep
<1>10. SkippedSeen'
  <2>1. \A e \in skipped \cup taken : e[1] \in SessionId
    BY <1>0 DEF TypeOK, Recorded
  <2>2. QED BY <1>1, <1>3, <1>5, <2>1 DEF RecInv, SkippedSeen, Carried
<1>11. LeftOutStaysOut' /\ AuditedOnce'
  BY <1>1 DEF RecInv, LeftOutStaysOut, AuditedOnce, Stored
<1>12. QED BY <1>3, <1>4, <1>6, <1>8, <1>9, <1>10, <1>11 DEF RecInv

(* A deletion wipes its project, or is refused because somebody wrote to   *)
(* it in the meantime; it finds no event of the recording that is active.  *)
LEMMA ClearEffect ==
  ASSUME RecInv, NEW c \in Client, Clear(c)
  PROVE  /\ db' \in [Project -> Rows]
         /\ \/ db' = db
            \/ /\ req[c].rows = db[req[c].project]
               /\ db'[req[c].project].rev = db[req[c].project].rev + 1
               /\ db'[req[c].project].events = {} /\ db'[req[c].project].audit = <<>>
               /\ \A q \in Project : q # req[c].project => db'[q] = db[q]
         /\ session.active =>
               Of(db'[session.project], session.id) = Of(db[session.project], session.id)
<1> DEFINE p == req[c].project
           copy == req[c].rows
           rows == [Empty EXCEPT !.rev = req[c].rows.rev + 1, !.excludes = req[c].rows.excludes]
<1>0. TypeOK
  BY DEF RecInv
<1>1. /\ p \in Project /\ copy \in Rows /\ CopyOf(copy, p) /\ copy.rev \in Nat
      /\ req[c].pc = "clear"
  <2>1. p \in Project /\ copy \in Rows
    BY <1>0, CopyTypes
  <2>2. QED BY <2>1, RowsFields DEF CopyOf, Clear
<1>2. /\ rows \in Rows /\ rows.rev = copy.rev + 1 /\ rows.events = {} /\ rows.audit = <<>>
  <2>1. copy.excludes \in BOOLEAN
    BY <1>1 DEF Rows
  <2>2. PICK b \in BOOLEAN : b = copy.excludes
    BY <2>1
  <2>3. rows = [Empty EXCEPT !.rev = copy.rev + 1, !.excludes = b]
    BY <2>2
  <2> HIDE DEF rows, copy
  <2>4. QED BY <1>1, <2>3, Wiped
<1>3. \E outcome \in Outcomes(p, copy) : Commit(p, rows, outcome)
  BY DEF Clear
<1> HIDE DEF rows
<1>4. /\ \/ p \in live /\ copy = db[p] /\ db' = [db EXCEPT ![p] = rows]
         \/ db' = db
      /\ db' \in [Project -> Rows]
  BY <1>0, <1>1, <1>2, <1>3, CommitEffect DEF RecInv
<1>5. \/ db' = db
      \/ copy = db[p] /\ db'[p] = rows /\ \A q \in Project : q # p => db'[q] = db[q]
  BY <1>0, <1>1, <1>4 DEF TypeOK
<1>6. session.active => Of(db'[session.project], session.id) = Of(db[session.project], session.id)
  <2>1. session.project \in Project
    BY <1>0, CopyTypes
  <2>2. ASSUME session.active, session.project = p, copy = db[p]
        PROVE  Of(db[p], session.id) = {}
    BY <1>1, <2>2 DEF RecInv, SessionKept
  <2>3. Of(rows, session.id) = {}
    BY <1>2 DEF Of
  <2>4. QED BY <1>5, <2>1, <2>2, <2>3
<1>7. QED BY <1>2, <1>4, <1>5, <1>6

LEMMA ClearKeeps ==
  ASSUME RecInv, NEW c \in Client, Clear(c)
  PROVE  RecInv'
<1> DEFINE p == req[c].project
           copy == req[c].rows
<1>0. TypeOK
  BY DEF RecInv
<1>1. /\ req[c].pc = "clear" /\ req' = [req EXCEPT ![c] = Idle]
      /\ UNCHANGED <<live, root, viewed, view, session, current, seen, stopFiles>>
      /\ UNCHANGED <<agent, wire, starting, edits, skipped, taken>>
  BY DEF Clear, manager, history
<1>2. p \in Project /\ copy \in Rows /\ db[p].rev \in Nat
  <2>1. p \in Project /\ copy \in Rows /\ db[p] \in Rows
    BY <1>0, CopyTypes
  <2>2. QED BY <2>1, RowsFields
<1>3. /\ db' \in [Project -> Rows]
      /\ \/ db' = db
         \/ /\ copy = db[p] /\ db'[p].rev = db[p].rev + 1
            /\ db'[p].events = {} /\ db'[p].audit = <<>>
            /\ \A q \in Project : q # p => db'[q] = db[q]
      /\ session.active =>
            Of(db'[session.project], session.id) = Of(db[session.project], session.id)
  BY ClearEffect
<1>4. /\ req' \in [Client -> Request] /\ req'[c] = Idle
      /\ \A d \in Client \ {c} : req'[d] = req[d]
  BY <1>0, <1>1, IdleRequest DEF TypeOK
<1>5. TypeOK' /\ RequestSound'
  BY <1>0, <1>1, <1>3, <1>4, IdleRequest DEF RecInv, TypeOK, RequestSound
<1>6. CopiesCome
  <2>1. \A d \in Client :
           \/ /\ req'[d].project = req[d].project
              /\ req'[d].rows \in {req[d].rows, view[req[d].project]}
           \/ req'[d].rows \in {db[req'[d].project], Empty}
    BY <1>4, IdleRequest
  <2>2. QED BY <1>0, <1>1, <2>1, CopiesComeFrom
<1>7. AgentsSound' /\ PostsSound' /\ SessionSound' /\ SkippedSeen' /\ Carried
  BY <1>1 DEF RecInv, AgentsSound, PostsSound, PostSound, SessionSound, SkippedSeen, Carried
<1>8. CopiesFit'
  <2>1. \A q \in Project : db'[q] = db[q] \/ db'[q].rev > db[q].rev
    BY <1>2, <1>3
  <2>2. QED BY <1>1, <1>5, <1>6, <2>1, FitKeeps
<1>9. Homes'
  <2>1. \A q \in Project : db'[q] = db[q] \/ HomeAfter(db'[q], q)
    BY <1>3 DEF HomeAfter
  <2>2. QED BY <1>5, <1>6, <1>7, <2>1, HomesKeep
<1>10. LeftOutStaysOut'
  BY <1>1, <1>3 DEF RecInv, LeftOutStaysOut, Stored
<1>11. session.project \in Project
  BY <1>0, CopyTypes
<1>12. SessionKept'
  <2>1. ASSUME session.active, NEW d \in Client,
               req'[d].pc = "clear", req'[d].project = session.project
        PROVE  \/ Of(db'[session.project], session.id) = {}
               \/ req'[d].rows.rev # db'[session.project].rev
    <3>1. d # c /\ req[d] = req'[d]
      BY <1>4, <2>1, IdleRequest
    <3>2. \/ Of(db[session.project], session.id) = {}
          \/ req[d].rows.rev # db[session.project].rev
      BY <2>1, <3>1 DEF RecInv, SessionKept
    <3>3. CASE session.project = p /\ copy = db[p]
      BY <1>1, <1>3, <2>1, <3>3 DEF RecInv, SessionKept
    <3>4. CASE ~(session.project = p /\ copy = db[p])
      <4>1. db'[session.project] = db[session.project]
        BY <1>3, <1>11, <3>4
      <4>2. QED BY <3>1, <3>2, <4>1
    <3>5. QED BY <3>3, <3>4
  <2>2. session.active =>
           /\ Ever(db'[session.project], session.id, taken) = Ever(db[session.project], session.id, taken)
           /\ Tallied(db'[session.project], session.id, taken, seen)
                = Tallied(db[session.project], session.id, taken, seen)
    BY <1>3 DEF Of, Ever, Tallied
  <2>3. session.active =>
           session.count <= Cardinality(Tallied(db'[session.project], session.id, taken, seen))
    BY <2>2 DEF RecInv, SessionKept
  <2>4. QED BY <1>1, <1>5, <1>6, <2>1, <2>2, <2>3, KeptKeeps
<1>13. AcknowledgedIsKept'
  <2>1. ASSUME session.active, NEW x \in Stored(session.id)
        PROVE  \E q \in Project : x \in db'[q].events
    <3>1. session.id # 0
      BY <2>1 DEF RecInv, SessionSound
    <3>2. session.id \in SessionId /\ agent[session.id].project = session.project
      BY <1>0, <3>1, CopyTypes, RecordingAssumption DEF RecInv, SessionSound, SessionId
    <3>3. x \in Of(db[session.project], session.id)
      BY <1>0, <2>1, <3>2, StoredAtHome DEF RecInv, Homes
    <3>4. QED BY <1>3, <1>11, <2>1, <3>3 DEF Of
  <2>2. session.active => Stored(session.id) \subseteq Stored(session.id)'
    BY <1>1, <2>1 DEF Stored
  <2>3. QED BY <1>1, <2>2 DEF RecInv, AcknowledgedIsKept
<1>14. AuditedOnce'
  BY <1>3 DEF RecInv, AuditedOnce
<1>15. QED BY <1>5, <1>7, <1>8, <1>9, <1>10, <1>12, <1>13, <1>14 DEF RecInv

(* An event is stored in the project of its session, or was there already. *)
LEMMA StoreKeeps ==
  ASSUME RecInv, NEW m \in wire, Store(m)
  PROVE  RecInv'
<1> DEFINE p == session.project
           e == <<m.session, m.sequence>>
           copy == Copy(p)
           rows == [copy EXCEPT !.rev = @ + 1, !.events = @ \cup {e}]
           i == session.id
<1>0. TypeOK
  BY DEF RecInv
<1>1. /\ m.session \in SessionId /\ m.sequence \in Segment /\ m.session = i
      /\ current = i /\ session.active /\ agent[i].pc # "unborn" /\ agent[i].project = p
      /\ p \in live /\ p \in Project /\ e \in Recorded /\ m.sequence \notin seen
      /\ i # 0 /\ i \in SessionId
  <2>1. Acceptable(m)
    BY DEF Store
  <2>2. QED BY <2>1, AcceptedPost, RecordingAssumption DEF Acceptable, SessionId
<1>2. copy \in Rows /\ (CopyOf(copy, p) \/ copy = db[p])
  BY <1>0, <1>1, CopyEffect
<1>3. /\ rows \in Rows /\ rows.rev = copy.rev + 1 /\ rows.events = copy.events \cup {e}
      /\ rows.audit = copy.audit
  <2> HIDE DEF copy, e
  <2>1. copy \in Rows /\ e \in Recorded
    BY <1>1, <1>2
  <2>2. copy.rev + 1 \in Nat /\ copy.events \cup {e} \in SUBSET Recorded
    BY <2>1, RowsFields
  <2>3. QED BY <2>1, <2>2 DEF Rows
<1>4. UNCHANGED <<live, current, stopFiles, req, starting, edits, skipped, taken>>
  BY DEF Store, history
<1>5. PICK outcome \in Outcomes(p, copy) \cup {"refused"}, good \in BOOLEAN :
         /\ \/ e \in copy.events /\ db' = db /\ outcome = "refused" /\ good
               /\ seen' = seen \cup {m.sequence} /\ UNCHANGED session
            \/ /\ e \notin copy.events /\ outcome \in Outcomes(p, copy)
               /\ Commit(p, rows, outcome) /\ (good <=> outcome = "ok")
               /\ IF good THEN /\ seen' = seen \cup {m.sequence}
                               /\ session' = [session EXCEPT !.count = @ + 1]
                  ELSE UNCHANGED <<seen, session>>
         /\ Answered(m, good)
         /\ Through(p, After(p, copy, outcome))
  <2> HIDE DEF copy, rows
  <2>1. CASE /\ e \in copy.events /\ db' = db /\ Through(p, copy)
             /\ seen' = seen \cup {m.sequence} /\ UNCHANGED session /\ Answered(m, TRUE)
    BY <2>1 DEF After
  <2>2. CASE /\ e \notin copy.events
             /\ \E outcome \in Outcomes(p, copy) :
                   /\ Commit(p, rows, outcome) /\ Through(p, After(p, copy, outcome))
                   /\ IF outcome = "ok"
                      THEN /\ seen' = seen \cup {m.sequence}
                           /\ session' = [session EXCEPT !.count = @ + 1]
                      ELSE UNCHANGED <<seen, session>>
                   /\ Answered(m, outcome = "ok")
    BY <2>2
  <2>3. QED BY <2>1, <2>2 DEF Store, BoundTo, Consumed, copy, rows
<1> HIDE DEF copy, rows
<1>6. /\ \/ good /\ e \in copy.events /\ db' = db
         \/ /\ e \notin copy.events /\ copy = db[p] /\ db'[p] = rows
            /\ \A q \in Project : q # p => db'[q] = db[q]
         \/ ~good /\ db' = db
      /\ db' \in [Project -> Rows]
      /\ After(p, copy, outcome) \in {copy, db'[p]}
  <2>1. CASE e \in copy.events /\ db' = db /\ outcome = "refused" /\ good
    BY <1>0, <2>1 DEF TypeOK, After
  <2>2. CASE /\ e \notin copy.events /\ outcome \in Outcomes(p, copy)
             /\ Commit(p, rows, outcome) /\ (good <=> outcome = "ok")
    <3>1. /\ \/ /\ outcome \in {"ok", "committed"}
                /\ p \in live /\ copy = db[p] /\ db' = [db EXCEPT ![p] = rows]
             \/ outcome \notin {"ok", "committed"} /\ db' = db
          /\ db' \in [Project -> Rows]
          /\ \A q \in Project : q # p => db'[q] = db[q]
          /\ After(p, copy, outcome) \in {copy, db'[p]}
      BY <1>0, <1>1, <1>2, <1>3, <2>2, CommitEffect DEF RecInv
    <3>2. db' = [db EXCEPT ![p] = rows] => db'[p] = rows
      BY <1>0, <1>1 DEF TypeOK
    <3>3. QED BY <2>2, <3>1, <3>2
  <2>3. QED BY <1>5, <2>1, <2>2
<1>7. /\ session' \in Session /\ session'.id = i /\ session'.project = p /\ session'.active
      /\ \/ session'.count = session.count
         \/ session'.count = session.count + 1 /\ good /\ e \notin copy.events
      /\ seen' \in {seen, seen \cup {m.sequence}}
      /\ good => m.sequence \in seen'
  <2>1. session \in Session /\ session.count + 1 \in Nat
    BY <1>0, CopyTypes DEF TypeOK
  <2>2. CASE session' = session
    BY <1>1, <1>5, <2>1, <2>2
  <2>3. CASE session' = [session EXCEPT !.count = @ + 1] /\ good /\ e \notin copy.events
    <3>1. /\ session' \in Session /\ session'.id = i /\ session'.project = p
          /\ session'.active = session.active /\ session'.count = session.count + 1
      BY <2>1, <2>3 DEF Session
    <3>2. QED BY <1>1, <1>5, <2>3, <3>1
  <2>4. QED BY <1>5, <2>2, <2>3
<1>8. /\ agent' \in [SessionId -> Agent] /\ wire' \subseteq wire
      /\ AgentsSound' /\ PostsSound' /\ Carried
      /\ \A j \in SessionId :
            \/ agent'[j].head = agent[j].head
            \/ /\ good /\ j = i /\ m.sequence = agent[j].head /\ agent'[j].head = agent[j].head + 1
  BY <1>0, <1>1, <1>5, AnsweredEffect DEF RecInv
<1>9. /\ viewed' \subseteq Project /\ view' \in [Project -> Rows] /\ root' \in Rows
      /\ \A q \in Project : view'[q] \in {view[q], db[q], db'[q]}
      /\ root' \in {root, db'[Legacy]}
  <2>1. After(p, copy, outcome) \in Rows
    BY <1>1, <1>2, <1>6
  <2>2. p # Legacy => After(p, copy, outcome) \in {view[p], db[p], db'[p]}
    BY <1>6 DEF copy, Copy, View
  <2>3. p = Legacy => After(p, copy, outcome) \in {root, db'[Legacy]}
    BY <1>6 DEF copy, Copy
  <2>4. QED BY <1>0, <1>1, <1>5, <2>1, <2>2, <2>3, CopyEffect
<1>10. TypeOK' /\ RequestSound'
  BY <1>0, <1>1, <1>4, <1>6, <1>7, <1>8, <1>9 DEF RecInv, TypeOK, RequestSound
<1>11. CopiesCome
  BY <1>0, <1>4, <1>9, CopiesComeFrom
<1>12. SessionSound'
  BY <1>1, <1>4, <1>7, <1>8 DEF RecInv, SessionSound, Carried
<1>13. CopiesFit'
  <2>1. copy.rev \in Nat
    BY <1>2, RowsFields
  <2>2. \A q \in Project : db'[q] = db[q] \/ db'[q].rev > db[q].rev
    BY <1>3, <1>6, <2>1
  <2>3. QED BY <1>4, <1>10, <1>11, <2>2, FitKeeps
<1>14. Homes'
  <2>1. HomeAfter(db[p], p)
    BY <1>0, <1>1, <1>8, CopyTypes, HomeStays DEF RecInv, Homes
  <2>2. e[1] = i /\ agent'[i].pc # "unborn" /\ agent'[i].project = p
    BY <1>1, <1>8 DEF Carried
  <2>3. copy = db[p] => HomeAfter(rows, p)
    BY <1>3, <2>1, <2>2 DEF HomeAfter
  <2>4. \A q \in Project : db'[q] = db[q] \/ HomeAfter(db'[q], q)
    BY <1>6, <2>3
  <2>5. QED BY <1>8, <1>10, <1>11, <2>4, HomesKeep
<1>15. SkippedSeen'
  <2>1. \A x \in skipped \cup taken : x[1] \in SessionId
    BY <1>0 DEF TypeOK, Recorded
  <2>2. QED BY <1>1, <1>4, <1>7, <1>8, <2>1 DEF RecInv, SkippedSeen, Carried
<1>16. LeftOutStaysOut'
  <2>1. e \notin skipped
    <3>1. e[1] = i /\ e[2] = m.sequence
      BY <1>1
    <3>2. QED BY <1>1, <3>1 DEF RecInv, SkippedSeen
  <2>2. \A q \in Project : db'[q].events \subseteq db[q].events \cup {e}
    BY <1>3, <1>6
  <2>3. QED BY <1>4, <2>1, <2>2 DEF RecInv, LeftOutStaysOut, Stored
<1>17. /\ Ever(db[p], i, taken) \subseteq Ever(db'[p], i, taken)
       /\ good => e \in Ever(db'[p], i, taken)
  <2>1. e[1] = i
    BY <1>1
  <2>2. e \in copy.events => e \in Ever(db[p], i, taken)
    <3>1. CASE copy = db[p]
      BY <2>1, <3>1 DEF Ever
    <3>2. CASE CopyOf(copy, p)
      BY <1>1, <1>2, <2>1, <3>2 DEF RecInv, SessionKept, Of
    <3>3. QED BY <1>2, <3>1, <3>2
  <2>3. QED BY <1>3, <1>6, <2>1, <2>2 DEF Ever
<1>18. SessionKept'
  <2>1. ASSUME NEW d \in Client, req'[d].pc = "clear", req'[d].project = p
        PROVE  Of(db'[p], i) = {} \/ req'[d].rows.rev # db'[p].rev
    <3>1. CASE db' = db
      BY <1>1, <1>4, <2>1, <3>1 DEF RecInv, SessionKept
    <3>2. CASE copy = db[p] /\ db'[p] = rows
      <4>1. req[d].rows \in Rows /\ CopyOf(req[d].rows, p)
        BY <1>0, <1>4, <2>1, CopyTypes DEF CopyOf
      <4>2. req[d].rows.rev <= db[p].rev /\ req[d].rows.rev \in Nat /\ db[p].rev \in Nat
        BY <1>0, <1>1, <4>1, RowsFields, CopyTypes DEF RecInv, CopiesFit, Fits
      <4>3. QED BY <1>3, <1>4, <3>2, <4>2
    <3>3. QED BY <1>6, <3>1, <3>2
  <2>2. session'.count <= Cardinality(Tallied(db'[p], i, taken, seen'))
    <3> DEFINE before == Tallied(db[p], i, taken, seen)
               now == Tallied(db'[p], i, taken, seen')
    <3>0. db[p] \in Rows /\ db'[p] \in Rows /\ taken \in SUBSET Recorded
      BY <1>0, <1>1, <1>6, CopyTypes DEF TypeOK
    <3>1. session.count <= Cardinality(before) /\ session.count \in Nat
      BY <1>0, <1>1, CopyTypes DEF RecInv, SessionKept
    <3>2. /\ IsFiniteSet(before) /\ Cardinality(before) \in Nat
          /\ IsFiniteSet(now) /\ Cardinality(now) \in Nat
      BY <3>0, EverFinite
    <3>3. before \subseteq now
      BY <1>7, <1>17 DEF Tallied
    <3>4. Cardinality(before) <= Cardinality(now)
      BY <3>2, <3>3, FS_Subset
    <3>5. CASE session'.count = session.count
      BY <3>1, <3>2, <3>4, <3>5
    <3>6. CASE session'.count = session.count + 1 /\ good
      <4>1. e \in now
        BY <1>1, <1>7, <1>17, <3>6 DEF Tallied
      <4>2. e \notin before
        BY <1>1 DEF Tallied
      <4> HIDE DEF before, now
      <4>3. before \cup {e} \subseteq now
        BY <3>3, <4>1
      <4>4. IsFiniteSet(before \cup {e}) /\ Cardinality(before \cup {e}) = Cardinality(before) + 1
        BY <3>2, <4>2, FS_AddElement
      <4>5. Cardinality(before \cup {e}) <= Cardinality(now)
        BY <3>2, <4>3, FS_Subset
      <4>6. session'.count = session.count + 1
        BY <3>6
      <4>7. /\ session.count \in Nat /\ session.count <= Cardinality(before)
            /\ Cardinality(before) \in Nat /\ Cardinality(now) \in Nat
            /\ Cardinality(before) + 1 <= Cardinality(now)
        BY <3>1, <3>2, <4>4, <4>5
      <4>8. session.count + 1 <= Cardinality(now)
        BY <4>7
      <4>9. QED BY <4>6, <4>8 DEF now
    <3>7. QED BY <1>7, <3>5, <3>6
  <2>3. QED BY <1>1, <1>4, <1>7, <1>10, <1>11, <1>17, <2>1, <2>2, KeptKeeps
<1>19. AcknowledgedIsKept'
  <2>1. \A x \in Ever(db'[p], i, taken) : x \in Stored(session.id)' \cup taken'
    BY <1>1, <1>4, <1>7 DEF Ever, Stored
  <2>2. Stored(i) \subseteq Ever(db[p], i, taken)
    BY <1>0, <1>1, StoredAtHome DEF RecInv, Homes
  <2>3. agent[i].head \in Nat
    BY <1>0, <1>1 DEF TypeOK, Agent
  <2>4. ASSUME NEW k \in 1 .. agent'[i].head - 1
        PROVE  <<i, k>> \in Ever(db'[p], i, taken) \cup skipped \cup taken
    <3>1. k \in 1 .. agent[i].head - 1 \/ (k = m.sequence /\ good)
      BY <1>1, <1>8, <2>3
    <3>2. k \in 1 .. agent[i].head - 1 => <<i, k>> \in Ever(db[p], i, taken) \cup skipped \cup taken
      BY <1>1, <2>2 DEF RecInv, AcknowledgedIsKept
    <3>3. QED BY <1>1, <1>17, <3>1, <3>2
  <2>5. QED BY <1>4, <1>7, <2>1, <2>4 DEF AcknowledgedIsKept
<1>20. AuditedOnce'
  <2>1. \A q \in Project : db'[q].audit = db[q].audit
    BY <1>3, <1>6
  <2>2. QED BY <2>1 DEF RecInv, AuditedOnce
<1>21. QED BY <1>8, <1>10, <1>12, <1>13, <1>14, <1>15, <1>16, <1>18, <1>19, <1>20 DEF RecInv

(* The session a stop leaves behind, or leaves active to be retried.       *)
LEMMA ClosedSession ==
  ASSUME TypeOK, NEW s \in {Closed, [Closed EXCEPT !.active = FALSE]}
  PROVE  /\ s \in Session /\ s.id = session.id /\ s.project = session.project
         /\ s.count = session.count /\ (s.active => session.active)
<1>1. session \in Session
  BY DEF TypeOK
<1>2. /\ Closed \in Session /\ Closed.id = session.id /\ Closed.project = session.project
      /\ Closed.count = session.count /\ Closed.active = session.active
  BY <1>1 DEF Closed, Session
<1>3. LET t == [Closed EXCEPT !.active = FALSE]
      IN  /\ t \in Session /\ t.id = Closed.id /\ t.project = Closed.project
          /\ t.count = Closed.count /\ ~t.active
  BY <1>2 DEF Session
<1>4. QED BY <1>2, <1>3

(* A stop that has nothing to write ends the session; a deletion goes on.  *)
LEMMA FinishQuietly ==
  ASSUME RecInv, NEW c \in Client, req[c].pc = "finish", Finalised,
         req' = [req EXCEPT ![c] = IF @.kind = "delete" THEN [@ EXCEPT !.pc = "clear"] ELSE Idle],
         UNCHANGED <<storage, seen, agent, wire, starting, edits, history>>
  PROVE  RecInv'
<1>0. TypeOK
  BY DEF RecInv
<1>1. UNCHANGED <<live, db, root, viewed, view, skipped, taken>>
  BY DEF storage, history
<1>2. /\ session' \in Session /\ session'.id = session.id /\ session'.count = session.count
      /\ session'.project = session.project /\ ~session'.active
      /\ current' = 0 /\ stopFiles' \subseteq stopFiles
  <2>1. /\ session' = [Closed EXCEPT !.active = FALSE] /\ current' = 0
        /\ stopFiles' \subseteq stopFiles
    BY DEF Finalised
  <2>2. ~session'.active
    <3>1. Closed \in Session
      BY <1>0, ClosedSession
    <3>2. QED BY <2>1, <3>1 DEF Session
  <2>3. QED BY <1>0, <2>1, <2>2, ClosedSession
<1>3. /\ req' \in [Client -> Request] /\ RequestSound'
      /\ \A d \in Client :
            \/ req'[d].project = req[d].project /\ req'[d].rows = req[d].rows
            \/ req'[d].rows = Empty
  <2>1. \A d \in Client : req[d] \in Request
    BY <1>0, CopyTypes
  <2>2. CASE req[c].kind = "delete"
    <3>1. req' = [req EXCEPT ![c] = [req[c] EXCEPT !.pc = "clear"]]
      BY <2>2
    <3>2. /\ [req[c] EXCEPT !.pc = "clear"] \in Request
          /\ [req[c] EXCEPT !.pc = "clear"].pc = "clear"
          /\ [req[c] EXCEPT !.pc = "clear"].kind = req[c].kind
          /\ [req[c] EXCEPT !.pc = "clear"].shared = req[c].shared
          /\ [req[c] EXCEPT !.pc = "clear"].rows = req[c].rows
          /\ [req[c] EXCEPT !.pc = "clear"].project = req[c].project
      BY <2>1, RequestUpdate
    <3>3. /\ req'[c] = [req[c] EXCEPT !.pc = "clear"]
          /\ \A d \in Client \ {c} : req'[d] = req[d]
      BY <1>0, <3>1 DEF TypeOK
    <3>4. req' \in [Client -> Request]
      BY <1>0, <3>1, <3>2 DEF TypeOK
    <3>5. QED BY <2>2, <3>2, <3>3, <3>4 DEF RecInv, RequestSound
  <2>3. CASE req[c].kind # "delete"
    <3>1. req' = [req EXCEPT ![c] = Idle]
      BY <2>3
    <3>2. req'[c] = Idle /\ \A d \in Client \ {c} : req'[d] = req[d]
      BY <1>0, <3>1 DEF TypeOK
    <3>3. QED BY <1>0, <3>1, <3>2, IdleRequest DEF RecInv, TypeOK, RequestSound
  <2>4. QED BY <2>2, <2>3
<1>4. TypeOK'
  BY <1>0, <1>1, <1>2, <1>3, RecordingAssumption DEF TypeOK
<1>5. CopiesCome
  BY <1>0, <1>1, <1>3, CopiesComeFrom
<1>6. AgentsSound' /\ PostsSound' /\ Carried
  BY DEF RecInv, AgentsSound, PostsSound, PostSound, Carried
<1>7. SessionSound'
  BY <1>1, <1>2 DEF RecInv, SessionSound
<1>8. CopiesFit' /\ Homes'
  BY <1>1, <1>4, <1>5, <1>6, FitKeeps, HomesKeep
<1>9. SkippedSeen' /\ SessionKept' /\ AcknowledgedIsKept'
  BY <1>1, <1>2 DEF RecInv, SkippedSeen, SessionKept, AcknowledgedIsKept
<1>10. LeftOutStaysOut' /\ AuditedOnce'
  BY <1>1 DEF RecInv, LeftOutStaysOut, Stored, AuditedOnce
<1>11. QED BY <1>3, <1>4, <1>6, <1>7, <1>8, <1>9, <1>10 DEF RecInv

(* The lines of a history that got one more.                               *)
LEMMA LineAppended ==
  ASSUME NEW s \in Seq(Line), NEW l \in Line
  PROVE  \A k \in DOMAIN Append(s, l) :
            \/ k = Len(s) + 1 /\ Append(s, l)[k] = l
            \/ k \in DOMAIN s /\ Append(s, l)[k] = s[k]
<1>1. /\ DOMAIN Append(s, l) = 1 .. Len(s) + 1 /\ DOMAIN s = 1 .. Len(s) /\ Len(s) \in Nat
      /\ Append(s, l)[Len(s) + 1] = l
      /\ \A k \in 1 .. Len(s) : Append(s, l)[k] = s[k]
  BY AppendProperties, LenProperties
<1>2. QED BY <1>1

(* A history with a line of a session it did not tell of.                  *)
LEMMA OneMoreLine ==
  ASSUME NEW s \in Seq(Line), NEW l \in Line, \A k \in DOMAIN s : s[k].session # l.session,
         \A j, k \in DOMAIN s : s[j].session = s[k].session => j = k
  PROVE  /\ \A k \in DOMAIN Append(s, l) :
               \/ k \in DOMAIN s /\ Append(s, l)[k] = s[k]
               \/ k = Len(s) + 1 /\ Append(s, l)[k] = l
         /\ \A j, k \in DOMAIN Append(s, l) :
               Append(s, l)[j].session = Append(s, l)[k].session => j = k
  BY LineAppended

(* A stop that writes its line into the history, or fails to.              *)
LEMMA FinishAudits ==
  ASSUME RecInv, NEW c \in Client, req' = [req EXCEPT ![c] = Idle],
         NEW copy \in Rows, CopyOf(copy, session.project) \/ copy = db[session.project],
         NeedsAudit(c, copy),
         NEW outcome \in Outcomes(session.project, copy),
         Commit(session.project,
                [copy EXCEPT !.rev = @ + 1,
                             !.audit = Append(@, [session |-> session.id,
                                                  count |-> session.count])],
                outcome),
         \/ view' = view
         \/ /\ copy = view[session.project]
            /\ view' = [view EXCEPT ![session.project] = After(session.project, copy, outcome)],
         Finalised \/ (session' = Closed /\ UNCHANGED <<current, stopFiles>>),
         UNCHANGED <<live, root, viewed, seen, agent, wire, starting, edits, history>>
  PROVE  RecInv'
<1> DEFINE p == session.project
           line == [session |-> session.id, count |-> session.count]
           rows == [copy EXCEPT !.rev = @ + 1, !.audit = Append(@, line)]
<1>0. TypeOK /\ seen' = seen
  BY DEF RecInv
<1>1. /\ p \in Project /\ session.id \in SessionId /\ session.count \in Nat
      /\ agent[session.id].pc # "unborn" /\ agent[session.id].project = p
      /\ copy.rev \in Nat /\ copy.audit \in Seq(Line)
  <2>1. session.id # 0
    BY <1>0, CopyTypes DEF NeedsAudit, RecInv, SessionSound
  <2>2. QED
    BY <1>0, <2>1, CopyTypes, RowsFields, RecordingAssumption DEF RecInv, SessionSound, SessionId
<1>2. line \in Line /\ line.session = session.id
  BY <1>1 DEF Line
<1> HIDE DEF line
<1>3. /\ rows \in Rows /\ rows.rev = copy.rev + 1 /\ rows.events = copy.events
      /\ rows.audit = Append(copy.audit, line)
  BY <1>2, AddLine
<1>4. Commit(p, rows, outcome)
  BY DEF line
<1> HIDE DEF rows
<1>5. /\ \/ copy = db[p] /\ db' = [db EXCEPT ![p] = rows]
         \/ db' = db
      /\ db' \in [Project -> Rows]
      /\ After(p, copy, outcome) \in {copy, db'[p]}
  BY <1>0, <1>1, <1>3, <1>4, CommitEffect DEF RecInv
<1>6. \/ db' = db
      \/ copy = db[p] /\ db'[p] = rows /\ \A q \in Project : q # p => db'[q] = db[q]
  BY <1>0, <1>1, <1>5 DEF TypeOK
<1>7. \A q \in Project : db'[q].events = db[q].events
  BY <1>3, <1>6
<1>8. /\ session' \in Session /\ session'.id = session.id /\ session'.count = session.count
      /\ session'.project = p /\ (session'.active => session.active)
      /\ current' \in {0, current} /\ stopFiles' \subseteq stopFiles
  <2>1. session' \in {Closed, [Closed EXCEPT !.active = FALSE]}
    BY DEF Finalised
  <2>2. current' \in {0, current} /\ stopFiles' \subseteq stopFiles
    BY DEF Finalised
  <2>3. QED BY <1>0, <2>1, <2>2, ClosedSession
<1>9. /\ req' \in [Client -> Request] /\ req'[c] = Idle
      /\ \A d \in Client \ {c} : req'[d] = req[d]
  BY <1>0, IdleRequest DEF TypeOK
<1>10. view' \in [Project -> Rows] /\ \A q \in Project : view'[q] \in {view[q], db'[q]}
  BY <1>0, <1>1, <1>5 DEF TypeOK
<1>10a. skipped' = skipped /\ taken' = taken
  BY DEF history
<1>11. TypeOK' /\ RequestSound'
  <2>1. current' \in 0 .. MaxSession
    BY <1>0, <1>8, RecordingAssumption DEF TypeOK
  <2>2. QED BY <1>0, <1>5, <1>8, <1>9, <1>10, <1>10a, <2>1, IdleRequest DEF RecInv, TypeOK, RequestSound
<1>12. CopiesCome
  <2>1. \A d \in Client :
           \/ req'[d].project = req[d].project /\ req'[d].rows = req[d].rows
           \/ req'[d].rows = Empty
    BY <1>9, IdleRequest
  <2>2. QED BY <1>0, <1>10, <2>1, CopiesComeFrom
<1>13. AgentsSound' /\ PostsSound' /\ SkippedSeen' /\ Carried
  <2>1. \A x \in skipped \cup taken : x[1] # 0
    BY <1>0, RecordingAssumption DEF TypeOK, Recorded, SessionId
  <2>2. QED BY <1>8, <1>10a, <2>1 DEF RecInv, AgentsSound, PostsSound, PostSound, SkippedSeen, Carried
<1>14. SessionSound'
  BY <1>1, <1>8 DEF RecInv, SessionSound
<1>15. CopiesFit'
  <2>1. \A q \in Project : db'[q] = db[q] \/ db'[q].rev > db[q].rev
    BY <1>1, <1>3, <1>6
  <2>2. QED BY <1>11, <1>12, <2>1, FitKeeps
<1>16. \A j, k \in DOMAIN copy.audit : copy = db[p] /\ copy.audit[j].session = copy.audit[k].session
                                         => j = k
  BY <1>1 DEF RecInv, AuditedOnce
<1>17. copy = db[p] =>
         /\ \A k \in DOMAIN rows.audit :
               \/ k \in DOMAIN copy.audit /\ rows.audit[k] = copy.audit[k]
               \/ k = Len(copy.audit) + 1 /\ rows.audit[k] = line
         /\ \A j, k \in DOMAIN rows.audit : rows.audit[j].session = rows.audit[k].session => j = k
  <2> SUFFICES ASSUME copy = db[p]
               PROVE  /\ \A k \in DOMAIN rows.audit :
                            \/ k \in DOMAIN copy.audit /\ rows.audit[k] = copy.audit[k]
                            \/ k = Len(copy.audit) + 1 /\ rows.audit[k] = line
                      /\ \A j, k \in DOMAIN rows.audit :
                            rows.audit[j].session = rows.audit[k].session => j = k
    OBVIOUS
  <2>1. \A k \in DOMAIN copy.audit : copy.audit[k].session # line.session
    BY <1>2 DEF NeedsAudit
  <2>2. \A j, k \in DOMAIN copy.audit : copy.audit[j].session = copy.audit[k].session => j = k
    BY <1>16
  <2>3. LET lines == Append(copy.audit, line)
        IN  /\ \A k \in DOMAIN lines :
                  \/ k \in DOMAIN copy.audit /\ lines[k] = copy.audit[k]
                  \/ k = Len(copy.audit) + 1 /\ lines[k] = line
            /\ \A j, k \in DOMAIN lines : lines[j].session = lines[k].session => j = k
    BY <1>1, <1>2, <2>1, <2>2, OneMoreLine
  <2>4. QED BY <1>3, <2>3
<1>18. Homes'
  <2>1. \A q \in Project : HomeAfter(db[q], q)
    BY <1>0, <1>13, CopyTypes, HomeStays DEF RecInv, Homes
  <2>2. agent'[line.session].pc # "unborn" /\ agent'[line.session].project = p
    BY <1>1, <1>2
  <2>3. ASSUME copy = db[p] PROVE HomeAfter(rows, p)
    <3>1. HomeAfter(copy, p)
      BY <1>1, <2>1, <2>3
    <3>2. \A x \in rows.events : agent'[x[1]].pc # "unborn" /\ agent'[x[1]].project = p
      BY <1>3, <3>1 DEF HomeAfter
    <3>3. \A k \in DOMAIN rows.audit :
             rows.audit[k] = line \/ (k \in DOMAIN copy.audit /\ rows.audit[k] = copy.audit[k])
      BY <1>17, <2>3
    <3>4. \A k \in DOMAIN rows.audit : /\ agent'[rows.audit[k].session].pc # "unborn"
                                       /\ agent'[rows.audit[k].session].project = p
      BY <2>2, <3>1, <3>3 DEF HomeAfter
    <3>5. QED BY <3>2, <3>4 DEF HomeAfter
  <2>4. \A q \in Project : db'[q] = db[q] \/ HomeAfter(db'[q], q)
    BY <1>6, <2>3
  <2>5. QED BY <1>11, <1>12, <1>13, <2>4, HomesKeep
<1>19. \A i : Stored(i)' = Stored(i)
  BY <1>7 DEF Stored
<1>20. LeftOutStaysOut' /\ AcknowledgedIsKept'
  BY <1>8, <1>10a, <1>19 DEF RecInv, LeftOutStaysOut, AcknowledgedIsKept
<1>21. AuditedOnce'
  BY <1>6, <1>17 DEF RecInv, AuditedOnce
<1>22. SessionKept'
  <2>1. Of(db'[p], session.id) = Of(db[p], session.id)
    BY <1>1, <1>7 DEF Of
  <2>2. ASSUME session.active, NEW d \in Client, req'[d].pc = "clear", req'[d].project = p
        PROVE  Of(db'[p], session.id) = {} \/ req'[d].rows.rev # db'[p].rev
    <3>1. d # c /\ req'[d] = req[d]
      BY <1>9, <2>2, IdleRequest
    <3>2. req[d].rows \in Rows /\ CopyOf(req[d].rows, p)
      BY <1>0, <2>2, <3>1, CopyTypes DEF CopyOf
    <3>3. Fits(req[d].rows, p) /\ req[d].rows.rev \in Nat
      BY <2>2, <3>2, RowsFields DEF RecInv, SessionSound, CopiesFit
    <3>4. Of(db[p], session.id) = {} \/ req[d].rows.rev # db[p].rev
      BY <2>2, <3>1 DEF RecInv, SessionKept
    <3>5. QED BY <1>1, <1>3, <1>6, <2>1, <3>1, <3>3, <3>4 DEF Fits
  <2>3. /\ Ever(db'[p], session.id, taken) = Ever(db[p], session.id, taken)
        /\ Tallied(db'[p], session.id, taken, seen) = Tallied(db[p], session.id, taken, seen)
    BY <2>1 DEF Of, Ever, Tallied
  <2>4. session.active => session.count <= Cardinality(Tallied(db'[p], session.id, taken, seen))
    BY <2>3 DEF RecInv, SessionKept
  <2>5. QED BY <1>8, <1>11, <1>12, <1>10a, <2>2, <2>3, <2>4, KeptKeeps
<1>23. QED BY <1>11, <1>13, <1>14, <1>15, <1>18, <1>20, <1>21, <1>22 DEF RecInv

LEMMA FinishKeeps ==
  ASSUME RecInv, NEW c \in Client, Finish(c)
  PROVE  RecInv'
<1> DEFINE p == session.project
           own == req[c].project = p
           copy == IF own THEN Held(c) ELSE db[p]
<1>0. TypeOK
  BY DEF RecInv
<1>1. copy \in Rows /\ (CopyOf(copy, p) \/ copy = db[p])
  BY <1>0, CopyTypes
<1>2. own /\ req[c].shared => copy = view[p]
  BY DEF Held
<1>3. CASE /\ Finalised
           /\ req' = [req EXCEPT ![c] = IF @.kind = "delete" THEN [@ EXCEPT !.pc = "clear"]
                                        ELSE Idle]
           /\ UNCHANGED <<db, view>>
  <2>1. req[c].pc = "finish" /\ UNCHANGED <<storage, seen, agent, wire, starting, edits, history>>
    BY <1>3 DEF Finish, storage
  <2>2. QED BY <1>3, <2>1, FinishQuietly
<1>4. CASE /\ NeedsAudit(c, copy)
           /\ \E outcome \in Outcomes(p, copy) :
                 /\ Commit(p, [copy EXCEPT !.rev = @ + 1,
                                           !.audit = Append(@, [session |-> session.id,
                                                                count |-> session.count])], outcome)
                 /\ view' = IF own /\ req[c].shared
                            THEN [view EXCEPT ![p] = After(p, copy, outcome)] ELSE view
                 /\ IF outcome = "ok" THEN Finalised
                    ELSE session' = Closed /\ UNCHANGED <<current, stopFiles>>
           /\ req' = [req EXCEPT ![c] = Idle]
  <2>1. UNCHANGED <<live, root, viewed, seen, agent, wire, starting, edits, history>>
    BY DEF Finish
  <2> HIDE DEF copy
  <2>2. QED BY <1>1, <1>2, <1>4, <2>1, FinishAudits
<1>5. QED BY <1>3, <1>4 DEF Finish, BoundTo
-----------------------------------------------------------------------------
(* The invariant is inductive, and what follows from it.                   *)

LEMMA InitialRecording ==
  ASSUME Init
  PROVE  RecInv
<1>1. /\ Empty \in Rows /\ Idle \in Request /\ Legacy \in Project /\ 0 \in 0 .. MaxEdits
      /\ 0 \in 0 .. MaxSession
  BY EmptyRows, IdleRequest, RecordingAssumption
<1>2. NoSession \in Session /\ NoSession.id = 0 /\ ~NoSession.active /\ NoSession.count = 0
  BY <1>1 DEF NoSession, Session
<1>3. /\ Unborn \in Agent /\ AgentSound(Unborn)
  <2>1. 0 \in 0 .. MaxSegment /\ 0 \in 0 .. 3 /\ 1 \in Nat /\ 1 \in 1 .. 0 + 1
    BY RecordingAssumption
  <2>2. Unborn \in Agent
    BY <1>1, <2>1 DEF Unborn, Agent
  <2>3. /\ Unborn.pc = "unborn" /\ Unborn.made = 0 /\ Unborn.head = 1 /\ Unborn.tries = 0
        /\ Unborn.ending = FALSE
    BY DEF Unborn
  <2>4. QED BY <2>1, <2>2, <2>3 DEF AgentSound
<1>4. TypeOK
  BY <1>1, <1>2, <1>3 DEF Init, TypeOK
<1>5. AgentsSound /\ PostsSound /\ RequestSound
  BY <1>3, IdleRequest DEF Init, AgentsSound, PostsSound, RequestSound
<1>6. SessionSound /\ SkippedSeen /\ SessionKept /\ AcknowledgedIsKept
  BY <1>2 DEF Init, SessionSound, SkippedSeen, SessionKept, AcknowledgedIsKept
<1>7. \A p \in Project, r \in Rows : CopyOf(r, p) => r = Empty
  BY IdleRequest DEF Init, CopyOf
<1>8. CopiesFit /\ Homes
  BY <1>7, EmptyRows DEF Init, CopiesFit, Fits, Homes, AtHome
<1>9. LeftOutStaysOut /\ AuditedOnce
  BY EmptyRows DEF Init, LeftOutStaysOut, AuditedOnce
<1>10. QED BY <1>4, <1>5, <1>6, <1>8, <1>9 DEF RecInv

LEMMA NextKeeps ==
  ASSUME RecInv, [Next]_vars
  PROVE  RecInv'
<1>1. CASE Dashboard
  BY <1>1, PollKeeps, EditKeeps, DeleteProjectKeeps, StartKeeps, StopBeginsKeeps,
     StartBeginsKeeps, DeleteDataBeginsKeeps DEF Dashboard
<1>2. ASSUME NEW i \in SessionId, AgentStep(i) \/ GiveUp(i)
      PROVE  RecInv'
  BY <1>2, ObserveKeeps, PostHeadKeeps, GiveUpKeeps DEF AgentStep
<1>3. ASSUME NEW m \in wire, Handle(m)
      PROVE  RecInv'
  BY <1>3, RefuseKeeps, SkipKeeps, StoreKeeps DEF Handle
<1>4. ASSUME NEW c \in Client, RequestStep(c) \/ Terminate(c)
      PROVE  RecInv'
  BY <1>4, AgentLeftKeeps, FinishKeeps, ClearKeeps, TerminateKeeps DEF RequestStep
<1>5. CASE Crash
  BY <1>5, CrashKeeps
<1>6. CASE UNCHANGED vars
  <2>1. /\ UNCHANGED <<live, db, root, viewed, view, session, current, seen, stopFiles>>
        /\ UNCHANGED <<agent, wire, req, starting, edits, skipped, taken>>
    BY <1>6 DEF vars, storage, manager, history
  <2>2. TypeOK' /\ Quiet
    BY <2>1 DEF RecInv, TypeOK, Quiet, SameSession, Carried, HeadsStay, CopiesCome, CopyOf,
       ClearsKept
  <2>3. AgentsSound' /\ PostsSound' /\ RequestSound'
    BY <2>1 DEF RecInv, AgentsSound, PostsSound, PostSound, RequestSound
  <2>4. QED BY <2>2, <2>3, QuietKeeps DEF RecInv
<1>7. QED BY <1>1, <1>2, <1>3, <1>4, <1>5, <1>6 DEF Next

(* The inductive invariant holds throughout, for any projects, clients,    *)
(* bounds and surroundings: failing and unconfirmed commits, timeouts,     *)
(* refusals, killed agents, restarts, and edits that remove what is being  *)
(* recorded.                                                               *)
THEOREM Inductive == Spec => []RecInv
<1>1. Init => RecInv
  BY InitialRecording
<1>2. RecInv /\ [Next]_vars => RecInv'
  BY NextKeeps
<1>3. QED BY <1>1, <1>2, PTL DEF Spec

(* Every variable keeps its type.                                          *)
THEOREM TypeCorrect == Spec => []TypeOK
<1>1. RecInv => TypeOK
  BY DEF RecInv
<1>2. QED BY <1>1, Inductive, PTL

(* An event is only ever stored in the project its recording was started   *)
(* for (_session_store), whatever is activated, edited, cleared or deleted *)
(* meanwhile and through whichever copy it is written.                     *)
THEOREM EventsStayHome == Spec => []EventsInTheirProject
<1>1. RecInv => EventsInTheirProject
  BY DEF RecInv, Homes, AtHome, EventsInTheirProject
<1>2. QED BY <1>1, Inductive, PTL

(* What was acknowledged and left out, in a pause or by the settings, is   *)
(* not stored by a later post of the same segment: the manager still knows *)
(* its sequence (_seen_sequences).                                         *)
THEOREM LeftOutIsOut == Spec => []LeftOutStaysOut
<1>1. RecInv => LeftOutStaysOut
  BY DEF RecInv
<1>2. QED BY <1>1, Inductive, PTL

(* project_deletion_guard and the check start makes under the same lock    *)
(* keep the project of an active recording alive.                          *)
THEOREM ProjectLives == Spec => []RecordedProjectLives
<1>1. RecInv => RecordedProjectLives
  BY DEF RecInv, SessionSound, RecordedProjectLives
<1>2. QED BY <1>1, Inductive, PTL

(* A segment the agent dropped from its queue is stored, was left out, or  *)
(* was stored and then removed by an edit, as long as its recording is     *)
(* active: no stale copy, no failed or unconfirmed commit and no deletion  *)
(* of the project's data takes it away.                                    *)
THEOREM AcknowledgedStays == Spec => []AcknowledgedIsKept
<1>1. RecInv => AcknowledgedIsKept
  BY DEF RecInv
<1>2. QED BY <1>1, Inductive, PTL

(* However many stops overlap or are repeated, and whatever became of      *)
(* their commits, a project's history tells of a recording once (the       *)
(* marker of record_import).                                               *)
THEOREM AuditedAtMostOnce == Spec => []AuditedOnce
<1>1. RecInv => AuditedOnce
  BY DEF RecInv
<1>2. QED BY <1>1, Inductive, PTL
=============================================================================
