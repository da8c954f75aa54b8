# A verification of OpsMineFlow in TLA+

OpsMineFlow records which desktop application is in front, imports event logs,
and turns them into process maps, on one Mac and with no network. This directory
holds TLA+ models of its stateful core, the TLC configurations that check them on
small instances, and TLAPS proofs of what matters most for every instance. All
definitions are translated from the code under `src/`; paths below are relative
to the repository and `opsmineflow_api/` stands for
`services/local-api/src/opsmineflow_api/`.

Contents: 1 the system, 2 the modules and the code, 3 the runs, 4 fairness,
5 the proofs, 6 what the checks found, 7 what is abstracted or missing, 8 the plan.

## 1. The system and its parts

The desktop runtime (Tauri) owns one sidecar process, the local API. The API has
one thread per request, one `RecordingManager`, and a process-wide `EventStore`
over one SQLite file. While the user records, the API runs one native agent, a
child process that posts segments back to the API over HTTP.

    UI -> desktop runtime -> HTTP -> API threads -> RecordingManager -> agent
                                        |  |            ^                 |
                                        |  +-- EventStore copies -> SQLite
                                        +--------<------- posts ----------+

Project storage (`opsmineflow_api/storage.py`)
: State: the SQLite tables of every project with an optimistic revision each; in
  memory one full copy per `EventStore` object: `default_store()` (bound to the
  legacy project), a cache of two read views, and a store per revision-bound
  request; a view lock, a mutation lock per store, `writes_blocked`, the analysis
  cache. Operations: `for_project`, `snapshot`, `append`, `replace`, the timeline
  edits, `clear`, `record_import`, create, select, rename and delete project.
  Hard: copies age; a load is seven separate read transactions; commits fail with
  unknown outcome; views are dropped and rebuilt while others write. Correct if no
  update is lost, a refusal means nothing was written, memory agrees with SQLite,
  readers see self-consistent and recent rows, and a restart finds everything.

Recording manager (`opsmineflow_api/recording.py`)
: State: one session (active, paused, ended, count), the process it holds with
  its token and stop file, the accepted sequences. Operations: start, status,
  pause, resume, heartbeat, ingest, stop, the deletion guard. Hard: a stop waits for
  the agent between two critical sections; two stores write the same project; the
  user edits what is being recorded; the audit commit can fail after the capture
  ended. Correct if events land in the project the user chose, what was left out or
  removed stays out, the history tells of each recording once and truly, and a
  recording can always be stopped.

Native agent (`mac-agent/Sources/OpsMineFlowAgent/main.swift`)
: State: a queue of segments, the current app. It polls, posts the head of the
  queue until a post fails, and leaves when its stop file appears or its parent
  dies, after at most three more passes. Hard: a post that outlives its patience is
  still handled. Correct if nothing acknowledged is lost and it always exits.

Local API routes (`opsmineflow_api/app.py`, `server.py`)
: No state beside the delete challenges; they decide which store a request goes
  through and in what order manager and store are used.

Migration and key (`opsmineflow_api/migrations.py`)
: State: schema version, key verifier, cleanup marker, the pages of the database
  file and of its WAL, key file, file lock. Operations: inspect, load or create the
  key, rewrite in one transaction, purge, verify the key again. Hard: a crash
  between any two durable steps; a commit leaves the old pages on disk; the key is
  read again after the lock was released. Correct if a store is handed out only over a
  rewritten and purged database and with its key, and an interrupted start can be
  repeated.

API policy (`opsmineflow_api/auth.py`)
: State: the open delete challenges. Correct if each deletes at most once, within
  its time.

Desktop runtime (`apps/desktop/src-tauri/src/runtime.rs`)
: State: child, marker file, secrets, health failures, status, file scopes and their
  snapshots. Operations: initialize, status, the check before a proxied request,
  repair, shutdown; choose and import a file; delete all data. Hard: initialisation
  holds no lock, a child is stopped after the lock was released, a crash leaves a
  sidecar and its marker behind, process identifiers come back, the API goes on after
  the desktop gave up. Correct if a ready desktop owns the sidecar it talks to, two
  sidecars never both stay, each consent of the user acts once, and no snapshot of his
  files is left behind.

Timeline and mining (`opsmineflow_api/storage.py`, `app.py`, `services/mining-core`)
: State: the events of a project, labels, settings, import history, reviews, a cached
  analysis. Operations: imports, nine kinds of edits, settings, analysis. The analysis
  itself is a function: validity, deduplication, cases, sessions, overlaps, times,
  graph, variants, rankings, quality report. Hard: every write hashes all identifiers
  again; sessions and overlaps decide at ties and boundaries; an analysis is built
  while the store changes. Correct if an edit touches what it says, a repeated import
  adds nothing, all results count the same population, and nothing is silently lost.

User interface (`App.tsx`, `api.ts`), Draw.io exporter, LLM handoff, event schema, scripts
: No protocol of their own; listed in `PROJECT.json` with the reason each is out.

## 2. Modules and their correspondence to the code

| Module | Models | Builds on |
|---|---|---|
| `ProjectData` | rows of a project, effect of each data operation (`_candidate` and its callers) | |
| `Workspace` | the abstract promise: a catalogue of projects changed one whole operation at a time | `ProjectData` |
| `ProjectStore` | `EventStore` objects, view cache, locks, loads, commits, reconciliation, catalogue, restart | `ProjectData`, `W == INSTANCE Workspace` |
| `ProjectStoreProofs` | theorems: copies, refinement, catalogue | `ProjectStore`, `TLAPS` |
| `StoreRequestProofs` | theorems: locks, answers, view cache, seeding | `ProjectStoreProofs` |
| `MCProjectStore` | symmetry for TLC | `ProjectStore` |
| `Recording` | `RecordingManager`, agents, posts, stop and delete requests over reduced storage | |
| `MCRecording` | symmetry for TLC | `Recording` |
| `RecordingProofs` | theorems: where events go, what is left out, acknowledgements, history | `Recording`, `TLAPS` |
| `StopProofs` | theorems about stops that do not overlap | `RecordingProofs` |
| `Startup` | the abstract promise of opening a database | |
| `Migration` | `migrate_database`, key file, privacy cleanup, lock, crashes | `Promise == INSTANCE Startup` |
| `MCMigration` | instance for TLC | `Migration` |
| `MigrationProofs` | theorems: keys, privacy cleanup, refinement | `Migration`, `TLAPS` |
| `Analysis` | what is computed from a set of events: `prepare_analysis`, graph, metrics, quality | |
| `Timeline` | the events of one project, imports, edits, settings, cached analysis | `Analysis` |
| `AnalysisProofs` | lemmas about what is computed from any set of events | `Analysis`, `TLAPS` |
| `TimelineProofs` | theorems: stored rows, retries, snapshots, sessions, graph, quality | `Timeline`, `AnalysisProofs` |
| `MCTimeline` | files, stored rows and observations for TLC | `Timeline` |
| `Runtime` | the desktop runtime and its sidecars | |
| `Desktop` | import scopes, snapshots, deletion and delete challenges on top of the runtime | `Runtime` |
| `MCRuntime` | instance for TLC | `Desktop` |
| `DesktopProofs` | theorems: the owner of a sidecar; imports, deletions and snapshots | `Desktop`, `TLAPS` |

ProjectStore. A request is a record with a place (`pc`); it arrives, takes steps,
and is answered. `ArriveRead`, `ArriveViewWrite`, `ArriveBoundWrite` and
`ArriveRootWrite` are the ways the routes reach a store: a dashboard read, a write
without a revision (through the cached view), a write with the revision the client
saw (`for_project` with `expected_revision`, a store of its own), and a recorded
event of the legacy project (through `default_store()`). `LookupHit`, `LookupMiss`,
`Invalidate`, `ViewLoaded` and `DropView` are `for_project` and
`_invalidate_project_view`; `LoadRevision`, `LoadEvents` and `Rest` are `_load`, cut
where another commit can intervene. `CommitSucceeds`, `CommitRefused` and
`CommitUncertain` are `_commit_candidate` with its three outcomes: done, rolled
back for certain, and unknown, after which the store is reloaded (`Reconciled`,
`LeakContained`, `ReconcileFails`). The event payload is an identifier; labels
stand for every table beside events. `heap` keeps only objects that someone refers
to (`Swept`), so `Slot` bounds how many are alive at once.

Recording. The manager has one lock, so each handler is one action, with
`_refresh_process_state` (`Known`, `Process`, `Files`) inside the handlers that call
it. `start` is two: the request resolves its store (`StartBegins`), then has the lock and
looks the project up again (`Start`). `stop` is three, `StopBegins`, `AgentLeft` or
`Terminate`, and `Finish`. `/data/delete`
is the same with `kind = "delete"` and ends in `Clear`. `ingest` is `Refuse`, `Skip` (paused),
`LeaveOut` (`append` filters the event by the settings) or `Store`. `Edit` is every other
write of the project's rows: `exclude_event`, `split_event`, `merge_adjacent_events`,
`replace` and `update_settings` take recorded events away, at any time also during the
recording, and the last one changes what the settings exclude. An agent is `Observe` (top of
the loop), `PostHead`, and the return of the post (`Posted`, from `Answered` or
`GiveUp`); a post handled after the agent gave up is `late`. Storage is reduced to
what ProjectStore establishes: a commit through a copy succeeds exactly if the copy
carries the durable revision, which makes it the durable rows (`Coherent`). The cached
view and the rows in `default_store()` are kept, because the code writes through both.

Migration. `pc` gives the place of a process inside `migrate_database` and after it:
`Inspect`, then `VerifyKey` (a current database) or `TakeKey`, `CreateKeyFile`,
`WriteKey`, `Apply` and `Commit` (an older one), then `AskMarker` and either the purge
(`ConfigureWal`, `Vacuum`, `ConfigureWal`, `MarkCleaned`, `ConfigureWal`) or one
checkpoint; outside the lock `Reload` and `Check`. `db` is what SQLite answers; `main`
and `wal` say what can still be read from the files. `Fails(p)` and `Crash(p)` may
happen at every place, `TouchKey` is the user taking the key file away.

Analysis and Timeline. `Analysis` has no state: `Excluded`, `Cases`, `Sessions`,
`Used`, `Receipt` are `prepare_analysis`; `Activities`, `Steps`, `Edge`, `Variants`,
`AppSwitches`, `Bottlenecks`, `AutomationScore` are `pipeline.py`; `QualityItems` is
`create_event_quality_report`. `Timeline` has one action per operation of a store
(`Replace`, `AppendRows`, `SetLabel`, `UpdateActivity`, `Exclude`, `ReviewQuality`,
`CorrectCase`, `Split`, `Merge`, `Clear`, `UpdateSettings`, `ReviewAutomation`), each
through `Candidate`, the privacy boundary, and the request for an analysis in steps
(`Ask`, `LookUp`, `Build`, `Keep`, `Answer`) between which operations commit.
Identifiers are terms, `<<"evt", x>>` for the hash of `x`, so that a double hash shows.

Runtime and Desktop. `inner` is `RuntimeInner`; handlers that keep its mutex are one
step, `initialize` is the chain `Recover`, `Check`, `Spawn`, `Mark`, `Ready`,
`StoreChild` with a failure at each place, and the child a proxied request takes away
is stopped later (`condemned`). Sidecars bind the port, lose their parent and end
(`Bind`, `Watch`, `Die`); `Reuse` gives the identifier in the marker to another
process. `Desktop` extends each step of the runtime by what it does to scopes,
snapshots, challenges and requests in flight, and adds the imports and deletions.
`Lapse` ends the lifetime of a scope or a challenge at any time; `seen` in a request
is the clock value `consume` reads before it takes the lock.

## 3. Runs

"Distinct" is the number of distinct states. The bounds are small because each
hazard needs few actors; what needs more is covered by the proofs.

| Run | Instance | Checks | Distinct |
|---|---|---|---|
| `store_projects` | 2 projects, 2 threads, cache of 1, 3 objects, 2 revisions, no faults | `TypeOK`, `CatalogueSound`, `NoViewOfDeletedProject` | 246604 |
| `store_faults` | 1 project, 2 threads, cache of 2, 4 objects, all operations and all faults, restarts | `Coherent`, `RefusedMeansUnchanged`, `OneViewPerProject`, `ImplementsWorkspace`, `NeverReseeds` | 153735 |
| `recording` | 1 project recorded twice, 2 stopping clients, 1 segment each, 1 edit or deletion, stale views, failing writes, commits of unknown outcome, killed agents and their late posts | `EventsInTheirProject`, `RecordedProjectLives`, `AcknowledgedIsKept`, `AuditSound` | 1964532 |
| `recording_live` | 1 recording of 2 segments, 1 client, 2 edits or deletions, killed agents, dead API, late and refused posts, weak fairness | `TypeOK`, `LeftOutStaysOut`, `TakenStaysOut`, `AuditedTruly`, `NoStrayAgent`, `AgentWindsDown`, `StopCompletes` | 207861 |
| `migration` | 2 processes, 3 keys, schema versions 0 to 4 and an unknown one, 2 faults | `TypeOK`, `OneKeyPerDatabase`, `CleanedMeansGone`, `KeyKept`, `ImplementsStartup`, `Recovers` | 44022 |
| `timeline` | 3 files, an empty, a filled or an old project, 2 operations, 1 bucket of 2 observations | `TypeOK` and 9 properties below | 64684 |
| `runtime` | 3 sidecars, 3 faults, 1 file, 1 deletion sent twice | `DesktopTypeOK`, `Owned`, `ActsOnce`, `NothingLeftBehind`, `Settles` | 716538 |
| `stale_refresh`, `torn_snapshot`, `restart_refused`, `stop_legacy`, `double_stop` | | one violated property each, section 6 | |

Why these bounds. Two threads suffice for every race over one copy: one loads or
writes, the other intervenes; a third object lets a request hold an evicted view.
A second project is needed to delete the active one and to compete for the
cache, a second view slot to cache one project twice (so `OneViewPerProject` is
checked with `MaxViews = 2`). Two revisions let a copy be stale by more than one
commit. Two recordings and two stops are the smallest instance where a stop can
meet the wrong session, or a post of a killed agent the next recording; one segment can
be posted, stored by a commit reported as failed, edited away and posted again, in
`recording_live` also given up or skipped and posted again, while a second one waits behind it. Two edits (in `recording_live`) let the settings
exclude an application and admit it again, or an edit follow another. Every bound is a
constant: `MaxRevision`, `MaxViews`, `Offered`, `MaxSession`, `MaxSegment`, `MaxEdits`,
`Asked`. Deadlock is not checked in the Recording runs: once the one project that
requests are made about is deleted and all agents exited, nothing is left to do.
Nor is it in `timeline`, where the number of operations is bounded.

Two processes are what the migration lock is for; three keys let each process make one
beside the one already there. Two faults allow a failed cleanup and a crash in its
repetition. Versions 0 to 4 are those of the code. In `timeline` the three files hold
the flow of a case with a pause and an estimated duration, repeated, overlapping and
reversed rows, and one identifier for two rows; two operations on top of stored events
let an edit meet the result of another (split then merge, correct then split), and
every reachable set of events is analysed in every state. `Tolerance`, `Brief`,
`Lengthy` and `Slow` are the thresholds of the code scaled to these small times, `Gaps`
holds 0 and a gap as long as the pause. In `runtime` three sidecars are an orphan, the
one being started and an identifier still named by the marker; three faults suffice for
a crash, a failure in the recovery from it and one more in the next start. The
threshold of three failed probes is that of the code.

What the storage runs show. Stores may be stale, torn or blocked, but no
interleaving, fault or restart loses an update (`ImplementsWorkspace`), lets memory
run ahead of SQLite (`Coherent`), or answers "no changes were applied" for a write
that happened (`RefusedMeansUnchanged`). The cache holds one view per project and
none of a deleted one, except while the deletion is about to drop it. Cleared data is
not replaced by the sample (`NeverReseeds`).

What the recording runs show. `EventsInTheirProject`: late posts and a changed
active project never move an event. `LeftOutStaysOut`: a segment acknowledged in a
pause or left out by the settings is never stored, even when posted again after the
resume or after the settings changed. `TakenStaysOut` (no commit of unknown outcome):
an event the user removed does not come back with a repeated post. `AuditSound`:
overlapping and repeated stops of one project by two clients write one history row,
and that row claims no more events than were ever stored, those included that an edit
removed since (with stops of several projects the second part fails, see section 6);
`AuditedTruly` (no commit of unknown outcome): it counts exactly those, so that an edit
made during the recording neither lowers the count nor lets a repeated post raise it.
`RecordedProjectLives`: the project of an active recording exists, also when it is
deleted between the moment a start resolves its store and the moment it has the lock.
`AcknowledgedIsKept`: what the agent drops from its queue was stored, unless it was left
out, or was stored and then removed by an edit.
`NoStrayAgent`, `AgentWindsDown`, `StopCompletes`: with one client an agent is never
forgotten, always exits, and a recording that the user keeps asking to stop ends.

What the migration run shows. `CleanedMeansGone`: the marker that later starts trust is
never set while a raw value is in the file or in the WAL, whatever order checkpoints,
crashes and repeated cleanups come in. `KeyKept` and `OneKeyPerDatabase`: references
are made with one key, which the file holds from the commit on unless somebody took it.
`ImplementsStartup`: through crashes and two processes this is still "rewrite once,
purge, then open". `Recovers`: only a lost key file, one left half-written or an unknown
database shuts the user out.

What the timeline run shows. `TimeAddsUp`, `SessionsAreConnected`, `NoInventedFlow` and
`ResultsAgree` compare the algorithms, which sort, sweep and count, with definitions that
do not (instants covered, silent stretches, sums over the graph). `NothingLeftOut`: each
event is used or listed as to be corrected. `AnswersItsSnapshot`: an analysis never
belongs to another state than the snapshot of the request, and the cache keeps nothing
older than the store. `OthersUntouched`: although every write hashes all rows again, only
the edited ones change. `EditsKeepTime`: split and merge keep elapsed time, under the
conditions it states. `RetriesAddNothing`: an import repeated at once adds nothing; one repeated after a
different import is not recognised, the documented limit of the remembered fingerprint.
`ResultsAgree` is one formula about all results of one analysis; within the run's small
files no variant repeats a pattern or returns to an application, so of its parts the sums
over round trips and repeated patterns range over nothing there, and only the theorem
`ResultsAlwaysAgree` covers them.

What the runtime run shows. `Owned`: a desktop that says it is ready holds the secrets of
its own sidecar, named by the marker, and any second living sidecar is about to end.
`Settles`: after the faults a user who follows `recovery_action` ends with a ready
runtime and one sidecar. `ActsOnce`: with timeouts, repeated requests and ends of
lifetimes a chosen file is imported at most once, a confirmed deletion clears at most
once, and what is reported as deleted is. `NothingLeftBehind`: a snapshot of a user's file
belongs to a scope or to an import that will remove it.

Each property has a mutant, a definition next to the original that a plausible
mistake would give (marked `Mutant:` in the modules); with it TLC finds that property
violated. The mutants are not used by any specification.

## 4. Fairness

`ProjectStore!FairSpec`: a request thread that can take its next step takes it
(weak fairness of `Step(t)` per thread): the server runs one thread per request and
no step waits for anything but a lock, SQLite or its own computation. No fairness is
assumed for arrivals, faults or restarts. That every request is answered is not
claimed: Python's locks promise no order, so a thread may lose the race forever.
`RestartSpec` adds that someone asks the restarted process for its projects.

`Recording!FairSpec`: agents take their steps, the API handles what is on the wire,
stop and delete requests go on (each its own process or thread), and the user asks
again to stop a recording that is still active. A post is answered or given up, and
`stop` kills an agent after eight seconds; the latter is not assumed fair, so
`StopCompletes` does not depend on killing. Writes that fail forever would keep a
recording active; `recording_live` therefore has no storage faults.

`Migration!FairSpec`: a process that began to open the database goes on, and the user
starts the app again when it was refused or died; no fairness for faults or writes.
A process may wait for the file lock as long as the other one holds it, which it does
for a bounded number of steps.

`Runtime!Fairness`, also used by `Desktop!DesktopSpec`: the threads of the desktop go on, the
interface polls the status (`App.tsx`), sidecars bind and watch their parent, another
program leaves the port when the user is told to close it, and the user starts the app,
asks for a repair and restarts when `recovery_action` says so. Failures are bounded by
`MaxFaults`, so `Settles` speaks of what happens after them. Imports and deletions are not
assumed to go on.

## 5. Proofs

Each theorem holds for all values of the constants that meet the named assumptions of
its module, which TLC evaluates in every run. None of them speaks of fairness: they are
about `Spec`, hence also about the `FairSpec` the runs use.

**ProjectStore.** From `LegacyAssumption` and `StoreAssumption` (the legacy project is a
project, identities are distinct, bounds are naturals), for any projects, threads,
objects, events, cache size and revision bound.
`ProjectStoreProofs`: `Inductive` (`Spec => []IInv`), `TypeCorrect` (`TypeOK`; in
particular the cache never exceeds `MaxViews`), `CoherentCopies` (`Coherent`),
`StoreImplementsWorkspace` (`ImplementsWorkspace`, the refinement), `CatalogueIsSound`
(`CatalogueSound`). `StoreRequestProofs`: `RequestsInductive` (`RequestInv`),
`RefusalsChangeNothing`, `ViewsAreUnique`, `DeletedViewsGo`, and the
action property `SampleOnlyOnce` (`NeverReseeds`).

`Coherent` is not inductive: a copy is built over several steps while others commit.
`IInv` adds `RequestShape` (which fields a request at each place has), `Bindings` (every
reference of a request or of the cache is to a live object of the right project, and
the root store is the legacy project's), `NoneUnborn` (nothing refers to a project not
yet created) and `LoadsAgree`: the rows a load has read so far agree with SQLite if
the revision read first is still the durable one. That the revision is read first is
what makes a torn load harmless for writes; the mutant `RestRevisionLast` reads it
last. The argument goes in a circle that the proof cuts by steps: from `Coherent` and
`Bindings`, a commit that passes the revision check is computed from the durable rows,
hence every step is a step of `Workspace` (`CommitRefines`, `StepRefines`); a step of
`Workspace` leaves a project's rows alone or moves its revision (`Progress`); therefore
copies and loads that agreed still agree (`CopiesKept`, `LoadsKept`), which is
`Coherent` and `LoadsAgree` after the step. The last theorem proves the invariant of
`Workspace` and carries it over the refinement.

`RequestInv` holds on top of `IInv`. The view lock is held exactly by the thread that
builds a view (`ViewLockHeld`) and a mutation lock only by one that reconciles
(`OwnersRepair`). A view is built only of a project
without one (`NotCachedYet`), which the lock keeps true until it is inserted. A view of
a deleted project is in the cache, or about to be, only while somebody is on the way to
drop it (`StaleViewsDropped`). A request says it wrote only until it reloaded its copy
(`WroteKnown`). The sample is written by a thread alone with the store, from a copy
without events and never initialised (`SeedsAlone`), and `Coherent` turns "in the copy" into
"in SQLite" at the commit.

**Recording.** From `RecordingAssumption`, for any clients, projects, recordings, segments
and any set `Env` of faults. `RecordingProofs`: `Inductive` (`RecInv`), `TypeCorrect`,
`EventsStayHome` (`EventsInTheirProject`), `LeftOutIsOut` (`LeftOutStaysOut`), `ProjectLives`
(`RecordedProjectLives`), `AcknowledgedStays` (`AcknowledgedIsKept`), `AuditedAtMostOnce`
(`AuditedOnce`, the first half of `AuditSound`). `StopProofs`: `NoAgentAstray`
(`NoStrayAgent`), `HistorySound` (`AuditSound`), `HistoryExact` (`AuditedTruly`),
`TakenIsOut` (`TakenStaysOut`).

`RecInv` says of every copy of a project's rows, wherever it is kept, that it is the
durable rows if it carries their revision (`CopiesFit`) and tells only of recordings of that
project (`Homes`); of a post, that it is late or the head of the queue of the agent waiting
for it (`PostsSound`); of a segment left out, that its sequence is consumed as long as its
token is good (`SkippedSeen`). The hardest part is `SessionKept`. Edits take events of the
active recording away while it runs; the history variable `taken` collects them, and `Ever`
is what a project holds of a recording or an edit took from it. `SessionKept` says that
nothing but an edit takes an event away: no copy knows an event of the recording that
SQLite never held, a deletion about to clear the project either finds no such event or
carries an outdated revision, and the manager counts at most the events ever stored whose
sequence it has consumed (`Tallied`). The last part is what makes the count safe when, after
a commit of unknown outcome, a removed event is stored again: it is stored under the same
identity and counted once. Only with `SessionKept` is `AcknowledgedIsKept` inductive.

The theorems of `StopProofs` have hypotheses, since without them the statements are false.
`OneClient`: requests that stop or delete come one after the other. The code needs it,
`double_stop` is the counterexample with two clients; the desktop sends one such request
at a time, other callers of the API need not. `AuditedTruly` and `TakenStaysOut` also need
`"unconfirmed" \notin Env`, no commit of unknown outcome (`TakenStaysOut` does not need
`OneClient`): section 6 says how the row falls behind, and how an event comes back, otherwise.
`StopInv` adds `Waits`: who stopped a recording finds it active, with the process it waited
for, when it comes back, and a process is released only when it has exited; and
`LinesCovered`, which reads `AuditNeverOverstates` off the project a row is in. `ExactInv`
adds that the manager knows the sequence of everything ever stored (`AllSeen`), that it
counts what was stored and that no row precedes the end of its recording (`Counted`).
`AuditSound` for two clients that stop recordings of one project is checked by TLC only.

**Migration.** From `MigrationAssumption` (markers are no process, key or image; schema
versions are naturals), for any processes, keys, versions and faults. `Inductive`
(`IInv`), `MigrationImplementsStartup` (the refinement of `Startup`), `TypeCorrect`, `OneKey`
(`OneKeyPerDatabase`), `CleanedIsGone` (`CleanedMeansGone`), `KeyIsKept` (`KeyKept`).
`IInv` adds mutual exclusion by the file lock (`LockHeld`), which makes what its holder
found in the database still so at each later place (`StillSo`); a database has a verifier
from the commit of the rewrite on and not before (`Rewritten`); the key about to be
committed is in the file, unless somebody took it (`KeyAtHand`); after VACUUM the stored image
is clean and after the truncation nothing raw is exposed (`PurgeSoFar`), which is why the
order VACUUM, checkpoint, marker is right.

**Runtime and Desktop.** From `RuntimeAssumption` and `DesktopAssumption`, for any sidecars,
threshold, faults, files and deletions. `DesktopProofs`: about `Runtime` alone `Inductive`
(`RInv`), `TypeCorrect` (`TypeOK`) and `SidecarOwned` (`Owned`). `RInv`: one sidecar serves the port (`OneServes`), an
initialisation under way found no child (`Alone`), a living sidecar that is not about to end is
the child or the one being started (`Known`), and the marker names the one started or used
(`Marked`). About the composition: `DesktopInductive` (`DInv`), `DesktopTypeCorrect`,
`SidecarOwnedInDesktop`, `DesktopActsOnce` (`ActsOnce`), `NoSnapshotLeft`
(`NothingLeftBehind`). A step of `Desktop` is a step of `Runtime` or leaves it alone
(`StepOfRuntime`), so `RInv` carries over. `OneRight` follows the right to clear a
project: it is in the request for a challenge, in the challenge, in the request that consumed
it, or used, and never in two places; `SentOnce` says the same of a file and its scope.

**Timeline and Analysis.** From `TimelineAssumption` and `AnalysisAssumption` (the rows a
project starts with are behind the privacy boundary, one per identifier; files are
numbered rows of whole instants; the ActivityWatch server observes no negative duration),
for any files, settings, bounds and observations. `TimelineProofs`: `TimelineInductive`
(`TInv`), `TimelineTypeOK` (`TypeOK`), `SnapshotAnswered` (`AnswersItsSnapshot`), the action
properties `NothingElseTouched` (`OthersUntouched`), `RetriesAreIdle`
(`RetriesAddNothing`) and `EditsAlwaysKeepTime` (`EditsKeepTime`), and of the analysis of whatever is stored `FlowsAreReal`
(`NoInventedFlow`), `SessionsSplitAtGaps` (`SessionsAreConnected`), `NothingIsLeftOut`
(`NothingLeftOut`), `TimesAddUp` (`TimeAddsUp`) and `ResultsAlwaysAgree` (`ResultsAgree`).
The lemmas about the operators of `Analysis` are in `AnalysisProofs`.

`TInv` adds to `TypeOK` what the server holds (`FeedSound`); that a request and a cached
result that name one generation name the same events, and that a result of a generation
that has passed is in the cache, or on its way into it, only while somebody is about to clear
it (`SnapshotSound`); and that the import just made is the one the store remembers
(`RecentImport`). Two facts about the privacy boundary carry the edits: a row
behind it passes unchanged if its references are trusted (`StoredPass`), and whatever passes is
behind it (`RedactOpaque`). That a replaced dataset is recognised when it is imported
again rests on counting: `Dataset` is the same before and after rows that repeat an
identifier are renamed (`UniquifiedSound`, `ReplacedDataset`), by bijections between
positions and rows; the export of the server is numbered without gaps
(`ExportSound`).

The analysis takes greatest and least elements of finite sets. Where an induction over the set
would do, the proofs take a least counterexample instead (`LeastSubset`), from the fact that
proper inclusion of subsets of a finite set is well founded. `BeganSound` says where the
session of an event begins, `QuietBetween` that the latest instant at which nothing had
been active for longer than the gap lies between events of different sessions,
`QuietSeparates` the converse; together with `SessionOf` they give
`FlowsAreReal`, `SessionsSplitAtGaps` and `NothingIsLeftOut`.

Three theorems are about sums. `SumFunction` of the community modules recurs over a function
that chooses the elements in some order; `AddsExists` and `AddsAgree` show by a least
counterexample that such a function exists and is the only one, `SumFirst` that the order
does not matter, `SumUnion` and `SumByKey` that a sum may be taken by parts or by a key.
For `TimeAddsUp` the instants a case covers are split by the events, and by the blocks of
the sweep, that cover them (`CountPieces`, `ActiveTime`, `UnionTime`), and the elapsed time
telescopes along the line of its events (`ElapsedTime`). For `ResultsAgree` the steps
into an activity are matched with its events that begin no case, the steps out of it
with those that end none (`HeadsCount`, `InIsOut`), the steps of a variant with all
positions but the last (`StepsAddUp`); the scores and the bottleneck are inequalities
between such sums. For `EditsKeepTime` the events with an event and those with its two
parts are compared: they begin a session at the same instants (`JoinedOpens`), every other
session is untouched (`OthersStay`), the one that holds the parts is a case exactly if the
one that holds the whole is (`JoinedOverlaps`, `JoinedCases`), and an event without a case
is one by itself (`AloneStay`, `AloneUse`); the sums then differ in the exchanged terms only
(`JoinedUse`, `JoinedRaw`). `Exchanged` says what a commit that hashes every row again
leaves of the rows it does not exchange.

**Only model-checked.** Liveness (`AgentWindsDown`, `StopCompletes`, `Recovers`,
`Settles`): it needs fairness and ENABLED, which the provers do not
handle. No module declares a RECURSIVE operator.

## 6. What the checks found

* `stale_refresh`: a revision-bound write drops the cached view before it loads and
  commits; a refresh in between caches the old rows again and nothing drops them,
  contrary to the comment at `storage.py:245`.
* `torn_snapshot`: a snapshot can hold a label whose event it does not contain,
  contrary to `storage.py:125`. Writes based on it are refused.
* `restart_refused`: the legacy project can be deleted, after which `default_store()`
  cannot open on any later start.
* `stop_legacy`: events of the legacy project advance the revision through
  `default_store()`, the stop audits through a cached view that is stale from then on,
  and every retry conflicts: the trap the comment at `app.py:1790` means to avoid.
  An edit or an eviction that drops the view frees the user, and makes the copy
  in `default_store()` stale instead, so that no further event is accepted.
* `double_stop`: the second of two overlapping stops finalises a recording started in
  between and forgets its running agent.

Also seen while modelling, not claimed by any text and so not runs: with commits of
unknown outcome the audit row may count less than was stored (an event that was
written although its commit failed is not counted; a late post stored between an
audit commit reported as failed and the retried stop comes after the row), and an event
the user removed can come back (it was written although its commit failed, so its
sequence was not consumed, and the agent's repeated post finds neither the sequence nor the
event); the row counts what was recorded, so after edits it may name more events than the
timeline still shows; a deletion
sent without a revision, which the API accepts and the desktop never sends, can clear
the events of a recording that started meanwhile and leave their row; a timed-out post that
was accepted blocks the queue behind it for the rest of the recording, since its
sequence is refused as a duplicate; a deletion that conflicts after stopping a
recording leaves it without an audit row; a stop that wakes up after a deletion of
another request has cleared the events it counted still writes a row that claims them,
because its second section (`recording.py:278-298`) asks neither whether the session it
finds is the one it stopped nor whether it is still active (the cause of `double_stop`;
it takes deletions in two projects, or three clients and a commit of unknown outcome, and
showed when `AuditNeverOverstates` turned out not to be inductive); `writes_blocked` is never reset.

Of the timeline: an ActivityWatch row is identified by its position over all buckets
(`importers.py:332-366`), so a new observation in an earlier bucket renumbers the later
ones, and the modes `append` and `skip_duplicates` store those a second time. The
identifiers a split derives collide when the same source is imported, split, imported
and split again; the commit is then refused. A split of an event whose duration exceeds
its interval can give a second part of no length, the merge of an event with one nested
in it shortens the case, and an edit, review or split of one of two identical rows turns
the pair into a conflict; `EditsKeepTime` names the conditions. A merged application
"X + Y" is not matched by an exclusion of X. An activity whose origin is a hidden window
title (rows of older releases) reverts to "Unlabeled activity" after it was edited.
`delete_migration_backups` is never called.

Of the desktop: one failed probe of a proxied request stops the sidecar, while `status`
tolerates three; the marker stays and the next start clears it. `shutdown` without a child
removes the marker even if it names a sidecar that is still alive; `Owned` holds because
that sidecar watches its parent. A child that exited before it was ready has been waited
for, so that `graceful_stop` fails and its marker stays. `verified_runtime_secrets` sends
SIGTERM to a child it has already waited for, whose identifier may be another process's
by then. A crash between `spawn_sidecar` and `write_marker` leaves a sidecar no marker
names. A deletion or an import the desktop gave up on may still happen, and the user is
told that it failed.

## 7. Abstractions and limits

ProjectStore: opening `default_store()` is one step and its initialisation race is not
modelled; seeding ends before the first recorded event; there are enough `Slot`s for
all threads and views; a catalogue transaction that fails changes nothing and is left
out; SQLite's isolation and durability are assumed; memory is only read under the
mutation lock. Timeline edits are reduced to dropping or labelling one event.

Recording: looking up a view and committing an event is one action (a commit that
slips in between is a refusal, which "write" covers); a stop or deletion resolves its
store in the same step as its first section under the lock, and a pause or resume its view;
the two status checks of
`/data/delete` are one step; a deletion carries a revision; a view asked for another project loads afresh;
an edit removes any set of events and sets anew whether the settings exclude something
the agent observes: of what it does in detail, parts and merged events get identifiers no
segment has and so play no role here (Timeline has them), and which application is
excluded is not told apart, so while the settings exclude one a segment may be left out
or stored; heartbeats, logs, TTL and rate arithmetic are left out, a
refusal for any of them is "limit"; `shutdown()` at process exit and a `Popen` that
fails are left out; `writes_blocked` is left to ProjectStore; view eviction is left to
ProjectStore. `agent[i].project`, `skipped` and `taken` are history that no action reads.

Migration: the rewrite of each version is one uncommitted step, `raw`, `remnant` and
`clean` stand for what pages hold; backups of older releases, file permissions and the
checks of the copy are left out (a failing one is `TransactionFails`).

Timeline: an operation is one step, for ProjectStore covers copies, transactions and
their faults; text is a term, masking is `Redact` on the fields references are made from,
and the words the automation score looks for are parameters; an interval that cannot be
parsed is `timed = FALSE`; `origin` is the provenance `correlation_for` reads, and its
fallbacks for rows of older releases that state none (inferred for identifiers the
importer made up, else observed with medium confidence) are left out: every row the
importers and the recorder make states one; date ranges of a query, the invalid duration, previews and column
mapping are left out; where the code orders equal keys by identifier, any order may come
out; a unit of time is a second.

Runtime and Desktop: a `graceful_stop` that fails to kill, poisoned mutexes, exports,
previews and the table of proxied operations are left out; a missing or modified binary is
`StartFails`, with a restart for the reinstallation; the single-instance plugin is taken at
its word; a repair's last two critical sections are one step, so that the end of a repair is the
end of its `initialize`; random numbers never fail once an import was staged (a failure
there leaves the snapshot to the sweep of the next start); the native dialog is the
beginning of `Confirm`; the API's part of an import or deletion is its commit or
refusal, which ProjectStore and Recording detail.

Not modelled: the dashboard's refresh and other rendering, the LLM handoff, reports and
exports (pure functions of a snapshot), parsing and masking of text, layout, scripts.

## 8. Plan

Order: what can lose or mislead user data first.

1. Done: `ProjectData`, `Workspace`, `ProjectStore`, `ProjectStoreProofs`; `Recording`;
   `Startup`, `Migration`; `Analysis`, `Timeline`; `Runtime`, `Desktop`.
2. Done: the proofs of section 5.
3. Done: the proofs about sums, `TimeAddsUp`, `ResultsAgree`, `EditsKeepTime`.
4. The first opening of `default_store` by two requests; exports of the desktop.

Runs are kept few: each module or composition has one passing run, storage and recording
two.
