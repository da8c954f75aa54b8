------------------------------- MODULE Desktop -------------------------------
(***************************************************************************)
(* What the desktop process does with its runtime: file imports through    *)
(* private snapshots (choose_import_file, import_selected_file) and the    *)
(* deletion of all data after a native confirmation, with the challenges   *)
(* of the API (auth.py).  Composed with Runtime: sidecars die with their   *)
(* challenges and requests, shutdown and failed checks drop the scopes,    *)
(* and each start empties the staging directory.                           *)
(*                                                                         *)
(* The lifetimes (300 s for a scope, 60 s for a challenge) end at any      *)
(* time, the timeouts of the desktop likewise.                             *)
(***************************************************************************)
EXTENDS Runtime

CONSTANTS
    File,        \* bound: files the user chooses, each for one handle
    Deletion,    \* bound: deletions he confirms, each with one challenge
    Copy         \* bound: how often a request for a deletion is sent

ASSUME DesktopAssumption == File \cap Deletion = {}

VARIABLES
    scopes,      \* RuntimeInner.file_scopes
    staged,      \* snapshots in the import staging directory
    lapsed,      \* scopes and challenges whose time is over
    file,        \* of each file, what the desktop does: "new", "staging", ...
    deletion,    \* of each deletion: "new", "asking", "sending", ...
    challenges,  \* DeleteChallengeStore._entries, each with its sidecar
    requests,    \* what sidecars work on: [for, copy, in, at, seen]
    imported,    \* how often each file was imported
    cleared      \* how often each deletion cleared the project

dvars == <<scopes, staged, lapsed, file, deletion, challenges, requests, imported, cleared>>
deskvars == <<vars, dvars>>

DesktopInit ==
    /\ Init
    /\ scopes = {} /\ staged = {} /\ lapsed = {}
    /\ file = [f \in File |-> "new"] /\ deletion = [d \in Deletion |-> "new"]
    /\ challenges = {} /\ requests = {}
    /\ imported = [f \in File |-> 0] /\ cleared = [d \in Deletion |-> 0]

Goes(f, at) == file' = [file EXCEPT ![f] = at]
Turns(d, at) == deletion' = [deletion EXCEPT ![d] = at]

\* verified_runtime_secrets succeeds; its failures are ProxyRequest.
Verified == desktop # "down" /\ inner.state = "ready" /\ Proves
Serves(s) == life[s] = "serving"
Request(x, copy, s, at) == [for |-> x, copy |-> copy, in |-> s, at |-> at, seen |-> lapsed]

-----------------------------------------------------------------------------
(* Imports.                                                                 *)

\* prune_file_scopes, under the mutex, with the files of what it drops.
Kept == scopes \ lapsed
Pruned(files) == files \ (scopes \cap lapsed)

\* The file is copied to a snapshot while no lock is held.
Stage(f) ==
    /\ desktop = "up" /\ inner.paths /\ file[f] = "new"
    /\ Goes(f, "staging") /\ staged' = staged \cup {f}
    /\ UNCHANGED <<vars, scopes, lapsed, deletion, challenges, requests, imported, cleared>>

Choose(f) ==
    /\ file[f] = "staging" /\ Goes(f, "chosen")
    /\ scopes' = Kept \cup {f} /\ staged' = Pruned(staged)
    /\ UNCHANGED <<vars, lapsed, deletion, challenges, requests, imported, cleared>>

\* The scope is taken before the API is asked.
BeginImport(f) ==
    /\ desktop # "down" /\ f \in Kept /\ Goes(f, "importing")
    /\ scopes' = Kept \ {f} /\ staged' = Pruned(staged)
    /\ UNCHANGED <<vars, lapsed, deletion, challenges, requests, imported, cleared>>

SendImport(f) ==
    /\ file[f] = "importing" /\ f \in staged /\ Verified
    /\ Goes(f, "waiting")
    /\ requests' = requests \cup {Request(f, 1, inner.child, "arrived")}
    /\ UNCHANGED <<vars, scopes, staged, lapsed, deletion, challenges, imported, cleared>>

\* The API reads the snapshot and commits, or finds it gone, or fails.
HandleImport(r) ==
    /\ r.for \in File /\ Serves(r.in)
    /\ requests' = requests \ {r}
    /\ imported' \in {imported} \cup
          {[imported EXCEPT ![f] = @ + 1] : f \in {r.for} \cap staged}
    /\ UNCHANGED <<vars, scopes, staged, lapsed, file, deletion, challenges, cleared>>

\* Mutant: the snapshot is removed if the API has answered.
EndImportAnswered(f) ==
    /\ file[f] \in {"importing", "waiting"} /\ Goes(f, "done")
    /\ staged' = IF imported[f] > 0 THEN staged \ {f} ELSE staged
    /\ UNCHANGED <<vars, scopes, lapsed, deletion, challenges, requests, imported, cleared>>

\* The answer comes, or the desktop does not wait for it any longer, or the
\* snapshot or the sidecar could not be verified.
EndImport(f) ==
    /\ file[f] \in {"importing", "waiting"} /\ Goes(f, "done")
    /\ staged' = staged \ {f}
    /\ UNCHANGED <<vars, scopes, lapsed, deletion, challenges, requests, imported, cleared>>

-----------------------------------------------------------------------------
(* Deletions.                                                               *)

Confirm(d) ==
    /\ deletion[d] = "new" /\ desktop = "up" /\ Verified
    /\ Turns(d, "asking")
    /\ requests' = requests \cup {Request(d, 1, inner.child, "challenge")}
    /\ UNCHANGED <<vars, scopes, staged, lapsed, file, challenges, imported, cleared>>

\* issue; the answer takes the desktop on, if it still waits.
Issue(r) ==
    /\ r.at = "challenge" /\ Serves(r.in)
    /\ requests' = requests \ {r}
    /\ challenges' = {c \in challenges : c.in = r.in => c.for \notin lapsed}
                       \cup {[for |-> r.for, in |-> r.in]}
    /\ deletion' = [deletion EXCEPT ![r.for] = IF @ = "asking" THEN "sending" ELSE @]
    /\ UNCHANGED <<vars, scopes, staged, lapsed, file, imported, cleared>>

\* The request for the deletion, to the sidecar that issued the challenge; a
\* client of the API may send it again.
Send(d, copy, s) ==
    /\ Serves(s)
    /\ \/ /\ copy = 1 /\ deletion[d] = "sending" /\ Turns(d, "waiting")
          /\ [for |-> d, in |-> s] \in challenges
       \/ /\ copy > 1 /\ deletion[d] \in {"waiting", "failed", "done"} /\ UNCHANGED deletion
    /\ ~\E r \in requests : r.for = d /\ r.copy = copy
    /\ requests' = requests \cup {Request(d, copy, s, "arrived")}
    /\ UNCHANGED <<vars, scopes, staged, lapsed, file, challenges, imported, cleared>>

Answers(r, at) ==
    deletion' = [deletion EXCEPT ![r.for] = IF @ = "waiting" /\ r.copy = 1 THEN at ELSE @]

\* The clock was read when the request came, before the lock was taken.
Valid(r) == [for |-> r.for, in |-> r.in] \in challenges /\ r.for \notin r.seen

\* Mutant: a challenge stays valid until its time is over.
ConsumeTimed(r) ==
    /\ r.at = "arrived" /\ r.for \in Deletion /\ Serves(r.in)
    /\ requests' = (requests \ {r}) \cup
                      (IF Valid(r) THEN {[r EXCEPT !.at = "accepted"]} ELSE {})
    /\ IF Valid(r) THEN UNCHANGED deletion ELSE Answers(r, "failed")
    /\ UNCHANGED <<vars, scopes, staged, lapsed, file, challenges, imported, cleared>>

\* consume: what is over is dropped, and what is accepted as well.
Consume(r) ==
    /\ r.at = "arrived" /\ r.for \in Deletion /\ Serves(r.in)
    /\ challenges' = {c \in challenges : c.in = r.in =>
                         c.for \notin r.seen /\ ~(Valid(r) /\ c.for = r.for)}
    /\ requests' = (requests \ {r}) \cup
                      (IF Valid(r) THEN {[r EXCEPT !.at = "accepted"]} ELSE {})
    /\ IF Valid(r) THEN UNCHANGED deletion ELSE Answers(r, "failed")
    /\ UNCHANGED <<vars, scopes, staged, lapsed, file, imported, cleared>>

\* The recording is stopped and the project cleared, or that is refused.
Clear(r) ==
    /\ r.at = "accepted" /\ Serves(r.in)
    /\ requests' = requests \ {r}
    /\ \/ /\ cleared' = [cleared EXCEPT ![r.for] = @ + 1] /\ Answers(r, "clearing")
       \/ /\ UNCHANGED cleared /\ Answers(r, "failed")
    /\ UNCHANGED <<vars, scopes, staged, lapsed, file, challenges, imported>>

\* clear_transient_file_data_after_delete: the scopes under the mutex, then the
\* staging directories.
ClearScopes(d) ==
    /\ deletion[d] = "clearing" /\ Turns(d, "sweeping")
    /\ scopes' = {} /\ staged' = staged \ scopes
    /\ UNCHANGED <<vars, lapsed, file, challenges, requests, imported, cleared>>

Sweep(d) ==
    /\ deletion[d] = "sweeping" /\ Turns(d, "done") /\ staged' = {}
    /\ UNCHANGED <<vars, scopes, lapsed, file, challenges, requests, imported, cleared>>

\* After three seconds, while the API may wait eight for the agent.
GiveUp(d) ==
    /\ deletion[d] \in {"asking", "sending", "waiting"} /\ Turns(d, "failed")
    /\ UNCHANGED <<vars, scopes, staged, lapsed, file, challenges, requests, imported, cleared>>

Lapse(x) ==
    /\ x \in scopes \cup {c.for : c \in challenges} /\ x \notin lapsed
    /\ lapsed' = lapsed \cup {x}
    /\ UNCHANGED <<vars, scopes, staged, file, deletion, challenges, requests, imported, cleared>>

-----------------------------------------------------------------------------
(* The steps of the runtime.                                                *)

\* A sidecar that ends takes its challenges and requests with it.
OfTheLiving(S) == {x \in S : life'[x.in] # "gone"}
Outlived == /\ challenges' = OfTheLiving(challenges) /\ requests' = OfTheLiving(requests)
            /\ UNCHANGED <<lapsed, imported, cleared>>

Over(at) == IF at \in {"new", "done"} THEN at ELSE "failed"

\* RuntimePaths::prepare empties the staging directories.
Prepared == (Recover \/ RecoverRefuses) /\ staged' = {} /\ UNCHANGED <<scopes, file, deletion>>

\* clear_file_scopes.
Dropped == /\ ProxyRequest \/ Quit
           /\ scopes' = {} /\ staged' = staged \ scopes /\ UNCHANGED <<file, deletion>>

Ended == /\ Leave \/ Crash
         /\ scopes' = {} /\ UNCHANGED staged
         /\ file' = [f \in File |-> Over(file[f])]
         /\ deletion' = [d \in Deletion |-> Over(deletion[d])]

Elsewhere ==
    /\ \/ Launch \/ Check \/ Mark \/ Ready \/ NeverReady \/ StoreChild
       \/ PrepareFails \/ StartFails \/ MarkFails \/ Poll \/ Repair
       \/ \E s \in Sidecar : Spawn(s) \/ StopCondemned(s) \/ Bind(s) \/ Watch(s) \/ Die(s)
       \/ Reuse \/ Listen \/ Unlisten
    /\ UNCHANGED <<scopes, staged, file, deletion>>

RuntimeStep == (Prepared \/ Dropped \/ Ended \/ Elsewhere) /\ Outlived

DesktopNext ==
    \/ RuntimeStep
    \/ \E f \in File : \/ Stage(f) \/ Choose(f) \/ BeginImport(f) \/ SendImport(f)
                       \/ EndImport(f) \/ Lapse(f)
    \/ \E d \in Deletion : \/ Confirm(d) \/ ClearScopes(d) \/ Sweep(d) \/ GiveUp(d) \/ Lapse(d)
                           \/ \E copy \in Copy, s \in Sidecar : Send(d, copy, s)
    \/ \E r \in requests : HandleImport(r) \/ Issue(r) \/ Consume(r) \/ Clear(r)

DesktopSpec == DesktopInit /\ [][DesktopNext]_deskvars /\ Fairness

-----------------------------------------------------------------------------
DesktopTypeOK ==
    /\ TypeOK
    /\ {scopes, staged} \subseteq SUBSET File /\ lapsed \subseteq File \cup Deletion
    /\ file \in [File -> {"new", "staging", "chosen", "importing", "waiting", "done", "failed"}]
    /\ deletion \in [Deletion -> {"new", "asking", "sending", "waiting", "clearing",
                                  "sweeping", "done", "failed"}]
    /\ challenges \subseteq [for : Deletion, in : Alive]
    /\ \A r \in requests : r.for \in File \cup Deletion /\ r.in \in Alive

(* Each chosen file is imported at most once and each confirmed deletion     *)
(* clears the project at most once, however answers, timeouts, repeated      *)
(* requests and the ends of lifetimes fall, and a deletion reported as done  *)
(* has cleared it.                                                           *)
ActsOnce ==
    /\ \A f \in File : imported[f] =< 1
    /\ \A d \in Deletion : /\ cleared[d] =< 1
                           /\ deletion[d] \in {"clearing", "sweeping", "done"} => cleared[d] = 1

(* While the desktop runs, every private snapshot of a user's file belongs   *)
(* to a scope or to an import that will remove it.                           *)
NothingLeftBehind ==
    desktop = "up" /\ inner.paths =>
        staged \subseteq scopes \cup
            {f \in File : file[f] \in {"staging", "importing", "waiting"}}
=============================================================================
