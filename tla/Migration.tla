----------------------------- MODULE Migration -----------------------------
(***************************************************************************)
(* How a process opens the local database (migrations.py, called by        *)
(* EventStore.__post_init__): under a file lock it inspects the schema,    *)
(* loads or creates the pseudonym key, rewrites an older database in one   *)
(* SQLite transaction, purges the raw values the rewrite left in the files,*)
(* and, the lock released, loads the key again and verifies it.            *)
(*                                                                         *)
(* The database is kept as what SQLite would answer (db) and as what the   *)
(* two files hold (main, wal), because a committed rewrite is not yet gone *)
(* from the disk.  Every step that reaches the disk is an action of its    *)
(* own, and the process may die or fail between any two of them.           *)
(***************************************************************************)
EXTENDS Naturals

CONSTANTS
    Process,    \* processes that open the data directory
    Key,        \* pseudonym keys secrets.token_bytes may return
    None,       \* no key, no file, no owner
    Partial,    \* a key file whose 32 bytes are not all written
    Latest,     \* CURRENT_SCHEMA_VERSION
    Fault,      \* faults that may happen: "crash", "step", "busy", "disk", "key"
    MaxFaults   \* bound: how many of them happen

(* raw: captured values in live rows; remnant: only in pages no row uses.  *)
Images == {"raw", "remnant", "clean"}

ASSUME MigrationAssumption ==
    /\ None \notin Process \cup Key \cup {Partial} \cup Images
    /\ Partial \notin Key
    /\ Latest \in Nat \ {0}
    /\ MaxFaults \in Nat

VARIABLES
    db,        \* schema version, key verifier, privacy marker, keys its references were made with
    main,      \* what the pages of the database file hold
    wal,       \* the committed image that waits in the WAL, and whether old frames are in it
    mode,      \* PRAGMA journal_mode
    keyFile,   \* .opsmineflow-pseudonym-v1.key
    owner,     \* the process that holds .opsmineflow-migration.lock
    pc,        \* [Process -> where it stands]
    key,       \* [Process -> the key it read or made]
    ver,       \* [Process -> the schema version inside its transaction]
    lost,      \* whether somebody else removed or replaced the key file
    faults     \* faults so far

vars == <<db, main, wal, mode, keyFile, owner, pc, key, ver, lost, faults>>
files == <<db, main, wal, mode>>

(* A database of a newer release, or one with an unknown set of tables, an *)
(* unknown layout or a ledger that does not fit its version.               *)
Unsupported == Latest + 1

Inside == {"begin", "verify", "take", "create", "write", "apply", "commit", "after",
           "checkpoint", "vacuum", "truncate", "mark", "settle", "wal"}
Places == Inside \cup {"down", "refused", "flock", "reload", "check", "open"}

(* What the database reads as: the newest committed image.                 *)
Stored == IF wal.image = None THEN main ELSE wal.image
EmptyWal == [image |-> None, old |-> FALSE]

(* Raw captured values can be read from one of the files.                  *)
Exposed == main # "clean" \/ wal.old \/ Stored # "clean"

Init ==
    /\ db \in [version : (0..Unsupported) \ {Latest}, verifier : {None}, cleaned : {FALSE}, keys : {{}}]
    /\ main \in {"raw", "clean"}
    /\ mode \in {"delete", "wal"}
    /\ wal \in IF mode = "wal" THEN [image : {None}, old : BOOLEAN] ELSE {EmptyWal}
    /\ keyFile \in Key \cup {None}
    /\ owner = None
    /\ pc = [p \in Process |-> "down"]
    /\ key = [p \in Process |-> None]
    /\ ver = [p \in Process |-> 0]
    /\ lost = FALSE
    /\ faults = 0

-----------------------------------------------------------------------------
(* Steps of a process and how they end.                                    *)

Goto(p, place) == pc' = [pc EXCEPT ![p] = place]

(* The exception leaves migrate_database: the transaction is rolled back,  *)
(* the file lock released.                                                 *)
Abandon(p, place) ==
    /\ Goto(p, place)
    /\ key' = [key EXCEPT ![p] = None]
    /\ ver' = [ver EXCEPT ![p] = 0]
    /\ owner' = IF owner = p THEN None ELSE owner

Refuse(p) == Abandon(p, "refused")

Happens(fault) ==
    /\ fault \in Fault
    /\ faults < MaxFaults
    /\ faults' = faults + 1

(* A commit writes its pages to the WAL or, without one, to the file.      *)
Committed(image) ==
    IF mode = "wal" THEN wal' = [wal EXCEPT !.image = image] /\ UNCHANGED main
                    ELSE main' = image /\ UNCHANGED wal

Start(p) ==
    /\ pc[p] \in {"down", "refused"}
    /\ Goto(p, "flock")
    /\ UNCHANGED <<files, keyFile, owner, key, ver, lost, faults>>

Acquire(p) ==
    /\ pc[p] = "flock"
    /\ owner = None
    /\ owner' = p
    /\ Goto(p, "begin")
    /\ UNCHANGED <<files, keyFile, key, ver, lost, faults>>

(* Mutant: a newer schema is not refused.                                  *)
InspectAnything(p) ==
    /\ pc[p] = "begin"
    /\ Goto(p, IF db.version = Latest THEN "verify" ELSE "take")
    /\ ver' = [ver EXCEPT ![p] = db.version]
    /\ UNCHANGED <<files, keyFile, owner, key, lost, faults>>

(* The read-only look at the schema and the one inside BEGIN IMMEDIATE     *)
(* refuse the same databases; neither has written anything.                *)
Inspect(p) ==
    /\ pc[p] = "begin"
    /\ IF db.version = Unsupported
       THEN Refuse(p)
       ELSE /\ Goto(p, IF db.version = Latest THEN "verify" ELSE "take")
            /\ ver' = [ver EXCEPT ![p] = db.version]
            /\ UNCHANGED <<owner, key>>
    /\ UNCHANGED <<files, keyFile, lost, faults>>

Matches(k) == k \in Key /\ k = db.verifier

(* Mutant: a database whose purge was interrupted is refused.              *)
VerifyKeyPurged(p) ==
    /\ pc[p] = "verify"
    /\ IF Matches(keyFile) /\ db.cleaned
       THEN /\ Goto(p, "after")
            /\ key' = [key EXCEPT ![p] = keyFile]
            /\ UNCHANGED <<owner, ver>>
       ELSE Refuse(p)
    /\ UNCHANGED <<files, keyFile, lost, faults>>

(* Mutant: a current database is taken to be a purged one.                 *)
VerifyKeyOnly(p) ==
    /\ pc[p] = "verify"
    /\ IF Matches(keyFile)
       THEN /\ Goto(p, "wal")
            /\ key' = [key EXCEPT ![p] = keyFile]
            /\ UNCHANGED <<owner, ver>>
       ELSE Refuse(p)
    /\ UNCHANGED <<files, keyFile, lost, faults>>

(* A current database: its key must be there and match, none is created.   *)
VerifyKey(p) ==
    /\ pc[p] = "verify"
    /\ IF Matches(keyFile)
       THEN /\ Goto(p, "after")
            /\ key' = [key EXCEPT ![p] = keyFile]
            /\ UNCHANGED <<owner, ver>>
       ELSE Refuse(p)
    /\ UNCHANGED <<files, keyFile, lost, faults>>

(* An older database: a key file left by an earlier start is used as it is,*)
(* one of the wrong length is refused, a missing one is made.              *)
TakeKey(p) ==
    /\ pc[p] = "take"
    /\ CASE keyFile = None    -> Goto(p, "create") /\ UNCHANGED <<owner, key, ver>>
         [] keyFile = Partial -> Refuse(p)
         [] OTHER             -> /\ Goto(p, "apply")
                                 /\ key' = [key EXCEPT ![p] = keyFile]
                                 /\ UNCHANGED <<owner, ver>>
    /\ UNCHANGED <<files, keyFile, lost, faults>>

(* O_CREAT | O_EXCL: a file that appeared meanwhile is read instead.       *)
CreateKeyFile(p) ==
    /\ pc[p] = "create"
    /\ IF keyFile = None
       THEN keyFile' = Partial /\ Goto(p, "write")
       ELSE Goto(p, "take") /\ UNCHANGED keyFile
    /\ UNCHANGED <<files, owner, key, ver, lost, faults>>

(* Mutant: the key is used before it is in the file.                       *)
WriteKeyUnsynced(p) ==
    /\ pc[p] = "write"
    /\ \E k \in Key \ ({keyFile, db.verifier} \cup {key[q] : q \in Process}) :
           key' = [key EXCEPT ![p] = k]
    /\ Goto(p, "apply")
    /\ UNCHANGED <<files, keyFile, owner, ver, lost, faults>>

(* The key is random: nobody has used it.  It reaches the file this        *)
(* process created, which may have been replaced under its name.           *)
WriteKey(p) ==
    /\ pc[p] = "write"
    /\ \E k \in Key \ ({keyFile, db.verifier} \cup {key[q] : q \in Process}) :
           /\ key' = [key EXCEPT ![p] = k]
           /\ keyFile' = IF keyFile = Partial THEN k ELSE keyFile
    /\ Goto(p, "apply")
    /\ UNCHANGED <<files, owner, ver, lost, faults>>

(* The key cannot be written: the file stays behind.                       *)
WriteKeyFails(p) ==
    /\ pc[p] = "write"
    /\ Happens("disk")
    /\ Refuse(p)
    /\ UNCHANGED <<files, keyFile, lost>>

(* The next migration, its ledger row and its user_version, uncommitted.   *)
Apply(p) ==
    /\ pc[p] = "apply"
    /\ ver[p] < Latest
    /\ ver' = [ver EXCEPT ![p] = @ + 1]
    /\ Goto(p, IF ver'[p] = Latest THEN "commit" ELSE "apply")
    /\ UNCHANGED <<files, keyFile, owner, key, lost, faults>>

(* The database is locked or fails the integrity check, a row cannot be    *)
(* rewritten, a copy does not compare equal: the transaction is undone.    *)
TransactionFails(p) ==
    /\ pc[p] \in {"begin", "verify", "apply", "commit"}
    /\ Happens("step")
    /\ Refuse(p)
    /\ UNCHANGED <<files, keyFile, lost>>

Commit(p) ==
    /\ pc[p] = "commit"
    /\ db' = [version |-> ver[p], verifier |-> key[p], cleaned |-> FALSE, keys |-> {key[p]}]
    /\ Committed(IF Stored = "raw" THEN "remnant" ELSE Stored)
    /\ Goto(p, "after")
    /\ UNCHANGED <<mode, keyFile, owner, key, ver, lost, faults>>

(* Every start with a current database asks the marker, so a purge that    *)
(* was interrupted is done by the next one.                                *)
AskMarker(p) ==
    /\ pc[p] = "after"
    /\ Goto(p, IF db.cleaned THEN "wal" ELSE "checkpoint")
    /\ UNCHANGED <<files, keyFile, owner, key, ver, lost, faults>>

-----------------------------------------------------------------------------
(* The privacy cleanup.                                                    *)

(* _configure_wal: WAL mode, then a checkpoint that truncates the WAL.     *)
Truncated ==
    /\ mode' = "wal"
    /\ main' = Stored
    /\ wal' = EmptyWal

(* Another connection keeps the checkpoint from finishing.                 *)
Blocked ==
    /\ Happens("busy")
    /\ mode' \in {mode, "wal"}
    /\ UNCHANGED <<main, wal>>

NextPlace(place) ==
    CASE place = "checkpoint" -> "vacuum"
      [] place = "truncate"   -> "mark"
      [] place = "settle"     -> "reload"
      [] place = "wal"        -> "reload"

(* Leaving migrate_database releases the lock.                             *)
Leave(p, place) ==
    /\ Goto(p, place)
    /\ owner' = IF place = "reload" THEN None ELSE owner

ConfigureWal(p) ==
    /\ pc[p] \in {"checkpoint", "truncate", "settle", "wal"}
    /\ Truncated
    /\ Leave(p, NextPlace(pc[p]))
    /\ UNCHANGED <<db, keyFile, key, ver, lost, faults>>

(* During the cleanup a checkpoint that fails refuses the start; once the  *)
(* database is marked clean it is only a warning in the report.            *)
ConfigureWalFails(p) ==
    /\ pc[p] \in {"checkpoint", "truncate", "settle", "wal"}
    /\ Blocked
    /\ IF pc[p] = "wal" THEN Leave(p, "reload") /\ UNCHANGED <<key, ver>>
                        ELSE Refuse(p)
    /\ UNCHANGED <<db, keyFile, lost>>

(* Mutant: marked clean before the WAL was truncated.                      *)
VacuumThenMark(p) ==
    /\ pc[p] = "vacuum"
    /\ Committed("clean")
    /\ Goto(p, "mark")
    /\ UNCHANGED <<db, mode, keyFile, owner, key, ver, lost, faults>>

(* VACUUM rebuilds the file without free pages.                            *)
Vacuum(p) ==
    /\ pc[p] = "vacuum"
    /\ Committed("clean")
    /\ Goto(p, "truncate")
    /\ UNCHANGED <<db, mode, keyFile, owner, key, ver, lost, faults>>

(* Also a marker that cannot be committed.                                 *)
VacuumFails(p) ==
    /\ pc[p] \in {"vacuum", "mark"}
    /\ Happens("disk")
    /\ Refuse(p)
    /\ UNCHANGED <<files, keyFile, lost>>

MarkCleaned(p) ==
    /\ pc[p] = "mark"
    /\ db' = [db EXCEPT !.cleaned = TRUE]
    /\ Committed(Stored)
    /\ Goto(p, "settle")
    /\ UNCHANGED <<mode, keyFile, owner, key, ver, lost, faults>>

-----------------------------------------------------------------------------
(* load_verified_pseudonym_key, after the lock was released: the key it    *)
(* verifies is the one it returns, whatever the file holds by then.        *)

Reload(p) ==
    /\ pc[p] = "reload"
    /\ IF keyFile \in Key
       THEN Goto(p, "check") /\ key' = [key EXCEPT ![p] = keyFile] /\ UNCHANGED <<owner, ver>>
       ELSE Refuse(p)
    /\ UNCHANGED <<files, keyFile, lost, faults>>

(* Mutant: the file is read again after its key was verified.              *)
CheckFile(p) ==
    /\ pc[p] = "check"
    /\ IF Matches(keyFile) THEN Goto(p, "open") /\ UNCHANGED <<owner, key, ver>>
                           ELSE Refuse(p)
    /\ UNCHANGED <<files, keyFile, lost, faults>>

Check(p) ==
    /\ pc[p] = "check"
    /\ IF Matches(key[p]) THEN Goto(p, "open") /\ UNCHANGED <<owner, key, ver>>
                          ELSE Refuse(p)
    /\ UNCHANGED <<files, keyFile, lost, faults>>

(* A commit of the open store: references are made with the key in memory. *)
Write(p) ==
    /\ pc[p] = "open"
    /\ db' = [db EXCEPT !.keys = @ \cup {key[p]}]
    /\ Committed(Stored)
    /\ UNCHANGED <<mode, keyFile, owner, pc, key, ver, lost, faults>>

Close(p) ==
    /\ pc[p] = "open"
    /\ Abandon(p, "down")
    /\ UNCHANGED <<files, keyFile, lost, faults>>

-----------------------------------------------------------------------------
(* The environment.                                                        *)

(* The process dies: the lock goes with it, an open transaction is undone. *)
Crash(p) ==
    /\ pc[p] # "down"
    /\ Happens("crash")
    /\ Abandon(p, "down")
    /\ UNCHANGED <<files, keyFile, lost>>

(* SQLite's own checkpoint, when a commit makes the WAL long or the last   *)
(* connection closes: the frames stay in the file.                         *)
Checkpoint ==
    /\ wal.image # None
    /\ main' = wal.image
    /\ wal' = [wal EXCEPT !.image = None]
    /\ UNCHANGED <<db, mode, keyFile, owner, pc, key, ver, lost, faults>>

(* The user removes the key file or puts another one in its place.         *)
TouchKey ==
    /\ Happens("key")
    /\ keyFile' \in (Key \cup {None}) \ {keyFile}
    /\ lost' = TRUE
    /\ UNCHANGED <<files, owner, pc, key, ver>>

Step(p) ==
    \/ Acquire(p) \/ Inspect(p) \/ VerifyKey(p) \/ TakeKey(p) \/ CreateKeyFile(p) \/ WriteKey(p)
    \/ Apply(p) \/ Commit(p) \/ AskMarker(p) \/ ConfigureWal(p) \/ Vacuum(p) \/ MarkCleaned(p)
    \/ Reload(p) \/ Check(p)

Fails(p) ==
    WriteKeyFails(p) \/ TransactionFails(p) \/ ConfigureWalFails(p) \/ VacuumFails(p) \/ Crash(p)

Next ==
    \/ \E p \in Process : Start(p) \/ Step(p) \/ Write(p) \/ Close(p) \/ Fails(p)
    \/ Checkpoint
    \/ TouchKey

Spec == Init /\ [][Next]_vars

(* A process that has begun to open the database goes on, and the user     *)
(* starts the app again when it was refused or died.                       *)
Fairness == \A p \in Process : WF_vars(Step(p)) /\ WF_vars(Start(p))

FairSpec == Spec /\ Fairness

-----------------------------------------------------------------------------
(* Properties.                                                             *)

TypeOK ==
    /\ db \in [version : 0..Unsupported, verifier : Key \cup {None}, cleaned : BOOLEAN,
               keys : SUBSET Key]
    /\ main \in Images
    /\ wal \in [image : Images \cup {None}, old : BOOLEAN]
    /\ mode \in {"delete", "wal"}
    /\ keyFile \in Key \cup {None, Partial}
    /\ owner \in Process \cup {None}
    /\ pc \in [Process -> Places]
    /\ key \in [Process -> Key \cup {None}]
    /\ ver \in [Process -> 0..Latest]
    /\ lost \in BOOLEAN
    /\ faults \in 0..MaxFaults

(* PRIVACY_SECURITY.md:75-77 promises ID consistency: every reference ever *)
(* stored in one database was made with one key, the one its verifier      *)
(* stands for, whoever opened it, whatever became of the key file.         *)
OneKeyPerDatabase ==
    /\ db.keys \subseteq {db.verifier}
    /\ \A p \in Process : pc[p] = "open" => key[p] = db.verifier

(* _privacy_cleanup_required trusts the marker for ever: once it is set,   *)
(* no file holds a raw captured value, in whatever order checkpoints,      *)
(* crashes and retried cleanups came.                                      *)
CleanedMeansGone == db.cleaned => ~Exposed

(* A rewritten database is never left with a key that was not written out: *)
(* unless somebody else took it away, the file holds the key of the        *)
(* verifier from the commit on.                                            *)
KeyKept == db.version = Latest /\ ~lost => keyFile = db.verifier

(* RUNBOOK.md:102-108: all of the rewrite or nothing, one key, a store     *)
(* only over a purged database, an unknown database left alone.            *)
Promise == INSTANCE Startup WITH
    version <- db.version,
    holder  <- db.verifier,
    exposed <- Exposed,
    users   <- [p \in Process |-> IF pc[p] = "open" THEN key[p] ELSE None]

ImplementsStartup == Promise!Spec

(* Starts that failed or died in between do not shut the user out: as long *)
(* as somebody keeps starting the app, a store is open again and again,    *)
(* unless the key file is lost or was left half-written, or the database   *)
(* is not one this release knows.                                          *)
ShutOut == lost \/ keyFile = Partial \/ db.version = Unsupported

Recovers == []<>(ShutOut \/ \E p \in Process : pc[p] = "open")
=============================================================================
