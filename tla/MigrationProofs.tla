---------------------------- MODULE MigrationProofs ----------------------------
(***************************************************************************)
(* Proofs about Migration for any number of processes, keys, versions and  *)
(* faults: the invariants the run checks, and that Migration implements    *)
(* Startup.                                                                *)
(***************************************************************************)
EXTENDS Migration, TLAPS

Older == {"take", "create", "write", "apply", "commit"}
Purging == {"checkpoint", "vacuum", "truncate", "mark"}
Purged == {"settle", "wal", "reload", "check", "open"}

(* The file lock is held exactly between Acquire and the end of the call.  *)
LockHeld == \A p \in Process : pc[p] \in Inside <=> owner = p

(* What the holder of the lock found in the database is still so.          *)
StillSo ==
    \A p \in Process :
        /\ pc[p] \in Older => db.version < Latest
        /\ pc[p] \in Older \ {"commit"} => ver[p] < Latest
        /\ pc[p] = "commit" => ver[p] = Latest
        /\ pc[p] \in {"verify", "after"} \cup Purging \cup Purged => db.version = Latest
        /\ pc[p] \in Purging => ~db.cleaned
        /\ pc[p] \in Purged => db.cleaned

(* A database has a key from the commit of the rewrite on, and only then.  *)
Rewritten ==
    /\ db.version = Latest <=> db.verifier \in Key
    /\ db.version # Latest => ~db.cleaned /\ wal.image = None /\ db.keys = {}

(* The key a process is about to commit is in the file.                    *)
KeyAtHand ==
    \A p \in Process :
        /\ pc[p] \in {"apply", "commit"} => key[p] \in Key
        /\ pc[p] \in {"apply", "commit"} /\ ~lost => keyFile = key[p]
        /\ pc[p] = "write" /\ ~lost => keyFile = Partial

(* How far a purge has come.                                               *)
PurgeSoFar ==
    /\ mode = "delete" => wal = EmptyWal
    /\ \A p \in Process :
          /\ pc[p] = "truncate" => Stored = "clean"
          /\ pc[p] = "mark" => ~Exposed

IInv ==
    /\ TypeOK
    /\ LockHeld
    /\ StillSo
    /\ Rewritten
    /\ KeyAtHand
    /\ PurgeSoFar
    /\ OneKeyPerDatabase
    /\ CleanedMeansGone
    /\ KeyKept
-----------------------------------------------------------------------------
(* The lock is taken, the database inspected.                              *)
LEMMA StartSteps ==
  ASSUME IInv, NEW p \in Process,
         Start(p) \/ Acquire(p) \/ Inspect(p) \/ VerifyKey(p)
  PROVE  IInv'
<1>1. CASE Start(p)
  <2>1. TypeOK'
    BY <1>1 DEF IInv, TypeOK, Places, files, Goto, Start
  <2>2. LockHeld'
    BY <1>1 DEF IInv, LockHeld, Inside, Goto, Start
  <2>3. StillSo'
    BY <1>1 DEF IInv, StillSo, Older, Purging, Purged, files, Goto, Start
  <2>4. KeyAtHand' /\ KeyKept'
    BY <1>1 DEF IInv, KeyAtHand, KeyKept, files, Goto, Start
  <2>5. Rewritten' /\ PurgeSoFar' /\ OneKeyPerDatabase' /\ CleanedMeansGone'
    BY <1>1 DEF IInv, Rewritten, PurgeSoFar, Exposed, Stored, OneKeyPerDatabase,
       CleanedMeansGone, files, Goto, Start
  <2>6. QED BY <2>1, <2>2, <2>3, <2>4, <2>5 DEF IInv
<1>2. CASE Acquire(p)
  <2>1. TypeOK'
    BY <1>2 DEF IInv, TypeOK, Places, Inside, files, Goto, Acquire
  <2>2. LockHeld'
    BY <1>2, MigrationAssumption DEF IInv, TypeOK, LockHeld, Inside, Goto, Acquire
  <2>3. StillSo'
    BY <1>2 DEF IInv, StillSo, Older, Purging, Purged, files, Goto, Acquire
  <2>4. KeyAtHand' /\ KeyKept'
    BY <1>2 DEF IInv, KeyAtHand, KeyKept, files, Goto, Acquire
  <2>5. Rewritten' /\ PurgeSoFar' /\ OneKeyPerDatabase' /\ CleanedMeansGone'
    BY <1>2 DEF IInv, Rewritten, PurgeSoFar, Exposed, Stored, OneKeyPerDatabase,
       CleanedMeansGone, files, Goto, Acquire
  <2>6. QED BY <2>1, <2>2, <2>3, <2>4, <2>5 DEF IInv
<1>3. CASE Inspect(p)
  <2>1. TypeOK'
    BY <1>3, MigrationAssumption DEF IInv, TypeOK, Places, Inside, Unsupported, files, Goto,
       Refuse, Abandon, Inspect
  <2>2. LockHeld'
    BY <1>3, MigrationAssumption DEF IInv, TypeOK, LockHeld, Inside, Goto, Refuse, Abandon,
       Inspect
  <2>3. StillSo'
    BY <1>3, MigrationAssumption DEF IInv, TypeOK, StillSo, Older, Purging, Purged, Unsupported,
       files, Goto, Refuse, Abandon, Inspect
  <2>4. KeyAtHand' /\ KeyKept'
    BY <1>3 DEF IInv, TypeOK, KeyAtHand, KeyKept, files, Goto, Refuse, Abandon, Inspect
  <2>5. Rewritten' /\ PurgeSoFar' /\ OneKeyPerDatabase' /\ CleanedMeansGone'
    BY <1>3 DEF IInv, TypeOK, Rewritten, PurgeSoFar, Exposed, Stored, OneKeyPerDatabase,
       CleanedMeansGone, files, Goto, Refuse, Abandon, Inspect
  <2>6. QED BY <2>1, <2>2, <2>3, <2>4, <2>5 DEF IInv
<1>4. CASE VerifyKey(p)
  <2>1. TypeOK'
    BY <1>4, MigrationAssumption DEF IInv, TypeOK, Places, Inside, files, Goto, Refuse, Abandon,
       Matches, VerifyKey
  <2>2. LockHeld'
    BY <1>4, MigrationAssumption DEF IInv, TypeOK, LockHeld, Inside, Goto, Refuse, Abandon,
       VerifyKey
  <2>3. StillSo'
    BY <1>4 DEF IInv, TypeOK, StillSo, Older, Purging, Purged, files, Goto, Refuse, Abandon,
       VerifyKey
  <2>4. KeyAtHand' /\ KeyKept'
    BY <1>4 DEF IInv, TypeOK, KeyAtHand, KeyKept, files, Goto, Refuse, Abandon, VerifyKey
  <2>5. Rewritten' /\ PurgeSoFar' /\ OneKeyPerDatabase' /\ CleanedMeansGone'
    BY <1>4 DEF IInv, TypeOK, Rewritten, PurgeSoFar, Exposed, Stored, OneKeyPerDatabase,
       CleanedMeansGone, files, Goto, Refuse, Abandon, VerifyKey
  <2>6. QED BY <2>1, <2>2, <2>3, <2>4, <2>5 DEF IInv
<1>5. QED BY <1>1, <1>2, <1>3, <1>4

(* The key and the rewrite.                                                *)
LEMMA TakeKeySteps ==
  ASSUME IInv, NEW p \in Process,
         TakeKey(p) \/ CreateKeyFile(p) \/ WriteKey(p) \/ WriteKeyFails(p) \/ Apply(p)
           \/ TransactionFails(p) \/ Commit(p) \/ AskMarker(p)
  PROVE  IInv'
<1>1. CASE TakeKey(p)
  <2>1. TypeOK'
    BY <1>1, MigrationAssumption DEF IInv, TypeOK, Places, Inside, files, Goto, Refuse, Abandon,
       TakeKey
  <2>2. LockHeld'
    BY <1>1, MigrationAssumption DEF IInv, TypeOK, LockHeld, Inside, Goto, Refuse, Abandon,
       TakeKey
  <2>3. StillSo'
    BY <1>1 DEF IInv, TypeOK, StillSo, Older, Purging, Purged, files, Goto, Refuse, Abandon,
       TakeKey
  <2>4. KeyAtHand' /\ KeyKept'
    BY <1>1 DEF IInv, TypeOK, KeyAtHand, KeyKept, files, Goto, Refuse, Abandon, TakeKey
  <2>5. Rewritten' /\ PurgeSoFar' /\ OneKeyPerDatabase' /\ CleanedMeansGone'
    BY <1>1 DEF IInv, TypeOK, Rewritten, PurgeSoFar, Exposed, Stored, OneKeyPerDatabase,
       CleanedMeansGone, files, Goto, Refuse, Abandon, TakeKey
  <2>6. QED BY <2>1, <2>2, <2>3, <2>4, <2>5 DEF IInv
<1>2. CASE CreateKeyFile(p)
  <2>1. TypeOK'
    BY <1>2 DEF IInv, TypeOK, Places, Inside, files, Goto, CreateKeyFile
  <2>2. LockHeld'
    BY <1>2 DEF IInv, TypeOK, LockHeld, Inside, Goto, CreateKeyFile
  <2>3. StillSo'
    BY <1>2 DEF IInv, TypeOK, StillSo, Older, Purging, Purged, files, Goto, CreateKeyFile
  <2>4. KeyAtHand' /\ KeyKept'
    BY <1>2, MigrationAssumption DEF IInv, TypeOK, KeyAtHand, KeyKept, Rewritten, files, Goto,
       CreateKeyFile
  <2>5. Rewritten' /\ PurgeSoFar' /\ OneKeyPerDatabase' /\ CleanedMeansGone'
    BY <1>2 DEF IInv, TypeOK, Rewritten, PurgeSoFar, Exposed, Stored, OneKeyPerDatabase,
       CleanedMeansGone, files, Goto, CreateKeyFile
  <2>6. QED BY <2>1, <2>2, <2>3, <2>4, <2>5 DEF IInv
<1>3. CASE WriteKey(p)
  <2>1. TypeOK'
    BY <1>3 DEF IInv, TypeOK, Places, Inside, files, Goto, WriteKey
  <2>2. LockHeld'
    BY <1>3 DEF IInv, LockHeld, Inside, Goto, WriteKey
  <2>3. StillSo'
    BY <1>3 DEF IInv, StillSo, Older, Purging, Purged, files, Goto, WriteKey
  <2>4. KeyAtHand' /\ KeyKept'
    BY <1>3, MigrationAssumption DEF IInv, TypeOK, LockHeld, KeyAtHand, Inside, KeyKept, files,
       Goto, WriteKey
  <2>5. Rewritten' /\ PurgeSoFar' /\ OneKeyPerDatabase' /\ CleanedMeansGone'
    BY <1>3 DEF IInv, TypeOK, Rewritten, PurgeSoFar, Exposed, Stored, OneKeyPerDatabase,
       CleanedMeansGone, files, Goto, WriteKey
  <2>6. QED BY <2>1, <2>2, <2>3, <2>4, <2>5 DEF IInv
<1>4. CASE WriteKeyFails(p)
  <2>1. TypeOK'
    BY <1>4, MigrationAssumption DEF IInv, TypeOK, Places, files, Refuse, Abandon, Goto, Happens,
       WriteKeyFails
  <2>2. LockHeld'
    BY <1>4, MigrationAssumption DEF IInv, TypeOK, LockHeld, Inside, Refuse, Abandon, Goto,
       WriteKeyFails
  <2>3. StillSo'
    BY <1>4, MigrationAssumption DEF IInv, StillSo, Older, Purging, Purged, files, Refuse,
       Abandon, Goto, WriteKeyFails
  <2>4. KeyAtHand' /\ KeyKept'
    BY <1>4 DEF IInv, KeyAtHand, KeyKept, files, Refuse, Abandon, Goto, WriteKeyFails
  <2>5. Rewritten' /\ PurgeSoFar' /\ OneKeyPerDatabase' /\ CleanedMeansGone'
    BY <1>4 DEF IInv, Rewritten, PurgeSoFar, Exposed, Stored, OneKeyPerDatabase,
       CleanedMeansGone, files, Refuse, Abandon, Goto, WriteKeyFails
  <2>6. QED BY <2>1, <2>2, <2>3, <2>4, <2>5 DEF IInv
<1>5. CASE Apply(p)
  <2>1. TypeOK'
    BY <1>5, MigrationAssumption DEF IInv, TypeOK, Places, Inside, files, Goto, Apply
  <2>2. LockHeld'
    BY <1>5 DEF IInv, LockHeld, Inside, Goto, Apply
  <2>3. StillSo'
    BY <1>5, MigrationAssumption DEF IInv, TypeOK, StillSo, Older, Purging, Purged, files, Goto,
       Apply
  <2>4. KeyAtHand' /\ KeyKept'
    BY <1>5 DEF IInv, KeyAtHand, KeyKept, files, Goto, Apply
  <2>5. Rewritten' /\ PurgeSoFar' /\ OneKeyPerDatabase' /\ CleanedMeansGone'
    BY <1>5 DEF IInv, Rewritten, PurgeSoFar, Exposed, Stored, OneKeyPerDatabase,
       CleanedMeansGone, files, Goto, Apply
  <2>6. QED BY <2>1, <2>2, <2>3, <2>4, <2>5 DEF IInv
<1>6. CASE TransactionFails(p)
  <2>1. TypeOK'
    BY <1>6, MigrationAssumption DEF IInv, TypeOK, Places, files, Refuse, Abandon, Goto, Happens,
       TransactionFails
  <2>2. LockHeld'
    BY <1>6, MigrationAssumption DEF IInv, TypeOK, LockHeld, Inside, Refuse, Abandon, Goto,
       TransactionFails
  <2>3. StillSo'
    BY <1>6 DEF IInv, TypeOK, StillSo, Older, Purging, Purged, files, Refuse, Abandon, Goto,
       TransactionFails
  <2>4. KeyAtHand' /\ KeyKept'
    BY <1>6 DEF IInv, TypeOK, KeyAtHand, KeyKept, files, Refuse, Abandon, Goto, TransactionFails
  <2>5. Rewritten' /\ PurgeSoFar' /\ OneKeyPerDatabase' /\ CleanedMeansGone'
    BY <1>6 DEF IInv, Rewritten, PurgeSoFar, Exposed, Stored, OneKeyPerDatabase,
       CleanedMeansGone, files, Refuse, Abandon, Goto, TransactionFails
  <2>6. QED BY <2>1, <2>2, <2>3, <2>4, <2>5 DEF IInv
<1>7. CASE Commit(p)
  <2>1. TypeOK'
    BY <1>7, MigrationAssumption DEF IInv, TypeOK, Places, Inside, Images, KeyAtHand,
       Unsupported, Goto, Committed, Stored, Commit
  <2>2. LockHeld'
    BY <1>7 DEF IInv, LockHeld, Inside, Goto, Commit
  <2>3. StillSo'
    BY <1>7 DEF IInv, TypeOK, LockHeld, StillSo, Inside, Older, Purged, Goto, Commit
  <2>4. KeyAtHand' /\ KeyKept'
    BY <1>7 DEF IInv, KeyAtHand, KeyKept, Goto, Commit
  <2>5. Rewritten' /\ OneKeyPerDatabase'
    BY <1>7, MigrationAssumption DEF IInv, Rewritten, StillSo, KeyAtHand, Purged, Older,
       OneKeyPerDatabase, Goto, Commit
  <2>6. PurgeSoFar'
    BY <1>7 DEF IInv, LockHeld, PurgeSoFar, Inside, Goto, Committed, Commit
  <2>7. CleanedMeansGone'
    BY <1>7 DEF CleanedMeansGone, Commit
  <2>8. QED BY <2>1, <2>2, <2>3, <2>4, <2>5, <2>6, <2>7 DEF IInv
<1>8. CASE AskMarker(p)
  <2>1. TypeOK'
    BY <1>8 DEF IInv, TypeOK, Places, Inside, files, Goto, AskMarker
  <2>2. LockHeld'
    BY <1>8 DEF IInv, LockHeld, Inside, Goto, AskMarker
  <2>3. StillSo'
    BY <1>8 DEF IInv, StillSo, Older, Purging, Purged, files, Goto, AskMarker
  <2>4. KeyAtHand' /\ KeyKept'
    BY <1>8 DEF IInv, KeyAtHand, KeyKept, files, Goto, AskMarker
  <2>5. Rewritten' /\ PurgeSoFar' /\ OneKeyPerDatabase' /\ CleanedMeansGone'
    BY <1>8 DEF IInv, Rewritten, PurgeSoFar, Exposed, Stored, OneKeyPerDatabase,
       CleanedMeansGone, files, Goto, AskMarker
  <2>6. QED BY <2>1, <2>2, <2>3, <2>4, <2>5 DEF IInv
<1>9. QED BY <1>1, <1>2, <1>3, <1>4, <1>5, <1>6, <1>7, <1>8

(* The purge.                                                              *)
LEMMA PurgeSteps ==
  ASSUME IInv, NEW p \in Process,
         ConfigureWal(p) \/ ConfigureWalFails(p) \/ Vacuum(p) \/ VacuumFails(p) \/ MarkCleaned(p)
  PROVE  IInv'
<1>1. CASE ConfigureWal(p)
  <2>1. TypeOK'
    BY <1>1 DEF IInv, TypeOK, Places, Inside, Truncated, EmptyWal, Stored, NextPlace, Leave,
       Goto, ConfigureWal
  <2>2. LockHeld'
    BY <1>1, MigrationAssumption DEF IInv, TypeOK, LockHeld, Inside, NextPlace, Leave, Goto,
       ConfigureWal
  <2>3. StillSo'
    BY <1>1 DEF IInv, StillSo, Older, Purging, Purged, NextPlace, Leave, Goto, ConfigureWal
  <2>4. KeyAtHand' /\ KeyKept'
    BY <1>1 DEF IInv, KeyAtHand, KeyKept, NextPlace, Leave, Goto, ConfigureWal
  <2>5. Rewritten' /\ OneKeyPerDatabase'
    BY <1>1 DEF IInv, Rewritten, OneKeyPerDatabase, Truncated, EmptyWal, NextPlace, Leave, Goto,
       ConfigureWal
  <2>6. PurgeSoFar'
    BY <1>1 DEF IInv, PurgeSoFar, Exposed, Stored, EmptyWal, Truncated, NextPlace, Leave, Goto,
       ConfigureWal
  <2>7. CleanedMeansGone'
    BY <1>1 DEF IInv, CleanedMeansGone, Exposed, Stored, EmptyWal, Truncated, ConfigureWal
  <2>8. QED BY <2>1, <2>2, <2>3, <2>4, <2>5, <2>6, <2>7 DEF IInv
<1>2. CASE ConfigureWalFails(p)
  <2>1. TypeOK'
    BY <1>2, MigrationAssumption DEF IInv, TypeOK, Places, Refuse, Abandon, Goto, Blocked,
       Happens, Leave, ConfigureWalFails
  <2>2. LockHeld'
    BY <1>2, MigrationAssumption DEF IInv, TypeOK, LockHeld, Inside, Refuse, Abandon, Goto,
       Leave, ConfigureWalFails
  <2>3. StillSo'
    BY <1>2 DEF IInv, TypeOK, StillSo, Older, Purging, Purged, Refuse, Abandon, Goto, Leave,
       ConfigureWalFails
  <2>4. KeyAtHand' /\ KeyKept'
    BY <1>2 DEF IInv, TypeOK, KeyAtHand, KeyKept, Refuse, Abandon, Goto, Leave, ConfigureWalFails
  <2>5. Rewritten' /\ OneKeyPerDatabase'
    BY <1>2 DEF IInv, TypeOK, Rewritten, OneKeyPerDatabase, Refuse, Abandon, Goto, Blocked,
       Leave, ConfigureWalFails
  <2>6. PurgeSoFar'
    BY <1>2 DEF IInv, TypeOK, PurgeSoFar, Exposed, Stored, Refuse, Abandon, Goto, Blocked, Leave,
       ConfigureWalFails
  <2>7. CleanedMeansGone'
    BY <1>2 DEF IInv, CleanedMeansGone, Exposed, Stored, Blocked, ConfigureWalFails
  <2>8. QED BY <2>1, <2>2, <2>3, <2>4, <2>5, <2>6, <2>7 DEF IInv
<1>3. CASE Vacuum(p)
  <2>1. TypeOK'
    BY <1>3 DEF IInv, TypeOK, Places, Inside, Images, Goto, Committed, Vacuum
  <2>2. LockHeld'
    BY <1>3 DEF IInv, LockHeld, Inside, Goto, Vacuum
  <2>3. StillSo'
    BY <1>3 DEF IInv, StillSo, Older, Purging, Purged, Goto, Vacuum
  <2>4. KeyAtHand' /\ KeyKept'
    BY <1>3 DEF IInv, KeyAtHand, KeyKept, Goto, Vacuum
  <2>5. Rewritten' /\ OneKeyPerDatabase'
    BY <1>3 DEF IInv, Rewritten, StillSo, Purging, OneKeyPerDatabase, Goto, Vacuum
  <2>6. PurgeSoFar'
    BY <1>3, MigrationAssumption DEF IInv, TypeOK, PurgeSoFar, Exposed, Stored, EmptyWal, Images,
       Goto, Committed, Vacuum
  <2>7. CleanedMeansGone'
    BY <1>3 DEF IInv, TypeOK, CleanedMeansGone, Exposed, Stored, Committed, Vacuum
  <2>8. QED BY <2>1, <2>2, <2>3, <2>4, <2>5, <2>6, <2>7 DEF IInv
<1>4. CASE VacuumFails(p)
  <2>1. TypeOK'
    BY <1>4, MigrationAssumption DEF IInv, TypeOK, Places, files, Refuse, Abandon, Goto, Happens,
       VacuumFails
  <2>2. LockHeld'
    BY <1>4, MigrationAssumption DEF IInv, TypeOK, LockHeld, Inside, Refuse, Abandon, Goto,
       VacuumFails
  <2>3. StillSo'
    BY <1>4 DEF IInv, StillSo, Older, Purging, Purged, files, Refuse, Abandon, Goto, VacuumFails
  <2>4. KeyAtHand' /\ KeyKept'
    BY <1>4 DEF IInv, KeyAtHand, KeyKept, files, Refuse, Abandon, Goto, VacuumFails
  <2>5. Rewritten' /\ PurgeSoFar' /\ OneKeyPerDatabase' /\ CleanedMeansGone'
    BY <1>4 DEF IInv, Rewritten, PurgeSoFar, Exposed, Stored, OneKeyPerDatabase,
       CleanedMeansGone, files, Refuse, Abandon, Goto, VacuumFails
  <2>6. QED BY <2>1, <2>2, <2>3, <2>4, <2>5 DEF IInv
<1>5. CASE MarkCleaned(p)
  <2>1. db' \in [version : 0..Unsupported, verifier : Key \cup {None}, cleaned : BOOLEAN,
               keys : SUBSET Key]
    BY <1>5 DEF IInv, TypeOK, MarkCleaned
  <2>2. TypeOK'
    BY <1>5, <2>1 DEF IInv, TypeOK, Places, Inside, Goto, Committed, Stored, MarkCleaned
  <2>3. LockHeld'
    BY <1>5 DEF IInv, LockHeld, Inside, Goto, MarkCleaned
  <2>4. StillSo'
    BY <1>5 DEF IInv, TypeOK, LockHeld, StillSo, Inside, Older, Purging, Goto, MarkCleaned
  <2>5. KeyAtHand' /\ KeyKept'
    BY <1>5 DEF IInv, KeyAtHand, KeyKept, Goto, MarkCleaned
  <2>6. Rewritten' /\ OneKeyPerDatabase'
    BY <1>5 DEF IInv, Rewritten, StillSo, Purging, OneKeyPerDatabase, Goto, MarkCleaned
  <2>7. PurgeSoFar'
    BY <1>5 DEF IInv, TypeOK, PurgeSoFar, Exposed, Stored, Committed, MarkCleaned
  <2>8. CleanedMeansGone'
    BY <1>5 DEF IInv, TypeOK, CleanedMeansGone, PurgeSoFar, Exposed, Stored, Committed,
       MarkCleaned
  <2>9. QED BY <2>1, <2>2, <2>3, <2>4, <2>5, <2>6, <2>7, <2>8 DEF IInv
<1>6. QED BY <1>1, <1>2, <1>3, <1>4, <1>5

(* Behind the lock.                                                        *)
LEMMA OpenSteps ==
  ASSUME IInv, NEW p \in Process,
         Reload(p) \/ Check(p) \/ Write(p) \/ Close(p) \/ Crash(p)
  PROVE  IInv'
<1>1. CASE Reload(p)
  <2>1. TypeOK'
    BY <1>1, MigrationAssumption DEF IInv, TypeOK, Places, files, Goto, Refuse, Abandon, Reload
  <2>2. LockHeld'
    BY <1>1 DEF IInv, TypeOK, LockHeld, Inside, Goto, Refuse, Abandon, Reload
  <2>3. StillSo'
    BY <1>1 DEF IInv, TypeOK, StillSo, Older, Purging, Purged, files, Goto, Refuse, Abandon,
       Reload
  <2>4. KeyAtHand' /\ KeyKept'
    BY <1>1 DEF IInv, TypeOK, KeyAtHand, KeyKept, files, Goto, Refuse, Abandon, Reload
  <2>5. Rewritten' /\ PurgeSoFar' /\ OneKeyPerDatabase' /\ CleanedMeansGone'
    BY <1>1 DEF IInv, TypeOK, Rewritten, PurgeSoFar, Exposed, Stored, OneKeyPerDatabase,
       CleanedMeansGone, files, Goto, Refuse, Abandon, Reload
  <2>6. QED BY <2>1, <2>2, <2>3, <2>4, <2>5 DEF IInv
<1>2. CASE Check(p)
  <2>1. TypeOK'
    BY <1>2, MigrationAssumption DEF IInv, TypeOK, Places, files, Goto, Refuse, Abandon, Check
  <2>2. LockHeld'
    BY <1>2 DEF IInv, TypeOK, LockHeld, Inside, Goto, Refuse, Abandon, Check
  <2>3. StillSo'
    BY <1>2 DEF IInv, TypeOK, StillSo, Older, Purging, Purged, files, Goto, Refuse, Abandon,
       Check
  <2>4. KeyAtHand' /\ KeyKept'
    BY <1>2 DEF IInv, TypeOK, KeyAtHand, KeyKept, files, Goto, Refuse, Abandon, Check
  <2>5. Rewritten' /\ PurgeSoFar' /\ OneKeyPerDatabase' /\ CleanedMeansGone'
    BY <1>2 DEF IInv, TypeOK, Rewritten, PurgeSoFar, Exposed, Stored, OneKeyPerDatabase,
       CleanedMeansGone, files, Goto, Refuse, Abandon, Matches, Check
  <2>6. QED BY <2>1, <2>2, <2>3, <2>4, <2>5 DEF IInv
<1>3. CASE Write(p)
  <2>1. TypeOK'
    BY <1>3 DEF IInv, TypeOK, OneKeyPerDatabase, Rewritten, StillSo, Purged, Committed, Stored,
       Write
  <2>2. LockHeld'
    BY <1>3 DEF IInv, LockHeld, Write
  <2>3. StillSo'
    BY <1>3 DEF IInv, StillSo, Write
  <2>4. KeyAtHand' /\ KeyKept'
    BY <1>3 DEF IInv, KeyAtHand, KeyKept, Write
  <2>5. Rewritten' /\ OneKeyPerDatabase'
    BY <1>3 DEF IInv, Rewritten, StillSo, Purged, OneKeyPerDatabase, Write
  <2>6. PurgeSoFar'
    BY <1>3 DEF IInv, TypeOK, PurgeSoFar, Exposed, Stored, Committed, Write
  <2>7. CleanedMeansGone'
    BY <1>3 DEF IInv, TypeOK, CleanedMeansGone, Exposed, Stored, Committed, Write
  <2>8. QED BY <2>1, <2>2, <2>3, <2>4, <2>5, <2>6, <2>7 DEF IInv
<1>4. CASE Close(p)
  <2>1. TypeOK'
    BY <1>4, MigrationAssumption DEF IInv, TypeOK, Places, files, Abandon, Goto, Close
  <2>2. LockHeld'
    BY <1>4 DEF IInv, LockHeld, Inside, Abandon, Goto, Close
  <2>3. StillSo'
    BY <1>4 DEF IInv, StillSo, Older, Purging, Purged, files, Abandon, Goto, Close
  <2>4. KeyAtHand' /\ KeyKept'
    BY <1>4 DEF IInv, KeyAtHand, KeyKept, files, Abandon, Goto, Close
  <2>5. Rewritten' /\ PurgeSoFar' /\ OneKeyPerDatabase' /\ CleanedMeansGone'
    BY <1>4 DEF IInv, TypeOK, Rewritten, PurgeSoFar, Exposed, Stored, OneKeyPerDatabase,
       CleanedMeansGone, files, Abandon, Goto, Close
  <2>6. QED BY <2>1, <2>2, <2>3, <2>4, <2>5 DEF IInv
<1>5. CASE Crash(p)
  <2>1. TypeOK'
    BY <1>5, MigrationAssumption DEF IInv, TypeOK, Places, files, Abandon, Goto, Happens, Crash
  <2>2. LockHeld'
    BY <1>5, MigrationAssumption DEF IInv, TypeOK, LockHeld, Inside, Abandon, Goto, Crash
  <2>3. StillSo'
    BY <1>5 DEF IInv, TypeOK, StillSo, Older, Purging, Purged, files, Abandon, Goto, Crash
  <2>4. KeyAtHand' /\ KeyKept'
    BY <1>5 DEF IInv, TypeOK, LockHeld, KeyAtHand, KeyKept, files, Abandon, Goto, Crash
  <2>5. Rewritten' /\ PurgeSoFar' /\ OneKeyPerDatabase' /\ CleanedMeansGone'
    BY <1>5 DEF IInv, TypeOK, Rewritten, PurgeSoFar, Exposed, Stored, OneKeyPerDatabase,
       CleanedMeansGone, files, Abandon, Goto, Crash
  <2>6. QED BY <2>1, <2>2, <2>3, <2>4, <2>5 DEF IInv
<1>6. QED BY <1>1, <1>2, <1>3, <1>4, <1>5

(* SQLite's checkpoint, and a key file somebody touches.                   *)
LEMMA WorldSteps ==
  ASSUME IInv, Checkpoint \/ TouchKey
  PROVE  IInv'
<1>1. CASE Checkpoint
  <2>1. TypeOK' /\ LockHeld' /\ StillSo'
    BY <1>1 DEF IInv, TypeOK, Places, LockHeld, StillSo, Checkpoint
  <2>2. KeyAtHand' /\ KeyKept'
    BY <1>1 DEF IInv, KeyAtHand, KeyKept, Checkpoint
  <2>3. Rewritten' /\ OneKeyPerDatabase'
    BY <1>1 DEF IInv, Rewritten, OneKeyPerDatabase, Checkpoint
  <2>4. PurgeSoFar' /\ CleanedMeansGone'
    BY <1>1 DEF IInv, PurgeSoFar, Exposed, Stored, EmptyWal, CleanedMeansGone, Checkpoint
  <2>5. QED BY <2>1, <2>2, <2>3, <2>4 DEF IInv
<1>2. CASE TouchKey
  <2>1. TypeOK' /\ LockHeld' /\ StillSo'
    BY <1>2, MigrationAssumption DEF IInv, TypeOK, LockHeld, StillSo, files, Happens, TouchKey
  <2>2. KeyAtHand' /\ KeyKept'
    BY <1>2 DEF IInv, KeyAtHand, KeyKept, TouchKey
  <2>3. Rewritten' /\ OneKeyPerDatabase'
    BY <1>2 DEF IInv, Rewritten, OneKeyPerDatabase, files, TouchKey
  <2>4. PurgeSoFar' /\ CleanedMeansGone'
    BY <1>2 DEF IInv, PurgeSoFar, Exposed, Stored, CleanedMeansGone, files, TouchKey
  <2>5. QED BY <2>1, <2>2, <2>3, <2>4 DEF IInv
<1>3. QED BY <1>1, <1>2

LEMMA InitInductive == Init => IInv
<1> SUFFICES ASSUME Init PROVE IInv
  OBVIOUS
<1>1. db \in [version : 0..Unsupported, verifier : Key \cup {None}, cleaned : BOOLEAN,
              keys : SUBSET Key]
  BY DEF Init
<1>2. db.version # Latest /\ db.verifier = None /\ db.cleaned = FALSE /\ db.keys = {}
  BY DEF Init
<1>3. wal \in [image : Images \cup {None}, old : BOOLEAN] /\ wal.image = None
        /\ (mode = "delete" => wal = EmptyWal)
  <2>1. CASE mode = "wal"
    BY <2>1 DEF Init
  <2>2. CASE mode = "delete"
    <3>1. wal = EmptyWal
      BY <2>2 DEF Init
    <3>2. QED BY <2>2, <3>1 DEF EmptyWal
  <2>3. QED BY <2>1, <2>2 DEF Init
<1>4. TypeOK
  <2>1. main \in Images /\ mode \in {"delete", "wal"} /\ keyFile \in Key \cup {None, Partial}
    BY DEF Init, Images
  <2>2. owner \in Process \cup {None} /\ pc \in [Process -> Places]
    BY DEF Init, Places
  <2>3. key \in [Process -> Key \cup {None}] /\ lost \in BOOLEAN
    BY DEF Init
  <2>4. ver \in [Process -> 0..Latest] /\ faults \in 0..MaxFaults
    BY MigrationAssumption DEF Init
  <2>5. QED BY <1>1, <1>3, <2>1, <2>2, <2>3, <2>4 DEF TypeOK
<1>5. LockHeld /\ StillSo /\ KeyAtHand
  BY <1>1, <1>2, <1>3, MigrationAssumption DEF Init, LockHeld, StillSo, KeyAtHand, Inside, Older,
     Purging, Purged
<1>6. Rewritten /\ PurgeSoFar
  BY <1>1, <1>2, <1>3, MigrationAssumption DEF Init, Rewritten, PurgeSoFar
<1>7. OneKeyPerDatabase /\ CleanedMeansGone /\ KeyKept
  BY <1>1, <1>2, <1>3 DEF Init, OneKeyPerDatabase, CleanedMeansGone, KeyKept
<1>8. QED BY <1>4, <1>5, <1>6, <1>7 DEF IInv

LEMMA NextInductive == IInv /\ [Next]_vars => IInv'
<1> SUFFICES ASSUME IInv, [Next]_vars
             PROVE  IInv'
  OBVIOUS
<1>1. ASSUME NEW p \in Process, Start(p) \/ Step(p) \/ Write(p) \/ Close(p) \/ Fails(p)
      PROVE  IInv'
  BY <1>1, StartSteps, TakeKeySteps, PurgeSteps, OpenSteps DEF Step, Fails
<1>2. CASE UNCHANGED vars
  BY <1>2 DEF vars, IInv, TypeOK, LockHeld, StillSo, Rewritten, KeyAtHand, PurgeSoFar,
     OneKeyPerDatabase, CleanedMeansGone, KeyKept, Stored, Exposed
<1>3. QED BY <1>1, <1>2, WorldSteps DEF Next

(* Whatever processes, crashes and faults do, the invariants below hold.   *)
THEOREM Inductive == Spec => []IInv
  BY InitInductive, NextInductive, PTL DEF Spec

-----------------------------------------------------------------------------
(* The refinement of Startup.                                              *)

LEMMA InitRefines == Init => Promise!Init

  BY DEF Init, Promise!Init, Exposed, Unsupported

LEMMA ProcessRefines ==
  ASSUME IInv, NEW p \in Process, Start(p) \/ Step(p) \/ Write(p) \/ Close(p) \/ Fails(p)
  PROVE  [Promise!Next]_(Promise!startupVars)
<1>1. CASE Start(p)
  <2>1. UNCHANGED Promise!startupVars
    BY <1>1 DEF files, Goto, Stored, Exposed, Promise!startupVars, Start
  <2>2. QED BY <1>1, <2>1
<1>2. CASE Acquire(p)
  <2>1. UNCHANGED Promise!startupVars
    BY <1>2 DEF files, Goto, Stored, Exposed, Promise!startupVars, Acquire
  <2>2. QED BY <1>2, <2>1
<1>3. CASE Inspect(p)
  <2>1. UNCHANGED Promise!startupVars
    BY <1>3 DEF IInv, TypeOK, files, Goto, Abandon, Refuse, Stored, Exposed, Promise!startupVars,
       Inspect
  <2>2. QED BY <1>3, <2>1
<1>4. CASE VerifyKey(p)
  <2>1. UNCHANGED Promise!startupVars
    BY <1>4 DEF IInv, TypeOK, files, Goto, Abandon, Refuse, Stored, Exposed, Promise!startupVars,
       VerifyKey
  <2>2. QED BY <1>4, <2>1
<1>5. CASE TakeKey(p)
  <2>1. UNCHANGED Promise!startupVars
    BY <1>5 DEF IInv, TypeOK, files, Goto, Abandon, Refuse, Stored, Exposed, Promise!startupVars,
       TakeKey
  <2>2. QED BY <1>5, <2>1
<1>6. CASE CreateKeyFile(p)
  <2>1. UNCHANGED Promise!startupVars
    BY <1>6 DEF IInv, TypeOK, files, Goto, Stored, Exposed, Promise!startupVars, CreateKeyFile
  <2>2. QED BY <1>6, <2>1
<1>7. CASE WriteKey(p)
  <2>1. UNCHANGED Promise!startupVars
    BY <1>7 DEF files, Goto, Stored, Exposed, Promise!startupVars, WriteKey
  <2>2. QED BY <1>7, <2>1
<1>8. CASE WriteKeyFails(p)
  <2>1. UNCHANGED Promise!startupVars
    BY <1>8 DEF files, Goto, Abandon, Refuse, Stored, Exposed, Promise!startupVars, WriteKeyFails
  <2>2. QED BY <1>8, <2>1
<1>9. CASE Apply(p)
  <2>1. UNCHANGED Promise!startupVars
    BY <1>9 DEF files, Goto, Stored, Exposed, Promise!startupVars, Apply
  <2>2. QED BY <1>9, <2>1
<1>10. CASE TransactionFails(p)
  <2>1. UNCHANGED Promise!startupVars
    BY <1>10 DEF files, Goto, Abandon, Refuse, Stored, Exposed, Promise!startupVars,
       TransactionFails
  <2>2. QED BY <1>10, <2>1
<1>11. CASE Commit(p)
  <2>1. Promise!Migrate(key[p])
    BY <1>11, MigrationAssumption DEF IInv, TypeOK, StillSo, PurgeSoFar, Goto, Committed, Images,
       Stored, EmptyWal, Exposed, Older, Promise!Migrate, Commit
  <2>2. QED BY <1>11, <2>1 DEF Promise!Next, IInv, KeyAtHand, Commit
<1>12. CASE AskMarker(p)
  <2>1. UNCHANGED Promise!startupVars
    BY <1>12 DEF files, Goto, Stored, Exposed, Promise!startupVars, AskMarker
  <2>2. QED BY <1>12, <2>1
<1>13. CASE ConfigureWal(p)
  <2>1. Promise!Purge \/ UNCHANGED Promise!startupVars
    BY <1>13 DEF IInv, StillSo, Goto, Truncated, NextPlace, Leave, Stored, EmptyWal, Exposed,
       Purging, Purged, Promise!Purge, Promise!startupVars, ConfigureWal
  <2>2. QED BY <1>13, <2>1 DEF Promise!Next
<1>14. CASE ConfigureWalFails(p)
  <2>1. UNCHANGED Promise!startupVars
    BY <1>14 DEF IInv, TypeOK, Goto, Abandon, Refuse, Blocked, Leave, Stored, Exposed,
       Promise!startupVars, ConfigureWalFails
  <2>2. QED BY <1>14, <2>1
<1>15. CASE Vacuum(p)
  <2>1. Promise!Purge \/ UNCHANGED Promise!startupVars
    BY <1>15 DEF IInv, TypeOK, StillSo, Goto, Committed, Stored, Exposed, Purging, Promise!Purge,
       Promise!startupVars, Vacuum
  <2>2. QED BY <1>15, <2>1 DEF Promise!Next
<1>16. CASE VacuumFails(p)
  <2>1. UNCHANGED Promise!startupVars
    BY <1>16 DEF files, Goto, Abandon, Refuse, Stored, Exposed, Promise!startupVars, VacuumFails
  <2>2. QED BY <1>16, <2>1
<1>17. CASE MarkCleaned(p)
  <2>1. UNCHANGED Promise!startupVars
    BY <1>17 DEF IInv, TypeOK, PurgeSoFar, Goto, Committed, Stored, Exposed, Promise!startupVars,
       MarkCleaned
  <2>2. QED BY <1>17, <2>1
<1>18. CASE Reload(p)
  <2>1. UNCHANGED Promise!startupVars
    BY <1>18 DEF IInv, TypeOK, files, Goto, Abandon, Refuse, Stored, Exposed,
       Promise!startupVars, Reload
  <2>2. QED BY <1>18, <2>1
<1>19. CASE Check(p)
  <2>1. CASE Matches(key[p])
    <3>1. db.version = Latest /\ ~Exposed
      BY <1>19 DEF Check, IInv, StillSo, Purged, CleanedMeansGone
    <3>2. /\ key[p] = db.verifier
          /\ pc' = [pc EXCEPT ![p] = "open"]
          /\ UNCHANGED <<db, main, wal, key>>
      BY <1>19, <2>1 DEF Check, Matches, Goto, files
    <3>3. Promise!Open(p)
      BY <3>1, <3>2 DEF Promise!Open, Exposed, Stored, IInv, TypeOK
    <3>4. QED BY <3>3 DEF Promise!Next
  <2>2. CASE ~Matches(key[p])
    BY <1>19, <2>2 DEF IInv, TypeOK, Check, Refuse, Abandon, Goto, files, Exposed, Stored,
       Promise!startupVars
  <2>3. QED BY <2>1, <2>2
<1>20. CASE Write(p)
  <2>1. UNCHANGED Promise!startupVars
    BY <1>20 DEF IInv, TypeOK, PurgeSoFar, Committed, Stored, EmptyWal, Exposed,
       Promise!startupVars, Write
  <2>2. QED BY <1>20, <2>1
<1>21. CASE Close(p)
  <2>1. Promise!Close(p)
    BY <1>21 DEF IInv, TypeOK, files, Goto, Abandon, Stored, Exposed, Promise!Close, Close
  <2>2. QED BY <1>21, <2>1 DEF Promise!Next
<1>22. CASE Crash(p)
  <2>1. Promise!Close(p)
    BY <1>22 DEF IInv, TypeOK, files, Goto, Abandon, Stored, Exposed, Promise!Close, Crash
  <2>2. QED BY <1>22, <2>1 DEF Promise!Next
<1>23. QED
  BY <1>1, <1>2, <1>3, <1>4, <1>5, <1>6, <1>7, <1>8, <1>9, <1>10, <1>11, <1>12, <1>13, <1>14, <1>15,
     <1>16, <1>17, <1>18, <1>19, <1>20, <1>21, <1>22 DEF Step, Fails

LEMMA NextRefines == IInv /\ [Next]_vars => [Promise!Next]_(Promise!startupVars)
<1> SUFFICES ASSUME IInv, [Next]_vars
             PROVE  [Promise!Next]_(Promise!startupVars)
  OBVIOUS
<1>1. CASE Checkpoint
  <2>1. Promise!Purge \/ UNCHANGED Promise!startupVars
    BY <1>1 DEF IInv, Rewritten, Stored, Exposed, Promise!Purge, Promise!startupVars, Checkpoint
  <2>2. QED BY <2>1 DEF Promise!Next
<1>2. CASE TouchKey
  BY <1>2 DEF TouchKey, files, Stored, Exposed, Promise!startupVars
<1>3. CASE UNCHANGED vars
  BY <1>3 DEF vars, Stored, Exposed, Promise!startupVars
<1>4. QED BY <1>1, <1>2, <1>3, ProcessRefines DEF Next

(* migrate_database and load_verified_pseudonym_key, with crashes, faults  *)
(* and competing processes, do no more than Startup allows.                *)
THEOREM MigrationImplementsStartup == Spec => ImplementsStartup
  BY Inductive, InitRefines, NextRefines, PTL DEF Spec, ImplementsStartup, Promise!Spec

-----------------------------------------------------------------------------
(* Every variable keeps its type.                                          *)
THEOREM TypeCorrect == Spec => []TypeOK
  BY Inductive, PTL DEF IInv

(* PRIVACY_SECURITY.md:75-77: one database, one key, for every store opened*)
(* over it and every reference written to it.                              *)
THEOREM OneKey == Spec => []OneKeyPerDatabase
  BY Inductive, PTL DEF IInv

(* _privacy_cleanup_required: the marker is never set while a raw value can*)
(* be read from the database file or the WAL.                              *)
THEOREM CleanedIsGone == Spec => []CleanedMeansGone
  BY Inductive, PTL DEF IInv

(* _load_or_create_pseudonym_key and the commit of the rewrite: the key of *)
(* a rewritten database is in the key file unless somebody took it.        *)
THEOREM KeyIsKept == Spec => []KeyKept
  BY Inductive, PTL DEF IInv

=============================================================================
