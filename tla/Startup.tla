------------------------------ MODULE Startup ------------------------------
(***************************************************************************)
(* What opening the local database promises, with no files, no locks and   *)
(* no crashes: the data of an older release is rewritten once, as a whole, *)
(* under one pseudonym key; a store is handed out only for a rewritten     *)
(* database whose raw values are gone, and only with that key; a database  *)
(* this release does not recognise is left alone.  Migration implements it.*)
(***************************************************************************)
EXTENDS Naturals

CONSTANTS
    Process,   \* processes that open the data directory
    Key,       \* pseudonym keys
    None,      \* no key
    Latest     \* CURRENT_SCHEMA_VERSION

VARIABLES
    version,   \* 0..Latest, or Latest + 1 for anything this release refuses
    holder,    \* the key the stored references were made with, or None
    exposed,   \* whether raw captured values can still be read from disk
    users      \* [Process -> Key \cup {None}]: the key of each open store

startupVars == <<version, holder, exposed, users>>

Init ==
    /\ version \in (0..Latest + 1) \ {Latest}
    /\ holder = None
    /\ exposed \in BOOLEAN
    /\ users = [p \in Process |-> None]

Migrate(k) ==
    /\ version < Latest
    /\ version' = Latest
    /\ holder' = k
    /\ UNCHANGED <<exposed, users>>

Purge ==
    /\ version = Latest
    /\ exposed' = FALSE
    /\ UNCHANGED <<version, holder, users>>

Open(p) ==
    /\ version = Latest /\ ~exposed
    /\ users' = [users EXCEPT ![p] = holder]
    /\ UNCHANGED <<version, holder, exposed>>

Close(p) ==
    /\ users' = [users EXCEPT ![p] = None]
    /\ UNCHANGED <<version, holder, exposed>>

Next ==
    \/ \E k \in Key : Migrate(k)
    \/ Purge
    \/ \E p \in Process : Open(p) \/ Close(p)

Spec == Init /\ [][Next]_startupVars
=============================================================================
