------------------------------- MODULE Runtime -------------------------------
(***************************************************************************)
(* The desktop runtime (apps/desktop/src-tauri/src/runtime.rs) and the     *)
(* sidecars it starts: initialisation, the marker file that names the      *)
(* sidecar, recovery after a crash, the status poll, the ownership check   *)
(* before a proxied request, repair and shutdown.                          *)
(*                                                                         *)
(* Handlers that hold the mutex over RuntimeInner from beginning to end    *)
(* are one step.  initialize takes it only at its end, and the check of a  *)
(* proxied request stops the sidecar after it let the mutex go: there      *)
(* other handlers come in between.  A sidecar is named by its process      *)
(* identifier, and only it knows the secrets it was started with.          *)
(***************************************************************************)
EXTENDS Naturals, FiniteSets

CONSTANTS
    Sidecar,     \* process identifiers of sidecars
    None,
    Stray,       \* what a marker names that is corrupt or another process
    Threshold,   \* HEALTH_FAILURE_THRESHOLD
    MaxFaults    \* bound: crashes, slow answers, foreign listeners, ...

ASSUME RuntimeAssumption ==
    /\ None \notin Sidecar /\ Stray \notin Sidecar /\ None # Stray
    /\ Threshold \in Nat \ {0} /\ MaxFaults \in Nat

VARIABLES
    desktop,    \* the process: "down", "up" or "leaving" (after shutdown)
    inner,      \* RuntimeInner: [state, action, child, secrets, failures, repairing, paths]
    init,       \* the running initialize: [at, child]
    marker,     \* sidecar-owner.json
    life,       \* of each sidecar: "gone", "booting" or "serving"
    ours,       \* sidecars whose parent is the running desktop
    condemned,  \* sidecars a proxied request has taken away and has yet to stop
    foreign,    \* another program listens at the port
    faults

vars == <<desktop, inner, init, marker, life, ours, condemned, foreign, faults>>

Alive == {s \in Sidecar : life[s] # "gone"}
EndpointOpen == foreign \/ \E s \in Sidecar : life[s] = "serving"
Fault == faults < MaxFaults /\ faults' = faults + 1
Same == UNCHANGED <<desktop, foreign>>

Fresh == [state |-> "stopped", action |-> "restart", child |-> None, secrets |-> None,
          failures |-> 0, repairing |-> FALSE, paths |-> FALSE]
NoInit == [at |-> "none", child |-> None]
Gone(s) == [life EXCEPT ![s] = "gone"]

Init ==
    /\ desktop = "down" /\ inner = Fresh /\ init = NoInit
    /\ marker \in {None, Stray}
    /\ life = [s \in Sidecar |-> "gone"]
    /\ ours = {} /\ condemned = {} /\ foreign = FALSE /\ faults = 0

-----------------------------------------------------------------------------
(* initialize, in the setup of the application or in repair.                *)

\* Its end: the status is set under the mutex, and a repair is over.
Ends(state, action) ==
    /\ init' = NoInit
    /\ inner' = [inner EXCEPT !.state = state, !.action = action, !.secrets = None,
                              !.failures = 0, !.repairing = FALSE, !.paths = TRUE]

Launch ==
    /\ desktop = "down"
    /\ desktop' = "up" /\ inner' = Fresh
    /\ init' = [NoInit EXCEPT !.at = "recover"]
    /\ UNCHANGED <<marker, life, ours, condemned, foreign, faults>>

\* set_unavailable_without_paths keeps the paths; the end of initialize ends a
\* repair, here as in Ends.
PrepareFails ==
    /\ init.at = "recover" /\ Fault
    /\ init' = NoInit
    /\ inner' = [inner EXCEPT !.state = "unavailable", !.action = "restart", !.child = None,
                              !.secrets = None, !.failures = 0, !.repairing = FALSE]
    /\ UNCHANGED <<marker, life, ours, condemned>> /\ Same

\* recover_owned_orphan: a marker whose process is gone is removed; while the
\* process exits, initialize waits.
Recover ==
    /\ init.at = "recover"
    /\ marker = None \/ marker \in Sidecar \ Alive
    /\ marker' = None /\ init' = [init EXCEPT !.at = "check"]
    /\ UNCHANGED <<inner, life, ours, condemned, faults>> /\ Same

\* It waits five seconds and does not terminate what it cannot verify, or it
\* fails to remove the marker.
RecoverRefuses ==
    /\ init.at = "recover"
    /\ \/ marker \in Alive \cup {Stray} /\ UNCHANGED faults
       \/ marker \in Sidecar \ Alive /\ Fault
    /\ Ends("unavailable", "repair_runtime_state")
    /\ UNCHANGED <<marker, life, ours, condemned>> /\ Same

Check ==
    /\ init.at = "check"
    /\ \/ EndpointOpen /\ Ends("port_collision", "close_conflicting_app")
       \/ ~EndpointOpen /\ init' = [init EXCEPT !.at = "spawn"] /\ UNCHANGED inner
    /\ UNCHANGED <<marker, life, ours, condemned, faults>> /\ Same

\* resolve_sidecar finds no binary or not the packaged one, before the endpoint
\* is looked at, or spawn_sidecar fails, after; to reinstall is to restart here.
StartFails ==
    /\ init.at \in {"check", "spawn"} /\ Fault
    /\ Ends("unavailable", "restart")
    /\ UNCHANGED <<marker, life, ours, condemned>> /\ Same

Unused(s) == life[s] = "gone" /\ s \notin {marker, inner.child, inner.secrets} \cup condemned

Spawn(s) ==
    /\ init.at = "spawn" /\ Unused(s)
    /\ life' = [life EXCEPT ![s] = "booting"] /\ ours' = ours \cup {s}
    /\ init' = [at |-> "mark", child |-> s]
    /\ UNCHANGED <<inner, marker, condemned, faults>> /\ Same

Mark ==
    /\ init.at = "mark"
    /\ marker' = init.child /\ init' = [init EXCEPT !.at = "wait"]
    /\ UNCHANGED <<inner, life, ours, condemned, faults>> /\ Same

\* The new marker may be in place when its directory cannot be synchronised.
MarkFails ==
    /\ init.at = "mark" /\ Fault
    /\ marker' \in {marker, init.child}
    /\ life' = Gone(init.child)
    /\ Ends("unavailable", "restart")
    /\ UNCHANGED <<ours, condemned>> /\ Same

Ready ==
    /\ init.at = "wait" /\ life[init.child] = "serving"
    /\ init' = [init EXCEPT !.at = "store"]
    /\ UNCHANGED <<inner, marker, life, ours, condemned, faults>> /\ Same

\* A sidecar that does not answer in five seconds is stopped.  One that exited
\* was waited for: graceful_stop finds no process, and the marker stays.
NeverReady ==
    /\ init.at = "wait"
    /\ \/ /\ life[init.child] # "gone" /\ Fault
          /\ life' = Gone(init.child) /\ marker' = None
       \/ /\ life[init.child] = "gone"
          /\ UNCHANGED <<life, marker, faults>>
    /\ Ends("unavailable", "restart")
    /\ UNCHANGED <<ours, condemned>> /\ Same

StoreChild ==
    /\ init.at = "store"
    /\ init' = NoInit
    /\ inner' = [state |-> "ready", action |-> "none", child |-> init.child,
                 secrets |-> init.child, failures |-> 0, repairing |-> FALSE, paths |-> TRUE]
    /\ UNCHANGED <<marker, life, ours, condemned, faults>> /\ Same

Initialize == \/ Recover \/ RecoverRefuses \/ Check \/ \E s \in Sidecar : Spawn(s)
              \/ Mark \/ Ready \/ NeverReady \/ StoreChild

-----------------------------------------------------------------------------
(* The status poll and the check before a proxied request.                  *)

Exited == inner.child # None /\ life[inner.child] = "gone"

\* read_health_identity: a sidecar proves itself only with its own secret, and
\* a serving one may be too slow.
Proves == inner.child # None /\ inner.secrets = inner.child /\ life[inner.child] = "serving"

Revoked == [inner EXCEPT !.state = "unavailable", !.action = "restart", !.child = None,
                         !.secrets = None, !.failures = 0]

\* The child is stopped and waited for; then its marker is removed.
DropChild ==
    /\ inner' = Revoked
    /\ life' = Gone(inner.child) /\ marker' = None

\* After the threshold of probes without an answer the sidecar is stopped.
Unanswered ==
    IF inner.failures + 1 >= Threshold
    THEN DropChild
    ELSE /\ inner' = [inner EXCEPT !.failures = @ + 1]
         /\ UNCHANGED <<life, marker>>

Poll ==
    /\ desktop # "down" /\ inner.child # None
    /\ \/ Exited /\ DropChild /\ UNCHANGED faults
       \/ /\ ~Exited /\ inner.state = "ready" /\ Proves
          /\ inner' = [inner EXCEPT !.failures = 0]
          /\ UNCHANGED <<life, marker, faults>>
       \/ /\ ~Exited /\ inner.state = "ready" /\ Proves /\ Fault
          /\ Unanswered
    /\ UNCHANGED <<init, ours, condemned>> /\ Same

\* verified_runtime_secrets: one failure takes the sidecar away at once.  It is
\* stopped after the mutex is released, and its marker stays.
TakeChild ==
    /\ inner' = Revoked
    /\ condemned' = condemned \cup ({inner.child} \cap Alive)

ProxyRequest ==
    /\ desktop # "down" /\ inner.state = "ready" /\ inner.child # None
    /\ \/ Exited /\ UNCHANGED faults
       \/ ~Exited /\ Fault
    /\ TakeChild
    /\ UNCHANGED <<init, marker, life, ours>> /\ Same

StopCondemned(s) ==
    /\ s \in condemned
    /\ condemned' = condemned \ {s} /\ life' = Gone(s)
    /\ UNCHANGED <<inner, init, marker, ours, faults>> /\ Same

-----------------------------------------------------------------------------
(* Repair and shutdown.                                                     *)

\* Mutant: a second repair begins while the first one runs.
RepairTwice ==
    /\ desktop = "up" /\ inner.action = "repair_runtime_state" /\ inner.child = None
    /\ ~EndpointOpen
    /\ inner' = [inner EXCEPT !.repairing = TRUE]
    /\ init' = [NoInit EXCEPT !.at = "recover"] /\ marker' = None
    /\ UNCHANGED <<life, ours, condemned, faults>> /\ Same

\* Mutant: the marker that could not be verified is left where it is.
RepairInPlace ==
    /\ desktop = "up" /\ ~inner.repairing
    /\ inner.action = "repair_runtime_state" /\ inner.child = None /\ ~EndpointOpen
    /\ inner' = [inner EXCEPT !.repairing = TRUE]
    /\ init' = [NoInit EXCEPT !.at = "recover"]
    /\ UNCHANGED <<marker, life, ours, condemned, faults>> /\ Same

\* The marker is moved away, unless a listener shows that it may be right, and
\* initialize runs again, outside the mutex.
Repair ==
    /\ desktop = "up" /\ ~inner.repairing
    /\ inner.action = "repair_runtime_state" /\ inner.child = None
    /\ \/ /\ EndpointOpen
          /\ inner' = [inner EXCEPT !.state = "port_collision",
                                    !.action = "close_conflicting_app"]
          /\ UNCHANGED <<init, marker>>
       \/ /\ ~EndpointOpen /\ marker # None
          /\ inner' = [inner EXCEPT !.repairing = TRUE]
          /\ init' = [NoInit EXCEPT !.at = "recover"] /\ marker' = None
    /\ UNCHANGED <<life, ours, condemned, faults>> /\ Same

\* The user quits.  initialize of the setup is over by then, that of a repair
\* may be anywhere.
Shutdown ==
    /\ desktop = "up" /\ (init.at = "none" \/ inner.repairing)
    /\ desktop' = "leaving"
    /\ life' = IF inner.child = None THEN life ELSE Gone(inner.child)
    /\ marker' = IF inner.paths THEN None ELSE marker
    /\ inner' = [Fresh EXCEPT !.paths = inner.paths]
    /\ UNCHANGED <<init, ours, condemned, foreign>>

\* Told to restart or to close another program, or because he likes to.
Told == inner.action \in {"restart", "close_conflicting_app"}
Quit == Shutdown /\ (IF Told THEN UNCHANGED faults ELSE Fault)
Restart == Told /\ init.at = "none" /\ Quit

\* The process ends with all its threads, and its children lose their parent.
Exits ==
    /\ desktop' = "down" /\ inner' = Fresh /\ init' = NoInit
    /\ ours' = {} /\ condemned' = {}
    /\ UNCHANGED <<marker, life, foreign>>
Leave == desktop = "leaving" /\ Exits /\ UNCHANGED faults
Crash == desktop = "up" /\ Exits /\ Fault

-----------------------------------------------------------------------------
(* Sidecars and the rest of the world.                                      *)

\* Mutant: the port is shared.
BindShared(s) ==
    /\ life[s] = "booting"
    /\ life' = [life EXCEPT ![s] = IF foreign THEN "gone" ELSE "serving"]
    /\ UNCHANGED <<inner, init, marker, ours, condemned, faults>> /\ Same

\* server.py binds the port before it starts to watch its parent.
Bind(s) ==
    /\ life[s] = "booting"
    /\ life' = [life EXCEPT ![s] = IF EndpointOpen THEN "gone" ELSE "serving"]
    /\ UNCHANGED <<inner, init, marker, ours, condemned, faults>> /\ Same

\* The watchdog: a sidecar without its parent ends.
Watch(s) ==
    /\ life[s] = "serving" /\ s \notin ours
    /\ life' = Gone(s)
    /\ UNCHANGED <<inner, init, marker, ours, condemned, faults>> /\ Same

Die(s) ==
    /\ s \in Alive /\ Fault
    /\ life' = Gone(s)
    /\ UNCHANGED <<inner, init, marker, ours, condemned>> /\ Same

\* The identifier in the marker is given to another process, once its parent
\* has waited for the sidecar or is gone.
Reuse ==
    /\ marker \in Sidecar \ Alive /\ Fault
    /\ marker \notin {inner.child, init.child} \cup condemned
    /\ marker' = Stray
    /\ UNCHANGED <<inner, init, life, ours, condemned>> /\ Same

Listen == /\ ~EndpointOpen /\ Fault /\ foreign' = TRUE
          /\ UNCHANGED <<desktop, inner, init, marker, life, ours, condemned>>
Unlisten == /\ foreign /\ foreign' = FALSE
            /\ UNCHANGED <<desktop, inner, init, marker, life, ours, condemned, faults>>

-----------------------------------------------------------------------------
Next == \/ Launch \/ Initialize \/ PrepareFails \/ MarkFails
        \/ StartFails \/ Poll \/ ProxyRequest
        \/ Repair \/ Quit \/ Leave \/ Crash
        \/ \E s \in Sidecar : StopCondemned(s) \/ Bind(s) \/ Watch(s) \/ Die(s)
        \/ Reuse \/ Listen \/ Unlisten

Spec == Init /\ [][Next]_vars

\* Threads and sidecars go on, the status is polled, other programs leave the
\* port, and the user does what the status tells him.
Fairness ==
    /\ WF_vars(Initialize) /\ WF_vars(Poll) /\ WF_vars(Leave)
    /\ \A s \in Sidecar : WF_vars(StopCondemned(s)) /\ WF_vars(Bind(s)) /\ WF_vars(Watch(s))
    /\ WF_vars(Unlisten) /\ WF_vars(Launch) /\ WF_vars(Repair) /\ WF_vars(Restart)

FairSpec == Spec /\ Fairness

-----------------------------------------------------------------------------
TypeOK ==
    /\ desktop \in {"down", "up", "leaving"}
    /\ inner.state \in {"stopped", "unavailable", "port_collision", "ready"}
    /\ inner.action \in {"none", "restart", "repair_runtime_state", "close_conflicting_app"}
    /\ {inner.child, inner.secrets, init.child} \subseteq Sidecar \cup {None}
    /\ inner.failures \in 0 .. Threshold - 1
    /\ {inner.repairing, inner.paths, foreign} \subseteq BOOLEAN
    /\ init.at \in {"none", "recover", "check", "spawn", "mark", "wait", "store"}
    /\ marker \in Sidecar \cup {None, Stray}
    /\ life \in [Sidecar -> {"gone", "booting", "serving"}]
    /\ ours \subseteq Sidecar /\ condemned \subseteq ours
    /\ faults \in 0 .. MaxFaults
    /\ Cardinality({s \in Sidecar : life[s] = "serving"}) =< 1

(* A desktop that reports itself ready has the secrets of its own sidecar,   *)
(* which the marker names, so that the next start can wait for it; and every *)
(* other living sidecar is about to end.                                     *)
Doomed(s) == s \notin ours \/ s \in condemned
Owned ==
    /\ desktop = "up" /\ inner.state = "ready" =>
          /\ inner.child # None /\ inner.secrets = inner.child
          /\ marker = inner.child /\ ~Doomed(inner.child)
    /\ \A s, t \in Alive : s # t => Doomed(s) \/ Doomed(t)

(* Once the faults are over, a user who does as he is told gets a runtime    *)
(* that is ready and stays so, and no sidecar is left but its own.           *)
Settles == <>[](inner.state = "ready" /\ Alive = {inner.child})
=============================================================================
