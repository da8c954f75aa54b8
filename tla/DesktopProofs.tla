---------------------------- MODULE DesktopProofs ----------------------------
(***************************************************************************)
(* Proofs about Runtime and Desktop for any number of sidecars, files,     *)
(* deletions and faults and any threshold: types and the ownership of the  *)
(* sidecar; then that what the runtime promises holds in the composition,  *)
(* and that imports and deletions act once and leave no snapshot behind.   *)
(***************************************************************************)
EXTENDS Desktop, FiniteSetTheorems, TLAPS

(* What TypeOK says of the fields, said of whole records.                  *)
States == {"stopped", "unavailable", "port_collision", "ready"}
Actions == {"none", "restart", "repair_runtime_state", "close_conflicting_app"}
Stages == {"none", "recover", "check", "spawn", "mark", "wait", "store"}

InnerRecord ==
    [state : States, action : Actions, child : Sidecar \cup {None}, secrets : Sidecar \cup {None},
     failures : 0 .. Threshold - 1, repairing : BOOLEAN, paths : BOOLEAN]
InitRecord == [at : Stages, child : Sidecar \cup {None}]

Types ==
    /\ desktop \in {"down", "up", "leaving"}
    /\ inner \in InnerRecord
    /\ init \in InitRecord
    /\ marker \in Sidecar \cup {None, Stray}
    /\ life \in [Sidecar -> {"gone", "booting", "serving"}]
    /\ ours \subseteq Sidecar /\ condemned \subseteq ours
    /\ foreign \in BOOLEAN /\ faults \in 0 .. MaxFaults

(* Two sidecars never listen at one port.                                  *)
OneServes == \A s, t \in Sidecar : life[s] = "serving" /\ life[t] = "serving" => s = t

(* The running desktop has one initialisation, which found no child.       *)
Alone ==
    /\ desktop = "down" => init.at = "none" /\ ours = {} /\ inner.child = None
    /\ init.at # "none" =>
          /\ inner.child = None
          /\ desktop = "up" => inner.repairing \/ inner.action = "restart"
    /\ init.child # None <=> init.at \in {"mark", "wait", "store"}

(* A sidecar of this desktop that is not taken away is either its child or *)
(* the one it is starting.                                                 *)
Known ==
    /\ {inner.child, init.child} \ {None} \subseteq ours \ condemned
    /\ \A s \in Alive : Doomed(s) \/ s \in {inner.child, init.child}

(* The marker names the sidecar that is started or used.                   *)
Marked ==
    desktop = "up" =>
        /\ init.at \in {"wait", "store"} => marker = init.child
        /\ inner.state = "ready" =>
              inner.child # None /\ inner.secrets = inner.child /\ marker = inner.child

RInv ==
    /\ Types
    /\ OneServes
    /\ Alone
    /\ Known
    /\ Marked
-----------------------------------------------------------------------------
(* Records.                                                                *)

LEMMA FreshType == Fresh \in InnerRecord /\ NoInit \in InitRecord
  BY RuntimeAssumption DEF Fresh, NoInit, InnerRecord, InitRecord, States, Actions, Stages

LEMMA Defaults == None \in Sidecar \cup {None} /\ 0 \in 0 .. Threshold - 1
  BY RuntimeAssumption

LEMMA InnerUpdate ==
  ASSUME NEW r \in InnerRecord, NEW state \in States, NEW action \in Actions,
         NEW failures \in 0 .. Threshold - 1, NEW repairing \in BOOLEAN, NEW paths \in BOOLEAN
  PROVE  /\ [r EXCEPT !.state = state, !.action = action] \in InnerRecord
         /\ [r EXCEPT !.state = state, !.paths = paths] \in InnerRecord
         /\ [r EXCEPT !.failures = failures] \in InnerRecord
         /\ [r EXCEPT !.repairing = repairing] \in InnerRecord
         /\ [r EXCEPT !.paths = paths] \in InnerRecord
  BY DEF InnerRecord

LEMMA InitUpdate ==
  ASSUME NEW r \in InitRecord, NEW at \in Stages
  PROVE  /\ [r EXCEPT !.at = at] \in InitRecord
         /\ [r EXCEPT !.at = at].at = at
         /\ [r EXCEPT !.at = at].child = r.child
  BY DEF InitRecord

(* The end of an initialisation.                                           *)
LEMMA EndsEffect ==
  ASSUME Types, NEW state \in States, NEW action \in Actions, Ends(state, action)
  PROVE  /\ inner' \in InnerRecord /\ init' = NoInit
         /\ inner'.state = state /\ inner'.child = inner.child
  BY Defaults DEF Ends, Types, InnerRecord

(* A sidecar is taken away.                                                *)
LEMMA RevokedType ==
  ASSUME Types
  PROVE  Revoked \in InnerRecord /\ Revoked.state = "unavailable" /\ Revoked.child = None
  BY Defaults DEF Revoked, Types, InnerRecord, States, Actions
-----------------------------------------------------------------------------
(* initialize.                                                             *)
LEMMA StartSteps ==
  ASSUME RInv, Launch \/ PrepareFails \/ Recover \/ RecoverRefuses \/ Check \/ StartFails \/ Mark
           \/ MarkFails \/ Ready \/ NeverReady \/ StoreChild
  PROVE  RInv'
<1>1. CASE Launch
  <2>1. Types'
    BY <1>1, RuntimeAssumption DEF RInv, Types, InnerRecord, InitRecord, States, Actions, Stages,
       Fresh, NoInit, Launch
  <2>2. OneServes'
    BY <1>1, RuntimeAssumption DEF RInv, Types, OneServes, Fresh, NoInit, Launch
  <2>3. Alone'
    BY <1>1, RuntimeAssumption DEF RInv, Types, Alone, Known, InnerRecord, InitRecord, Fresh,
       NoInit, Launch
  <2>4. Known'
    BY <1>1, RuntimeAssumption DEF RInv, Types, Alone, Known, Doomed, Alive, InnerRecord,
       InitRecord, Fresh, NoInit, Launch
  <2>5. Marked'
    BY <1>1, RuntimeAssumption DEF RInv, Types, Alone, Known, Marked, InnerRecord, InitRecord,
       Fresh, NoInit, Launch
  <2>6. QED BY <2>1, <2>2, <2>3, <2>4, <2>5 DEF RInv
<1>2. CASE PrepareFails
  <2>0. /\ inner' \in InnerRecord /\ init' = NoInit
        /\ inner'.state # "ready" /\ inner'.child = None
    <3>1. "unavailable" \in States /\ "restart" \in Actions /\ inner \in InnerRecord
      BY DEF States, Actions, RInv, Types
    <3>2. QED BY <1>2, <3>1, Defaults DEF PrepareFails, InnerRecord
  <2>1. Types'
    BY <1>2, <2>0, FreshType, InitUpdate, RuntimeAssumption DEF RInv, Types, Stages, Fault, Same,
       NoInit, PrepareFails
  <2>2. OneServes'
    BY <1>2, <2>0, RuntimeAssumption DEF RInv, Types, OneServes, Fault, Same, NoInit,
       PrepareFails
  <2>3. Alone'
    BY <1>2, <2>0, RuntimeAssumption DEF RInv, Types, Alone, Known, InitRecord, Fault, Same,
       NoInit, PrepareFails
  <2>4. Known'
    BY <1>2, <2>0, RuntimeAssumption DEF RInv, Types, Alone, Known, Doomed, Alive, InitRecord,
       Fault, Same, NoInit, PrepareFails
  <2>5. Marked'
    BY <1>2, <2>0, RuntimeAssumption DEF RInv, Types, Alone, Known, Marked, InitRecord, Fault,
       Same, NoInit, PrepareFails
  <2>6. QED BY <2>1, <2>2, <2>3, <2>4, <2>5 DEF RInv
<1>3. CASE Recover
  <2>1. Types'
    BY <1>3, RuntimeAssumption DEF RInv, Types, InnerRecord, InitRecord, States, Actions, Stages,
       Alive, Same, Recover
  <2>2. OneServes'
    BY <1>3, RuntimeAssumption DEF RInv, Types, OneServes, Alive, Same, Recover
  <2>3. Alone'
    BY <1>3, RuntimeAssumption DEF RInv, Types, Alone, Known, InnerRecord, InitRecord, Alive,
       Same, Recover
  <2>4. Known'
    BY <1>3, RuntimeAssumption DEF RInv, Types, Alone, Known, Doomed, Alive, InnerRecord,
       InitRecord, Same, Recover
  <2>5. Marked'
    BY <1>3, RuntimeAssumption DEF RInv, Types, Alone, Known, Marked, InnerRecord, InitRecord,
       Alive, Same, Recover
  <2>6. QED BY <2>1, <2>2, <2>3, <2>4, <2>5 DEF RInv
<1>4. CASE RecoverRefuses
  <2>0. /\ inner' \in InnerRecord /\ init' = NoInit
        /\ inner'.state # "ready" /\ inner'.child = inner.child
    BY <1>4, EndsEffect DEF RInv, States, Actions, RecoverRefuses
  <2>1. Types'
    BY <1>4, <2>0, FreshType, InitUpdate, RuntimeAssumption DEF RInv, Types, Stages, Alive,
       Fault, Same, NoInit, RecoverRefuses
  <2>2. OneServes'
    BY <1>4, <2>0, RuntimeAssumption DEF RInv, Types, OneServes, Alive, Fault, Same, NoInit,
       RecoverRefuses
  <2>3. Alone'
    BY <1>4, <2>0, RuntimeAssumption DEF RInv, Types, Alone, Known, InitRecord, Alive, Fault,
       Same, NoInit, RecoverRefuses
  <2>4. Known'
    BY <1>4, <2>0, RuntimeAssumption DEF RInv, Types, Alone, Known, Doomed, Alive, InitRecord,
       Fault, Same, NoInit, RecoverRefuses
  <2>5. Marked'
    BY <1>4, <2>0, RuntimeAssumption DEF RInv, Types, Alone, Known, Marked, InitRecord, Alive,
       Fault, Same, NoInit, RecoverRefuses
  <2>6. QED BY <2>1, <2>2, <2>3, <2>4, <2>5 DEF RInv
<1>5. CASE Check
  <2>0. /\ inner' \in InnerRecord /\ inner'.child = inner.child
        /\ \/ init' = NoInit /\ inner'.state # "ready"
           \/ init' = [init EXCEPT !.at = "spawn"] /\ inner' = inner
    <3>1. CASE EndpointOpen
      BY <1>5, <3>1, EndsEffect DEF RInv, States, Actions, Check
    <3>2. CASE ~EndpointOpen
      BY <1>5, <3>2 DEF RInv, Types, Check
    <3>3. QED BY <3>1, <3>2
  <2>1. Types'
    <3>1. init' \in InitRecord
      BY <2>0, FreshType, InitUpdate DEF RInv, Types, Stages
    <3>2. UNCHANGED <<desktop, marker, life, ours, condemned, foreign, faults>>
      BY <1>5 DEF Check, Same
    <3>3. QED BY <2>0, <3>1, <3>2 DEF RInv, Types
  <2>2. OneServes'
    BY <1>5, <2>0, RuntimeAssumption DEF RInv, Types, OneServes, EndpointOpen, Same, NoInit,
       Check
  <2>3. Alone'
    BY <1>5, <2>0, RuntimeAssumption DEF RInv, Types, Alone, Known, InitRecord, EndpointOpen,
       Same, NoInit, Check
  <2>4. Known'
    BY <1>5, <2>0, RuntimeAssumption DEF RInv, Types, Alone, Known, Doomed, Alive, InitRecord,
       EndpointOpen, Same, NoInit, Check
  <2>5. Marked'
    BY <1>5, <2>0, RuntimeAssumption DEF RInv, Types, Alone, Known, Marked, InitRecord,
       EndpointOpen, Same, NoInit, Check
  <2>6. QED BY <2>1, <2>2, <2>3, <2>4, <2>5 DEF RInv
<1>6. CASE StartFails
  <2>0. /\ inner' \in InnerRecord /\ init' = NoInit
        /\ inner'.state # "ready" /\ inner'.child = inner.child
    BY <1>6, EndsEffect DEF RInv, States, Actions, StartFails
  <2>1. Types'
    BY <1>6, <2>0, FreshType, InitUpdate, RuntimeAssumption DEF RInv, Types, Stages, Fault, Same,
       NoInit, StartFails
  <2>2. OneServes'
    BY <1>6, <2>0, RuntimeAssumption DEF RInv, Types, OneServes, Fault, Same, NoInit, StartFails
  <2>3. Alone'
    BY <1>6, <2>0, RuntimeAssumption DEF RInv, Types, Alone, Known, InitRecord, Fault, Same,
       NoInit, StartFails
  <2>4. Known'
    BY <1>6, <2>0, RuntimeAssumption DEF RInv, Types, Alone, Known, Doomed, Alive, InitRecord,
       Fault, Same, NoInit, StartFails
  <2>5. Marked'
    BY <1>6, <2>0, RuntimeAssumption DEF RInv, Types, Alone, Known, Marked, InitRecord, Fault,
       Same, NoInit, StartFails
  <2>6. QED BY <2>1, <2>2, <2>3, <2>4, <2>5 DEF RInv
<1>7. CASE Mark
  <2>1. Types'
    BY <1>7, RuntimeAssumption DEF RInv, Types, InnerRecord, InitRecord, States, Actions, Stages,
       Same, Mark
  <2>2. OneServes'
    BY <1>7, RuntimeAssumption DEF RInv, Types, OneServes, Same, Mark
  <2>3. Alone'
    BY <1>7, RuntimeAssumption DEF RInv, Types, Alone, Known, InnerRecord, InitRecord, Same, Mark
  <2>4. Known'
    BY <1>7, RuntimeAssumption DEF RInv, Types, Alone, Known, Doomed, Alive, InnerRecord,
       InitRecord, Same, Mark
  <2>5. Marked'
    BY <1>7, RuntimeAssumption DEF RInv, Types, Alone, Known, Marked, InnerRecord, InitRecord,
       Same, Mark
  <2>6. QED BY <2>1, <2>2, <2>3, <2>4, <2>5 DEF RInv
<1>8. CASE MarkFails
  <2>0. /\ inner' \in InnerRecord /\ init' = NoInit
        /\ inner'.state # "ready" /\ inner'.child = inner.child
    BY <1>8, EndsEffect DEF RInv, States, Actions, MarkFails
  <2>1. Types'
    <3>1. inner' \in InnerRecord /\ init' \in InitRecord
      BY <1>8, <2>0, FreshType, InitUpdate, RuntimeAssumption DEF RInv, Types, Stages, Fault,
         Same, Gone, NoInit, MarkFails
    <3>2. desktop' \in {"down", "up", "leaving"} /\ marker' \in Sidecar \cup {None, Stray}
      BY <1>8, <2>0, FreshType, InitUpdate, RuntimeAssumption DEF RInv, Types, Stages, Fault,
         Same, Gone, NoInit, MarkFails, InitRecord
    <3>3. life' \in [Sidecar -> {"gone", "booting", "serving"}]
      BY <1>8, <2>0, FreshType, InitUpdate, RuntimeAssumption DEF RInv, Types, Stages, Fault,
         Same, Gone, NoInit, MarkFails
    <3>4. ours' \subseteq Sidecar /\ condemned' \subseteq ours'
      BY <1>8, <2>0, FreshType, InitUpdate, RuntimeAssumption DEF RInv, Types, Stages, Fault,
         Same, Gone, NoInit, MarkFails
    <3>5. foreign' \in BOOLEAN /\ faults' \in 0 .. MaxFaults
      BY <1>8, RuntimeAssumption DEF RInv, Types, Fault, Same, MarkFails
    <3>6. QED BY <3>1, <3>2, <3>3, <3>4, <3>5 DEF Types
  <2>2. OneServes'
    BY <1>8, <2>0, RuntimeAssumption DEF RInv, Types, OneServes, Fault, Same, Gone, NoInit,
       MarkFails
  <2>3. Alone'
    BY <1>8, <2>0, RuntimeAssumption DEF RInv, Types, Alone, Known, InitRecord, Fault, Same,
       Gone, NoInit, MarkFails
  <2>4. Known'
    BY <1>8, <2>0, RuntimeAssumption DEF RInv, Types, Alone, Known, Doomed, Alive, InitRecord,
       Fault, Same, Gone, NoInit, MarkFails
  <2>5. Marked'
    BY <1>8, <2>0, RuntimeAssumption DEF RInv, Types, Alone, Known, Marked, InitRecord, Fault,
       Same, Gone, NoInit, MarkFails
  <2>6. QED BY <2>1, <2>2, <2>3, <2>4, <2>5 DEF RInv
<1>9. CASE Ready
  <2>1. Types'
    BY <1>9, RuntimeAssumption DEF RInv, Types, InnerRecord, InitRecord, States, Actions, Stages,
       Same, Ready
  <2>2. OneServes'
    BY <1>9, RuntimeAssumption DEF RInv, Types, OneServes, Same, Ready
  <2>3. Alone'
    BY <1>9, RuntimeAssumption DEF RInv, Types, Alone, Known, InnerRecord, InitRecord, Same,
       Ready
  <2>4. Known'
    BY <1>9, RuntimeAssumption DEF RInv, Types, Alone, Known, Doomed, Alive, InnerRecord,
       InitRecord, Same, Ready
  <2>5. Marked'
    BY <1>9, RuntimeAssumption DEF RInv, Types, Alone, Known, Marked, InnerRecord, InitRecord,
       Same, Ready
  <2>6. QED BY <2>1, <2>2, <2>3, <2>4, <2>5 DEF RInv
<1>10. CASE NeverReady
  <2>0. /\ inner' \in InnerRecord /\ init' = NoInit
        /\ inner'.state # "ready" /\ inner'.child = inner.child
    BY <1>10, EndsEffect DEF RInv, States, Actions, NeverReady
  <2>1. Types'
    BY <1>10, <2>0, FreshType, InitUpdate, RuntimeAssumption DEF RInv, Types, Stages, Fault,
       Same, Gone, NoInit, NeverReady
  <2>2. OneServes'
    BY <1>10, <2>0, RuntimeAssumption DEF RInv, Types, OneServes, Fault, Same, Gone, NoInit,
       NeverReady
  <2>3. Alone'
    BY <1>10, <2>0, RuntimeAssumption DEF RInv, Types, Alone, Known, InitRecord, Fault, Same,
       Gone, NoInit, NeverReady
  <2>4. Known'
    BY <1>10, <2>0, RuntimeAssumption DEF RInv, Types, Alone, Known, Doomed, Alive, InitRecord,
       Fault, Same, Gone, NoInit, NeverReady
  <2>5. Marked'
    BY <1>10, <2>0, RuntimeAssumption DEF RInv, Types, Alone, Known, Marked, InitRecord, Fault,
       Same, Gone, NoInit, NeverReady
  <2>6. QED BY <2>1, <2>2, <2>3, <2>4, <2>5 DEF RInv
<1>11. CASE StoreChild
  <2>1. Types'
    BY <1>11, RuntimeAssumption DEF RInv, Types, InnerRecord, InitRecord, States, Actions,
       Stages, Same, NoInit, StoreChild
  <2>2. OneServes'
    BY <1>11, RuntimeAssumption DEF RInv, Types, OneServes, Same, NoInit, StoreChild
  <2>3. Alone'
    BY <1>11, RuntimeAssumption DEF RInv, Types, Alone, Known, InnerRecord, InitRecord, Same,
       NoInit, StoreChild
  <2>4. Known'
    BY <1>11, RuntimeAssumption DEF RInv, Types, Alone, Known, Doomed, Alive, InnerRecord,
       InitRecord, Same, NoInit, StoreChild
  <2>5. Marked'
    BY <1>11, RuntimeAssumption DEF RInv, Types, Alone, Known, Marked, InnerRecord, InitRecord,
       Same, NoInit, StoreChild
  <2>6. QED BY <2>1, <2>2, <2>3, <2>4, <2>5 DEF RInv
<1>12. QED BY <1>1, <1>2, <1>3, <1>4, <1>5, <1>6, <1>7, <1>8, <1>9, <1>10, <1>11

(* The handlers of the running desktop, and its end.                       *)
LEMMA HandlerSteps ==
  ASSUME RInv, Poll \/ ProxyRequest \/ Repair \/ Quit \/ Leave \/ Crash
  PROVE  RInv'
<1>1. CASE Poll
  <2>0. /\ inner' \in InnerRecord
        /\ UNCHANGED <<desktop, init, ours, condemned, foreign>> /\ faults' \in 0 .. MaxFaults
        /\ inner.child # None
        /\ \/ /\ inner'.child = inner.child /\ inner'.secrets = inner.secrets
              /\ inner'.state = inner.state /\ UNCHANGED <<life, marker>>
           \/ /\ inner'.child = None /\ inner'.state = "unavailable"
              /\ life' = Gone(inner.child) /\ marker' = None
    <3>1. RInv /\ DropChild => inner' \in InnerRecord /\ inner'.child = None
                              /\ inner'.state = "unavailable"
      BY RevokedType DEF DropChild, RInv
    <3>2. ASSUME NEW n \in 0 .. Threshold - 1, inner' = [inner EXCEPT !.failures = n],
                 UNCHANGED <<life, marker>>
          PROVE  /\ inner' \in InnerRecord
                 /\ inner'.child = inner.child /\ inner'.secrets = inner.secrets
                 /\ inner'.state = inner.state
      BY <3>2, InnerUpdate DEF RInv, Types, InnerRecord
    <3>3. ~(inner.failures + 1 >= Threshold) => inner.failures + 1 \in 0 .. Threshold - 1
      BY RuntimeAssumption DEF RInv, Types, InnerRecord
    <3>4. UNCHANGED <<desktop, init, ours, condemned, foreign>> /\ faults' \in 0 .. MaxFaults
      BY <1>1, RuntimeAssumption DEF Poll, Same, Fault, RInv, Types
    <3>5. QED
      BY <1>1, <3>1, <3>2, <3>3, <3>4, RevokedType, Defaults DEF Poll, Unanswered, DropChild, RInv
  <2>1. Types'
    BY <1>1, <2>0, FreshType, InitUpdate, RuntimeAssumption DEF RInv, Types, Stages, Fault, Same,
       Exited, Proves, Gone
  <2>2. OneServes'
    BY <1>1, <2>0, RuntimeAssumption DEF RInv, Types, OneServes, Fault, Same, Exited, Proves,
       Gone
  <2>3. Alone'
    BY <1>1, <2>0, RuntimeAssumption DEF RInv, Types, Alone, Known, InitRecord, Fault, Same,
       Exited, Proves, Gone
  <2>4. Known'
    BY <1>1, <2>0, RuntimeAssumption DEF RInv, Types, Alone, Known, Doomed, Alive, InitRecord,
       Fault, Same, Exited, Proves, Gone
  <2>5. Marked'
    BY <1>1, <2>0, RuntimeAssumption DEF RInv, Types, Alone, Known, Marked, InitRecord, Fault,
       Same, Exited, Proves, Gone
  <2>6. QED BY <2>1, <2>2, <2>3, <2>4, <2>5 DEF RInv
<1>2. CASE ProxyRequest
  <2>0. inner' \in InnerRecord /\ inner'.child = None /\ inner'.state = "unavailable"
    BY <1>2, RevokedType DEF ProxyRequest, TakeChild, RInv
  <2>1. Types'
    <3>1. inner' \in InnerRecord /\ init' \in InitRecord
      BY <1>2, <2>0, FreshType, InitUpdate, RuntimeAssumption DEF RInv, Types, Stages, Fault,
         Same, Exited, TakeChild, Alive, ProxyRequest
    <3>2. desktop' \in {"down", "up", "leaving"} /\ marker' \in Sidecar \cup {None, Stray}
      BY <1>2, <2>0, FreshType, InitUpdate, RuntimeAssumption DEF RInv, Types, Stages, Fault,
         Same, Exited, TakeChild, Alive, ProxyRequest, InitRecord
    <3>3. life' \in [Sidecar -> {"gone", "booting", "serving"}]
      BY <1>2, <2>0, FreshType, InitUpdate, RuntimeAssumption DEF RInv, Types, Stages, Fault,
         Same, Exited, TakeChild, Alive, ProxyRequest
    <3>4. ours' \subseteq Sidecar /\ condemned' \subseteq ours'
      BY <1>2, <2>0, FreshType, InitUpdate, RuntimeAssumption DEF RInv, Types, Stages, Fault,
         Same, Exited, TakeChild, Alive, ProxyRequest, Known
    <3>5. foreign' \in BOOLEAN /\ faults' \in 0 .. MaxFaults
      BY <1>2, <2>0, FreshType, InitUpdate, RuntimeAssumption DEF RInv, Types, Stages, Fault,
         Same, Exited, TakeChild, Alive, ProxyRequest
    <3>6. QED BY <3>1, <3>2, <3>3, <3>4, <3>5 DEF Types
  <2>2. OneServes'
    BY <1>2, <2>0, RuntimeAssumption DEF RInv, Types, OneServes, Fault, Same, Exited, TakeChild,
       Alive, ProxyRequest
  <2>3. Alone'
    BY <1>2, <2>0, RuntimeAssumption DEF RInv, Types, Alone, Known, InitRecord, Fault, Same,
       Exited, TakeChild, Alive, ProxyRequest
  <2>4. Known'
    BY <1>2, <2>0, RuntimeAssumption DEF RInv, Types, Alone, Known, Doomed, Alive, InitRecord,
       Fault, Same, Exited, TakeChild, ProxyRequest
  <2>5. Marked'
    BY <1>2, <2>0, RuntimeAssumption DEF RInv, Types, Alone, Known, Marked, InitRecord, Fault,
       Same, Exited, TakeChild, Alive, ProxyRequest
  <2>6. QED BY <2>1, <2>2, <2>3, <2>4, <2>5 DEF RInv
<1>3. CASE Repair
  <2>0. /\ inner' \in InnerRecord /\ inner'.child = None
        /\ \/ inner'.state # "ready" /\ UNCHANGED <<init, marker>>
           \/ /\ inner'.state = inner.state /\ inner'.repairing
              /\ init' = [NoInit EXCEPT !.at = "recover"] /\ marker' = None
    <3>1. CASE EndpointOpen
      <4>1. "port_collision" \in States /\ "close_conflicting_app" \in Actions
        BY DEF States, Actions
      <4>2. inner' = [inner EXCEPT !.state = "port_collision", !.action = "close_conflicting_app"]
        BY <1>3, <3>1 DEF Repair
      <4>3. inner' \in InnerRecord
        BY <4>1, <4>2 DEF RInv, Types, InnerRecord
      <4>4. inner'.child = inner.child /\ inner'.state = "port_collision"
        BY <4>2 DEF RInv, Types, InnerRecord
      <4>5. QED BY <1>3, <3>1, <4>3, <4>4 DEF Repair
    <3>2. CASE ~EndpointOpen
      <4>1. inner' = [inner EXCEPT !.repairing = TRUE]
        BY <1>3, <3>2 DEF Repair
      <4>2. inner' \in InnerRecord
        BY <4>1 DEF RInv, Types, InnerRecord
      <4>3. inner'.child = inner.child /\ inner'.state = inner.state /\ inner'.repairing
        BY <4>1 DEF RInv, Types, InnerRecord
      <4>4. QED BY <1>3, <3>2, <4>2, <4>3 DEF Repair
    <3>3. QED BY <3>1, <3>2
  <2>1. Types'
    <3>1. inner' \in InnerRecord /\ init' \in InitRecord
      <4>1. "recover" \in Stages
        BY DEF Stages
      <4>2. NoInit \in InitRecord /\ [NoInit EXCEPT !.at = "recover"] \in InitRecord
        BY <4>1, FreshType, InitUpdate
      <4>3. QED BY <2>0, <4>2 DEF RInv, Types
    <3>2. desktop' \in {"down", "up", "leaving"} /\ marker' \in Sidecar \cup {None, Stray}
      BY <1>3, <2>0, FreshType, InitUpdate, RuntimeAssumption DEF RInv, Types, Stages,
         EndpointOpen, Same, NoInit, Repair, InitRecord
    <3>3. life' \in [Sidecar -> {"gone", "booting", "serving"}]
      BY <1>3, <2>0, FreshType, InitUpdate, RuntimeAssumption DEF RInv, Types, Stages,
         EndpointOpen, Same, NoInit, Repair
    <3>4. ours' \subseteq Sidecar /\ condemned' \subseteq ours'
      BY <1>3, <2>0, FreshType, InitUpdate, RuntimeAssumption DEF RInv, Types, Stages,
         EndpointOpen, Same, NoInit, Repair
    <3>5. foreign' \in BOOLEAN /\ faults' \in 0 .. MaxFaults
      BY <1>3, <2>0, FreshType, InitUpdate, RuntimeAssumption DEF RInv, Types, Stages,
         EndpointOpen, Same, NoInit, Repair
    <3>6. QED BY <3>1, <3>2, <3>3, <3>4, <3>5 DEF Types
  <2>2. OneServes'
    BY <1>3, <2>0, RuntimeAssumption DEF RInv, Types, OneServes, EndpointOpen, Same, NoInit,
       Repair
  <2>3. Alone'
    BY <1>3, <2>0, RuntimeAssumption DEF RInv, Types, Alone, Known, InitRecord, EndpointOpen,
       Same, NoInit, Repair
  <2>4. Known'
    BY <1>3, <2>0, RuntimeAssumption DEF RInv, Types, Alone, Known, Doomed, Alive, InitRecord,
       EndpointOpen, Same, NoInit, Repair
  <2>5. Marked'
    BY <1>3, <2>0, RuntimeAssumption DEF RInv, Types, Alone, Known, Marked, InitRecord,
       EndpointOpen, Same, NoInit, Repair
  <2>6. QED BY <2>1, <2>2, <2>3, <2>4, <2>5 DEF RInv
<1>4. CASE Quit
  <2>0. inner' \in InnerRecord /\ inner'.child = None
    <3>1. [Fresh EXCEPT !.paths = inner.paths] \in InnerRecord
      BY FreshType DEF RInv, Types, InnerRecord
    <3>2. QED BY <1>4, <3>1 DEF Quit, Shutdown, Fresh
  <2>1. Types'
    <3>1. inner' \in InnerRecord /\ init' \in InitRecord
      BY <1>4, <2>0, FreshType, InitUpdate, RuntimeAssumption DEF RInv, Types, Stages, Fault,
         Shutdown, Gone, Told, Quit
    <3>2. desktop' \in {"down", "up", "leaving"} /\ marker' \in Sidecar \cup {None, Stray}
      BY <1>4, <2>0, FreshType, InitUpdate, RuntimeAssumption DEF RInv, Types, Stages, Fault,
         Shutdown, Gone, Told, Quit, InitRecord
    <3>3. life' \in [Sidecar -> {"gone", "booting", "serving"}]
      BY <1>4, <2>0, FreshType, InitUpdate, RuntimeAssumption DEF RInv, Types, Stages, Fault,
         Shutdown, Gone, Told, Quit
    <3>4. ours' \subseteq Sidecar /\ condemned' \subseteq ours'
      BY <1>4, <2>0, FreshType, InitUpdate, RuntimeAssumption DEF RInv, Types, Stages, Fault,
         Shutdown, Gone, Told, Quit
    <3>5. foreign' \in BOOLEAN /\ faults' \in 0 .. MaxFaults
      BY <1>4, <2>0, FreshType, InitUpdate, RuntimeAssumption DEF RInv, Types, Stages, Fault,
         Shutdown, Gone, Told, Quit
    <3>6. QED BY <3>1, <3>2, <3>3, <3>4, <3>5 DEF Types
  <2>2. OneServes'
    BY <1>4, <2>0, RuntimeAssumption DEF RInv, Types, OneServes, Fault, Shutdown, Gone, Told,
       Quit
  <2>3. Alone'
    BY <1>4, <2>0, RuntimeAssumption DEF RInv, Types, Alone, Known, InitRecord, Fault, Shutdown,
       Gone, Told, Quit
  <2>4. Known'
    BY <1>4, <2>0, RuntimeAssumption DEF RInv, Types, Alone, Known, Doomed, Alive, InitRecord,
       Fault, Shutdown, Gone, Told, Quit
  <2>5. Marked'
    BY <1>4, <2>0, RuntimeAssumption DEF RInv, Types, Alone, Known, Marked, InitRecord, Fault,
       Shutdown, Gone, Told, Quit
  <2>6. QED BY <2>1, <2>2, <2>3, <2>4, <2>5 DEF RInv
<1>5. CASE Leave
  <2>1. Types'
    BY <1>5, RuntimeAssumption DEF RInv, Types, InnerRecord, InitRecord, States, Actions, Stages,
       Exits, Fresh, NoInit, Leave
  <2>2. OneServes'
    BY <1>5, RuntimeAssumption DEF RInv, Types, OneServes, Exits, Fresh, NoInit, Leave
  <2>3. Alone'
    BY <1>5, RuntimeAssumption DEF RInv, Types, Alone, Known, InnerRecord, InitRecord, Exits,
       Fresh, NoInit, Leave
  <2>4. Known'
    BY <1>5, RuntimeAssumption DEF RInv, Types, Alone, Known, Doomed, Alive, InnerRecord,
       InitRecord, Exits, Fresh, NoInit, Leave
  <2>5. Marked'
    BY <1>5, RuntimeAssumption DEF RInv, Types, Alone, Known, Marked, InnerRecord, InitRecord,
       Exits, Fresh, NoInit, Leave
  <2>6. QED BY <2>1, <2>2, <2>3, <2>4, <2>5 DEF RInv
<1>6. CASE Crash
  <2>1. Types'
    BY <1>6, RuntimeAssumption DEF RInv, Types, InnerRecord, InitRecord, States, Actions, Stages,
       Fault, Exits, Fresh, NoInit, Crash
  <2>2. OneServes'
    BY <1>6, RuntimeAssumption DEF RInv, Types, OneServes, Fault, Exits, Fresh, NoInit, Crash
  <2>3. Alone'
    BY <1>6, RuntimeAssumption DEF RInv, Types, Alone, Known, InnerRecord, InitRecord, Fault,
       Exits, Fresh, NoInit, Crash
  <2>4. Known'
    BY <1>6, RuntimeAssumption DEF RInv, Types, Alone, Known, Doomed, Alive, InnerRecord,
       InitRecord, Fault, Exits, Fresh, NoInit, Crash
  <2>5. Marked'
    BY <1>6, RuntimeAssumption DEF RInv, Types, Alone, Known, Marked, InnerRecord, InitRecord,
       Fault, Exits, Fresh, NoInit, Crash
  <2>6. QED BY <2>1, <2>2, <2>3, <2>4, <2>5 DEF RInv
<1>7. QED BY <1>1, <1>2, <1>3, <1>4, <1>5, <1>6

(* One sidecar is started, stopped, or changes by itself.                  *)
LEMMA SidecarSteps ==
  ASSUME RInv, NEW s \in Sidecar, Spawn(s) \/ StopCondemned(s) \/ Bind(s) \/ Watch(s) \/ Die(s)
  PROVE  RInv'
<1>1. CASE Spawn(s)
  <2>1. Types'
    BY <1>1, RuntimeAssumption DEF RInv, Types, InnerRecord, InitRecord, States, Actions, Stages,
       Same, Unused, Spawn
  <2>2. OneServes'
    BY <1>1, RuntimeAssumption DEF RInv, Types, OneServes, Same, Unused, Spawn
  <2>3. Alone'
    BY <1>1, RuntimeAssumption DEF RInv, Types, Alone, Known, InnerRecord, InitRecord, Same,
       Unused, Spawn
  <2>4. Known'
    BY <1>1, RuntimeAssumption DEF RInv, Types, Alone, Known, Doomed, Alive, InnerRecord,
       InitRecord, Same, Unused, Spawn
  <2>5. Marked'
    BY <1>1, RuntimeAssumption DEF RInv, Types, Alone, Known, Marked, InnerRecord, InitRecord,
       Same, Unused, Spawn
  <2>6. QED BY <2>1, <2>2, <2>3, <2>4, <2>5 DEF RInv
<1>2. CASE StopCondemned(s)
  <2>1. Types'
    BY <1>2, RuntimeAssumption DEF RInv, Types, InnerRecord, InitRecord, States, Actions, Stages,
       Same, Gone, StopCondemned
  <2>2. OneServes'
    BY <1>2, RuntimeAssumption DEF RInv, Types, OneServes, Same, Gone, StopCondemned
  <2>3. Alone'
    BY <1>2, RuntimeAssumption DEF RInv, Types, Alone, Known, InnerRecord, InitRecord, Same,
       Gone, StopCondemned
  <2>4. Known'
    BY <1>2, RuntimeAssumption DEF RInv, Types, Alone, Known, Doomed, Alive, InnerRecord,
       InitRecord, Same, Gone, StopCondemned
  <2>5. Marked'
    BY <1>2, RuntimeAssumption DEF RInv, Types, Alone, Known, Marked, InnerRecord, InitRecord,
       Same, Gone, StopCondemned
  <2>6. QED BY <2>1, <2>2, <2>3, <2>4, <2>5 DEF RInv
<1>3. CASE Bind(s)
  <2>1. Types'
    BY <1>3, RuntimeAssumption DEF RInv, Types, InnerRecord, InitRecord, States, Actions, Stages,
       EndpointOpen, Same, Bind
  <2>2. OneServes'
    BY <1>3, RuntimeAssumption DEF RInv, Types, OneServes, EndpointOpen, Same, Bind
  <2>3. Alone'
    BY <1>3, RuntimeAssumption DEF RInv, Types, Alone, Known, InnerRecord, InitRecord,
       EndpointOpen, Same, Bind
  <2>4. Known'
    BY <1>3, RuntimeAssumption DEF RInv, Types, Alone, Known, Doomed, Alive, InnerRecord,
       InitRecord, EndpointOpen, Same, Bind
  <2>5. Marked'
    BY <1>3, RuntimeAssumption DEF RInv, Types, Alone, Known, Marked, InnerRecord, InitRecord,
       EndpointOpen, Same, Bind
  <2>6. QED BY <2>1, <2>2, <2>3, <2>4, <2>5 DEF RInv
<1>4. CASE Watch(s)
  <2>1. Types'
    BY <1>4, RuntimeAssumption DEF RInv, Types, InnerRecord, InitRecord, States, Actions, Stages,
       Same, Gone, Watch
  <2>2. OneServes'
    BY <1>4, RuntimeAssumption DEF RInv, Types, OneServes, Same, Gone, Watch
  <2>3. Alone'
    BY <1>4, RuntimeAssumption DEF RInv, Types, Alone, Known, InnerRecord, InitRecord, Same,
       Gone, Watch
  <2>4. Known'
    BY <1>4, RuntimeAssumption DEF RInv, Types, Alone, Known, Doomed, Alive, InnerRecord,
       InitRecord, Same, Gone, Watch
  <2>5. Marked'
    BY <1>4, RuntimeAssumption DEF RInv, Types, Alone, Known, Marked, InnerRecord, InitRecord,
       Same, Gone, Watch
  <2>6. QED BY <2>1, <2>2, <2>3, <2>4, <2>5 DEF RInv
<1>5. CASE Die(s)
  <2>1. Types'
    BY <1>5, RuntimeAssumption DEF RInv, Types, InnerRecord, InitRecord, States, Actions, Stages,
       Alive, Fault, Same, Gone, Die
  <2>2. OneServes'
    BY <1>5, RuntimeAssumption DEF RInv, Types, OneServes, Alive, Fault, Same, Gone, Die
  <2>3. Alone'
    BY <1>5, RuntimeAssumption DEF RInv, Types, Alone, Known, InnerRecord, InitRecord, Alive,
       Fault, Same, Gone, Die
  <2>4. Known'
    BY <1>5, RuntimeAssumption DEF RInv, Types, Alone, Known, Doomed, Alive, InnerRecord,
       InitRecord, Fault, Same, Gone, Die
  <2>5. Marked'
    BY <1>5, RuntimeAssumption DEF RInv, Types, Alone, Known, Marked, InnerRecord, InitRecord,
       Alive, Fault, Same, Gone, Die
  <2>6. QED BY <2>1, <2>2, <2>3, <2>4, <2>5 DEF RInv
<1>6. QED BY <1>1, <1>2, <1>3, <1>4, <1>5

(* The rest of the world.                                                  *)
LEMMA WorldSteps ==
  ASSUME RInv, Reuse \/ Listen \/ Unlisten
  PROVE  RInv'
<1>1. CASE Reuse
  <2>1. Types'
    BY <1>1, RuntimeAssumption DEF RInv, Types, InnerRecord, InitRecord, States, Actions, Stages,
       Alive, Fault, Same, Reuse
  <2>2. OneServes'
    BY <1>1, RuntimeAssumption DEF RInv, Types, OneServes, Alive, Fault, Same, Reuse
  <2>3. Alone'
    BY <1>1, RuntimeAssumption DEF RInv, Types, Alone, Known, InnerRecord, InitRecord, Alive,
       Fault, Same, Reuse
  <2>4. Known'
    BY <1>1, RuntimeAssumption DEF RInv, Types, Alone, Known, Doomed, Alive, InnerRecord,
       InitRecord, Fault, Same, Reuse
  <2>5. Marked'
    BY <1>1, RuntimeAssumption DEF RInv, Types, Alone, Known, Marked, InnerRecord, InitRecord,
       Alive, Fault, Same, Reuse
  <2>6. QED BY <2>1, <2>2, <2>3, <2>4, <2>5 DEF RInv
<1>2. CASE Listen
  <2>0. /\ UNCHANGED <<desktop, inner, init, marker, life, ours, condemned>>
        /\ foreign' \in BOOLEAN /\ faults' \in 0 .. MaxFaults
    BY <1>2, RuntimeAssumption DEF Listen, Fault, RInv, Types
  <2>1. Types'
    BY <1>2, <2>0, FreshType, InitUpdate, RuntimeAssumption DEF RInv, Types, Stages,
       EndpointOpen, Fault
  <2>2. OneServes'
    BY <1>2, <2>0, RuntimeAssumption DEF RInv, Types, OneServes, EndpointOpen, Fault
  <2>3. Alone'
    BY <1>2, <2>0, RuntimeAssumption DEF RInv, Types, Alone, Known, InitRecord, EndpointOpen,
       Fault
  <2>4. Known'
    BY <1>2, <2>0, RuntimeAssumption DEF RInv, Types, Alone, Known, Doomed, Alive, InitRecord,
       EndpointOpen, Fault
  <2>5. Marked'
    BY <1>2, <2>0, RuntimeAssumption DEF RInv, Types, Alone, Known, Marked, InitRecord,
       EndpointOpen, Fault
  <2>6. QED BY <2>1, <2>2, <2>3, <2>4, <2>5 DEF RInv
<1>3. CASE Unlisten
  <2>0. /\ UNCHANGED <<desktop, inner, init, marker, life, ours, condemned, faults>>
        /\ foreign' \in BOOLEAN
    BY <1>3 DEF Unlisten
  <2>1. Types'
    BY <1>3, <2>0, FreshType, InitUpdate, RuntimeAssumption DEF RInv, Types, Stages
  <2>2. OneServes'
    BY <1>3, <2>0, RuntimeAssumption DEF RInv, Types, OneServes
  <2>3. Alone'
    BY <1>3, <2>0, RuntimeAssumption DEF RInv, Types, Alone, Known, InitRecord
  <2>4. Known'
    BY <1>3, <2>0, RuntimeAssumption DEF RInv, Types, Alone, Known, Doomed, Alive, InitRecord
  <2>5. Marked'
    BY <1>3, <2>0, RuntimeAssumption DEF RInv, Types, Alone, Known, Marked, InitRecord
  <2>6. QED BY <2>1, <2>2, <2>3, <2>4, <2>5 DEF RInv
<1>4. QED BY <1>1, <1>2, <1>3

LEMMA InitInductive == Init => RInv
<1> SUFFICES ASSUME Init
             PROVE  RInv
  OBVIOUS
<1>1. Types
  <2>1. life \in [Sidecar -> {"gone", "booting", "serving"}]
    BY DEF Init
  <2>2. ours \subseteq Sidecar /\ condemned \subseteq ours /\ foreign \in BOOLEAN
    BY DEF Init
  <2>3. faults \in 0 .. MaxFaults
    BY RuntimeAssumption DEF Init
  <2>4. QED BY <2>1, <2>2, <2>3, FreshType DEF Init, Types
<1>2. OneServes /\ Alone /\ Known /\ Marked
  BY DEF Init, OneServes, Alone, Known, Marked, Fresh, NoInit, Alive
<1>3. QED BY <1>1, <1>2 DEF RInv

LEMMA NextInductive == RInv /\ [Next]_vars => RInv'
<1> SUFFICES ASSUME RInv, [Next]_vars
             PROVE  RInv'
  OBVIOUS
<1>1. CASE UNCHANGED vars
  BY <1>1 DEF vars, RInv, Types, OneServes, Alone, Known, Marked, Alive, Doomed
<1>2. CASE Next
  BY <1>2, StartSteps, HandlerSteps, SidecarSteps, WorldSteps DEF Next, Initialize
<1>3. QED BY <1>1, <1>2

(* Whatever starts, failures, crashes and repairs come in whatever order,  *)
(* the bookkeeping of runtime.rs (child, marker, secrets, condemned        *)
(* children) knows every sidecar that lives.                               *)
THEOREM Inductive == Spec => []RInv
  BY InitInductive, NextInductive, PTL DEF Spec
-----------------------------------------------------------------------------
LEMMA AtMostOne ==
  ASSUME NEW S, \A s, t \in S : s = t
  PROVE  Cardinality(S) =< 1
<1>1. CASE S = {}
  BY <1>1, FS_EmptySet
<1>2. CASE S # {}
  <2>1. PICK s \in S : S = {s}
    BY <1>2
  <2>2. Cardinality(S) = 1
    BY <2>1, FS_Singleton
  <2>3. QED BY <2>2
<1>3. QED BY <1>1, <1>2

LEMMA InvariantTypes == RInv => TypeOK
<1> SUFFICES ASSUME RInv
             PROVE  TypeOK
  OBVIOUS
<1>1. Cardinality({s \in Sidecar : life[s] = "serving"}) =< 1
  BY AtMostOne DEF RInv, OneServes
<1>2. {inner.repairing, inner.paths, foreign} \subseteq BOOLEAN
  BY DEF RInv, Types, InnerRecord
<1>3. QED BY <1>1, <1>2 DEF RInv, Types, InnerRecord, InitRecord, States, Actions, Stages, TypeOK

LEMMA InvariantOwned == RInv => Owned
<1> SUFFICES ASSUME RInv
             PROVE  Owned
  OBVIOUS
<1>1. desktop = "up" /\ inner.state = "ready" =>
         /\ inner.child # None /\ inner.secrets = inner.child
         /\ marker = inner.child /\ ~Doomed(inner.child)
  BY DEF RInv, Marked, Known, Doomed
<1>2. ASSUME NEW s \in Alive, NEW t \in Alive, s # t
      PROVE  Doomed(s) \/ Doomed(t)
  <2>1. inner.child = None \/ init.child = None
    BY DEF RInv, Alone
  <2>2. s # None /\ t # None
    BY RuntimeAssumption DEF Alive
  <2>3. QED BY <1>2, <2>1, <2>2 DEF RInv, Known
<1>3. QED BY <1>1, <1>2 DEF Owned

(* Every variable keeps its type, and at most one sidecar serves.          *)
THEOREM TypeCorrect == Spec => []TypeOK
  BY Inductive, InvariantTypes, PTL

(* initialize, status, verified_runtime_secrets, repair and shutdown: a    *)
(* ready desktop has the secrets of its own sidecar, which the marker      *)
(* names, and every other living sidecar is about to end.                  *)
THEOREM SidecarOwned == Spec => []Owned
  BY Inductive, InvariantOwned, PTL
-----------------------------------------------------------------------------
(* The composition.                                                        *)

RequestRecord ==
    [for : File \cup Deletion, copy : Copy \cup {1}, in : Sidecar,
     at : {"arrived", "challenge", "accepted"}, seen : SUBSET (File \cup Deletion)]

DesktopTypes ==
    /\ scopes \subseteq File /\ staged \subseteq File /\ lapsed \subseteq File \cup Deletion
    /\ file \in [File -> {"new", "staging", "chosen", "importing", "waiting", "done", "failed"}]
    /\ deletion \in [Deletion -> {"new", "asking", "sending", "waiting", "clearing",
                                  "sweeping", "done", "failed"}]
    /\ challenges \subseteq [for : Deletion, in : Sidecar]
    /\ requests \subseteq RequestRecord
    /\ imported \in [File -> Nat] /\ cleared \in [Deletion -> Nat]

(* Challenges and requests end with their sidecar.                         *)
Living ==
    /\ \A c \in challenges : life[c.in] # "gone"
    /\ \A r \in requests : life[r.in] # "gone"

(* A file is sent once, by the import that took its scope.                 *)
SentOnce ==
    /\ \A f \in scopes : file[f] = "chosen"
    /\ \A r \in requests : r.for \in File =>
          /\ r.at = "arrived" /\ imported[r.for] = 0
          /\ file[r.for] \in {"waiting", "done", "failed"}
          /\ \A q \in requests : q.for = r.for => q = r
    /\ \A f \in File : /\ imported[f] =< 1
                       /\ imported[f] = 1 => file[f] \in {"waiting", "done", "failed"}

(* The right to clear the project once is, for each deletion, at one place *)
(* only: in the request for a challenge, in the challenge, in the request  *)
(* that consumed it, or used.                                              *)
Bears(r) == r.at \in {"challenge", "accepted"}

OneRight ==
    /\ \A r \in requests : Bears(r) =>
          /\ cleared[r.for] = 0 /\ deletion[r.for] # "new"
          /\ \A q \in requests : Bears(q) /\ q.for = r.for => q = r
          /\ \A c \in challenges : c.for # r.for
    /\ \A c \in challenges :
          /\ cleared[c.for] = 0 /\ deletion[c.for] # "new"
          /\ \A e \in challenges : e.for = c.for => e = c
    /\ \A d \in Deletion :
          /\ cleared[d] =< 1
          /\ cleared[d] = 1 => deletion[d] # "new"
          /\ deletion[d] \in {"clearing", "sweeping", "done"} => cleared[d] = 1

(* From the moment the staging directory is prepared.                      *)
PathsReady == inner.paths \/ init.at \in {"check", "spawn", "mark", "wait", "store"}

Swept ==
    desktop = "up" /\ PathsReady =>
        staged \subseteq scopes \cup
            {f \in File : file[f] \in {"staging", "importing", "waiting"}}

DInv ==
    /\ RInv
    /\ DesktopTypes
    /\ Living
    /\ SentOnce
    /\ OneRight
    /\ Swept
-----------------------------------------------------------------------------
(* A step of the composition is a step of Runtime or leaves it alone.      *)
LEMMA StepOfRuntime == [DesktopNext]_deskvars => [Next]_vars
<1>1. RuntimeStep => Next
  BY DEF RuntimeStep, Prepared, Dropped, Ended, Elsewhere, Next, Initialize
<1>2. DesktopNext => RuntimeStep \/ UNCHANGED vars
  BY DEF DesktopNext, Stage, Choose, BeginImport, SendImport, EndImport, Lapse, Confirm,
     ClearScopes, Sweep, GiveUp, Send, HandleImport, Issue, Consume, Clear
<1>3. UNCHANGED deskvars => UNCHANGED vars
  BY DEF deskvars
<1>4. QED BY <1>1, <1>2, <1>3

(* The paths of a running desktop become ready only with an empty staging  *)
(* directory.                                                              *)
LEMMA PathsStayReady ==
  ASSUME RInv, Elsewhere, desktop' = "up", PathsReady'
  PROVE  desktop = "up" /\ PathsReady
<1>1. CASE Launch
  BY <1>1 DEF Launch, Fresh, NoInit, PathsReady
<1>2. CASE Check \/ Mark \/ Ready \/ NeverReady \/ StoreChild \/ StartFails \/ MarkFails
           \/ \E s \in Sidecar : Spawn(s)
  <2>1. init.at \in {"check", "spawn", "mark", "wait", "store"}
    BY <1>2 DEF Check, Mark, Ready, NeverReady, StoreChild, StartFails, MarkFails, Spawn
  <2>2. UNCHANGED desktop
    BY <1>2 DEF Check, Mark, Ready, NeverReady, StoreChild, StartFails, MarkFails, Spawn, Same
  <2>3. QED BY <2>1, <2>2 DEF PathsReady
<1>3. CASE PrepareFails
  BY <1>3 DEF PrepareFails, Same, NoInit, PathsReady
<1>4. CASE Poll
  <2>1. inner'.paths = inner.paths
    BY <1>4 DEF Poll, DropChild, Revoked, Unanswered, RInv, Types, InnerRecord
  <2>2. QED BY <1>4, <2>1 DEF Poll, Same, PathsReady
<1>5. CASE Repair
  <2>1. inner'.paths = inner.paths
    BY <1>5 DEF Repair, RInv, Types, InnerRecord
  <2>2. UNCHANGED init \/ init'.at = "recover"
    BY <1>5 DEF Repair, NoInit
  <2>3. QED BY <1>5, <2>1, <2>2 DEF Repair, Same, PathsReady
<1>6. CASE \/ \E s \in Sidecar : StopCondemned(s) \/ Bind(s) \/ Watch(s) \/ Die(s)
           \/ Reuse \/ Listen \/ Unlisten
  BY <1>6 DEF StopCondemned, Bind, Watch, Die, Reuse, Listen, Unlisten, Same, PathsReady
<1>7. QED BY <1>1, <1>2, <1>3, <1>4, <1>5, <1>6 DEF Elsewhere

(* A step of the runtime drops scopes, snapshots, requests and challenges, *)
(* and adds none.                                                          *)
LEMMA RuntimeStepOnlyDrops ==
  ASSUME RuntimeStep
  PROVE  /\ UNCHANGED <<lapsed, imported, cleared>>
         /\ challenges' = OfTheLiving(challenges) /\ requests' = OfTheLiving(requests)
         /\ scopes' \in {scopes, {}} /\ staged' \subseteq staged
         /\ \/ UNCHANGED <<file, deletion>>
            \/ /\ scopes' = {}
               /\ file' = [f \in File |-> Over(file[f])]
               /\ deletion' = [d \in Deletion |-> Over(deletion[d])]
  BY DEF RuntimeStep, Outlived, Prepared, Dropped, Ended, Elsewhere

LEMMA RuntimeSteps ==
  ASSUME DInv, RInv', RuntimeStep
  PROVE  DInv'
<1>1. challenges' \subseteq challenges /\ requests' \subseteq requests
  BY RuntimeStepOnlyDrops DEF OfTheLiving
<1>2. DesktopTypes'
  BY <1>1, RuntimeStepOnlyDrops DEF DInv, DesktopTypes, Over
<1>3. Living'
  BY <1>1, RuntimeStepOnlyDrops DEF Living, OfTheLiving
<1>4. SentOnce'
  BY <1>1, RuntimeStepOnlyDrops DEF DInv, DesktopTypes, SentOnce, Over
<1>5. OneRight'
  <2>1. \A d \in Deletion :
           /\ cleared'[d] = cleared[d]
           /\ deletion[d] # "new" => deletion'[d] # "new"
           /\ deletion'[d] \in {"clearing", "sweeping", "done"} => deletion'[d] = deletion[d]
    BY RuntimeStepOnlyDrops DEF Over
  <2>2. ASSUME NEW r \in requests', Bears(r)
        PROVE  /\ cleared'[r.for] = 0 /\ deletion'[r.for] # "new"
               /\ \A q \in requests' : Bears(q) /\ q.for = r.for => q = r
               /\ \A c \in challenges' : c.for # r.for
    <3>1. r \in requests /\ r.for \in Deletion
      BY <1>1, <2>2 DEF DInv, DesktopTypes, SentOnce, RequestRecord, Bears
    <3>2. QED BY <1>1, <2>1, <2>2, <3>1 DEF DInv, OneRight
  <2>3. ASSUME NEW c \in challenges'
        PROVE  /\ cleared'[c.for] = 0 /\ deletion'[c.for] # "new"
               /\ \A e \in challenges' : e.for = c.for => e = c
    BY <1>1, <2>1 DEF DInv, DesktopTypes, OneRight
  <2>4. QED BY <2>1, <2>2, <2>3 DEF DInv, OneRight, Bears
<1>6. Swept'
  <2>1. CASE Prepared
    BY <2>1 DEF Prepared, Swept
  <2>2. CASE Dropped
    <3>1. desktop' = "up" /\ PathsReady' => desktop = "up" /\ PathsReady
      <4>1. CASE ProxyRequest
        <5>1. inner'.paths = inner.paths
          BY <4>1 DEF ProxyRequest, TakeChild, Revoked, DInv, RInv, Types, InnerRecord
        <5>2. QED BY <4>1, <5>1 DEF ProxyRequest, Same, PathsReady
      <4>2. CASE Quit
        BY <4>2 DEF Quit, Shutdown
      <4>3. QED BY <2>2, <4>1, <4>2 DEF Dropped
    <3>2. QED BY <2>2, <3>1 DEF Dropped, DInv, Swept
  <2>3. CASE Ended
    BY <2>3 DEF Ended, Leave, Crash, Exits, Swept
  <2>4. CASE Elsewhere
    BY <2>4, PathsStayReady DEF Elsewhere, DInv, Swept
  <2>5. QED BY <2>1, <2>2, <2>3, <2>4 DEF RuntimeStep
<1>7. QED BY <1>2, <1>3, <1>4, <1>5, <1>6 DEF DInv
-----------------------------------------------------------------------------
(* An import, from the choice of its file to its end.                      *)
LEMMA ImportSteps ==
  ASSUME DInv, RInv', NEW f \in File, Stage(f) \/ Choose(f) \/ BeginImport(f) \/ SendImport(f)
           \/ EndImport(f)
  PROVE  DInv'
<1>1. CASE Stage(f)
  <2>1. DesktopTypes'
    BY <1>1, DesktopAssumption DEF DInv, DesktopTypes, RequestRecord, Goes, Stage, vars
  <2>2. Living'
    BY <1>1, DesktopAssumption DEF DInv, DesktopTypes, Living, Goes, Stage, vars
  <2>3. SentOnce'
    BY <1>1, DesktopAssumption DEF DInv, DesktopTypes, SentOnce, RequestRecord, Goes, Stage, vars
  <2>4. OneRight'
    BY <1>1, DesktopAssumption DEF DInv, DesktopTypes, OneRight, Bears, RequestRecord, Goes,
       Stage, vars
  <2>5. Swept'
    BY <1>1, DesktopAssumption DEF DInv, DesktopTypes, SentOnce, Swept, PathsReady, Goes, Stage,
       vars
  <2>6. QED BY <2>1, <2>2, <2>3, <2>4, <2>5 DEF DInv
<1>2. CASE Choose(f)
  <2>1. DesktopTypes'
    BY <1>2, DesktopAssumption DEF DInv, DesktopTypes, RequestRecord, Goes, Kept, Pruned, Choose,
       vars
  <2>2. Living'
    BY <1>2, DesktopAssumption DEF DInv, DesktopTypes, Living, Goes, Kept, Pruned, Choose, vars
  <2>3. SentOnce'
    BY <1>2, DesktopAssumption DEF DInv, DesktopTypes, SentOnce, RequestRecord, Goes, Kept,
       Pruned, Choose, vars
  <2>4. OneRight'
    BY <1>2, DesktopAssumption DEF DInv, DesktopTypes, OneRight, Bears, RequestRecord, Goes,
       Kept, Pruned, Choose, vars
  <2>5. Swept'
    BY <1>2, DesktopAssumption DEF DInv, DesktopTypes, SentOnce, Swept, PathsReady, Goes, Kept,
       Pruned, Choose, vars
  <2>6. QED BY <2>1, <2>2, <2>3, <2>4, <2>5 DEF DInv
<1>3. CASE BeginImport(f)
  <2>1. DesktopTypes'
    BY <1>3, DesktopAssumption DEF DInv, DesktopTypes, RequestRecord, Goes, Kept, Pruned,
       BeginImport, vars
  <2>2. Living'
    BY <1>3, DesktopAssumption DEF DInv, DesktopTypes, Living, Goes, Kept, Pruned, BeginImport,
       vars
  <2>3. SentOnce'
    BY <1>3, DesktopAssumption DEF DInv, DesktopTypes, SentOnce, RequestRecord, Goes, Kept,
       Pruned, BeginImport, vars
  <2>4. OneRight'
    BY <1>3, DesktopAssumption DEF DInv, DesktopTypes, OneRight, Bears, RequestRecord, Goes,
       Kept, Pruned, BeginImport, vars
  <2>5. Swept'
    BY <1>3, DesktopAssumption DEF DInv, DesktopTypes, SentOnce, Swept, PathsReady, Goes, Kept,
       Pruned, BeginImport, vars
  <2>6. QED BY <2>1, <2>2, <2>3, <2>4, <2>5 DEF DInv
<1>4. CASE SendImport(f)
  <2>1. DesktopTypes'
    BY <1>4, DesktopAssumption DEF DInv, DesktopTypes, RequestRecord, Goes, Verified, Proves,
       Request, SendImport, vars, RInv, Types, InnerRecord
  <2>2. Living'
    BY <1>4, DesktopAssumption DEF DInv, DesktopTypes, Living, Goes, Verified, Proves, Request,
       SendImport, vars, RInv, Types, InnerRecord
  <2>3. SentOnce'
    BY <1>4, DesktopAssumption DEF DInv, DesktopTypes, SentOnce, RequestRecord, Goes, Verified,
       Proves, Request, SendImport, vars, RInv, Types, InnerRecord
  <2>4. OneRight'
    BY <1>4, DesktopAssumption DEF DInv, DesktopTypes, OneRight, Bears, RequestRecord, Goes,
       Verified, Proves, Request, SendImport, vars, RInv, Types, InnerRecord
  <2>5. Swept'
    BY <1>4, DesktopAssumption DEF DInv, DesktopTypes, SentOnce, Swept, PathsReady, Goes,
       Verified, Proves, Request, SendImport, vars, RInv, Types, InnerRecord
  <2>6. QED BY <2>1, <2>2, <2>3, <2>4, <2>5 DEF DInv
<1>5. CASE EndImport(f)
  <2>1. DesktopTypes'
    BY <1>5, DesktopAssumption DEF DInv, DesktopTypes, RequestRecord, Goes, EndImport, vars
  <2>2. Living'
    BY <1>5, DesktopAssumption DEF DInv, DesktopTypes, Living, Goes, EndImport, vars
  <2>3. SentOnce'
    BY <1>5, DesktopAssumption DEF DInv, DesktopTypes, SentOnce, RequestRecord, Goes, EndImport,
       vars
  <2>4. OneRight'
    BY <1>5, DesktopAssumption DEF DInv, DesktopTypes, OneRight, Bears, RequestRecord, Goes,
       EndImport, vars
  <2>5. Swept'
    BY <1>5, DesktopAssumption DEF DInv, DesktopTypes, SentOnce, Swept, PathsReady, Goes,
       EndImport, vars
  <2>6. QED BY <2>1, <2>2, <2>3, <2>4, <2>5 DEF DInv
<1>6. QED BY <1>1, <1>2, <1>3, <1>4, <1>5

(* A deletion, as the desktop sees it.                                     *)
LEMMA DeletionSteps ==
  ASSUME DInv, RInv', NEW d \in Deletion, Confirm(d) \/ ClearScopes(d) \/ Sweep(d) \/ GiveUp(d)
  PROVE  DInv'
<1>1. CASE Confirm(d)
  <2>1. DesktopTypes'
    BY <1>1, DesktopAssumption DEF DInv, DesktopTypes, RequestRecord, Turns, Verified, Proves,
       Request, Confirm, vars, RInv, Types, InnerRecord
  <2>2. Living'
    BY <1>1, DesktopAssumption DEF DInv, DesktopTypes, Living, Turns, Verified, Proves, Request,
       Confirm, vars, RInv, Types, InnerRecord
  <2>3. SentOnce'
    BY <1>1, DesktopAssumption DEF DInv, DesktopTypes, SentOnce, RequestRecord, Turns, Verified,
       Proves, Request, Confirm, vars, RInv, Types, InnerRecord
  <2>4. OneRight'
    BY <1>1, DesktopAssumption DEF DInv, DesktopTypes, OneRight, Bears, RequestRecord, Turns,
       Verified, Proves, Request, Confirm, vars, RInv, Types, InnerRecord
  <2>5. Swept'
    BY <1>1, DesktopAssumption DEF DInv, DesktopTypes, SentOnce, Swept, PathsReady, Turns,
       Verified, Proves, Request, Confirm, vars, RInv, Types, InnerRecord
  <2>6. QED BY <2>1, <2>2, <2>3, <2>4, <2>5 DEF DInv
<1>2. CASE ClearScopes(d)
  <2>1. DesktopTypes'
    BY <1>2, DesktopAssumption DEF DInv, DesktopTypes, RequestRecord, Turns, ClearScopes, vars
  <2>2. Living'
    BY <1>2, DesktopAssumption DEF DInv, DesktopTypes, Living, Turns, ClearScopes, vars
  <2>3. SentOnce'
    BY <1>2, DesktopAssumption DEF DInv, DesktopTypes, SentOnce, RequestRecord, Turns,
       ClearScopes, vars
  <2>4. OneRight'
    BY <1>2, DesktopAssumption DEF DInv, DesktopTypes, OneRight, Bears, RequestRecord, Turns,
       ClearScopes, vars
  <2>5. Swept'
    BY <1>2, DesktopAssumption DEF DInv, DesktopTypes, SentOnce, Swept, PathsReady, Turns,
       ClearScopes, vars
  <2>6. QED BY <2>1, <2>2, <2>3, <2>4, <2>5 DEF DInv
<1>3. CASE Sweep(d)
  <2>1. DesktopTypes'
    BY <1>3, DesktopAssumption DEF DInv, DesktopTypes, RequestRecord, Turns, Sweep, vars
  <2>2. Living'
    BY <1>3, DesktopAssumption DEF DInv, DesktopTypes, Living, Turns, Sweep, vars
  <2>3. SentOnce'
    BY <1>3, DesktopAssumption DEF DInv, DesktopTypes, SentOnce, RequestRecord, Turns, Sweep,
       vars
  <2>4. OneRight'
    BY <1>3, DesktopAssumption DEF DInv, DesktopTypes, OneRight, Bears, RequestRecord, Turns,
       Sweep, vars
  <2>5. Swept'
    BY <1>3, DesktopAssumption DEF DInv, DesktopTypes, SentOnce, Swept, PathsReady, Turns, Sweep,
       vars
  <2>6. QED BY <2>1, <2>2, <2>3, <2>4, <2>5 DEF DInv
<1>4. CASE GiveUp(d)
  <2>1. DesktopTypes'
    BY <1>4, DesktopAssumption DEF DInv, DesktopTypes, RequestRecord, Turns, GiveUp, vars
  <2>2. Living'
    BY <1>4, DesktopAssumption DEF DInv, DesktopTypes, Living, Turns, GiveUp, vars
  <2>3. SentOnce'
    BY <1>4, DesktopAssumption DEF DInv, DesktopTypes, SentOnce, RequestRecord, Turns, GiveUp,
       vars
  <2>4. OneRight'
    BY <1>4, DesktopAssumption DEF DInv, DesktopTypes, OneRight, Bears, RequestRecord, Turns,
       GiveUp, vars
  <2>5. Swept'
    BY <1>4, DesktopAssumption DEF DInv, DesktopTypes, SentOnce, Swept, PathsReady, Turns,
       GiveUp, vars
  <2>6. QED BY <2>1, <2>2, <2>3, <2>4, <2>5 DEF DInv
<1>5. QED BY <1>1, <1>2, <1>3, <1>4

(* A request for a deletion is sent, or sent again.                        *)
LEMMA SendSteps ==
  ASSUME DInv, RInv', NEW d \in Deletion, NEW copy \in Copy, NEW s \in Sidecar, Send(d, copy, s)
  PROVE  DInv'
<1>1. DesktopTypes'
  BY DesktopAssumption DEF DInv, DesktopTypes, RequestRecord, Turns, Serves, Request, Send, vars
<1>2. Living'
  BY DesktopAssumption DEF DInv, DesktopTypes, Living, Turns, Serves, Request, Send, vars
<1>3. SentOnce'
  BY DesktopAssumption DEF DInv, DesktopTypes, SentOnce, RequestRecord, Turns, Serves, Request,
     Send, vars
<1>4. OneRight'
  <2>1. \A q \in requests' : Bears(q) => q \in requests
    BY DEF Send, Request, Bears
  <2>2. \A e \in Deletion :
           /\ deletion[e] # "new" => deletion'[e] # "new"
           /\ deletion'[e] \in {"clearing", "sweeping", "done"} => deletion'[e] = deletion[e]
    BY DEF Send, Turns, DInv, DesktopTypes
  <2>3. UNCHANGED <<challenges, cleared>>
    BY DEF Send
  <2>4. \A r \in requests : Bears(r) => r.for \in Deletion
    BY DEF DInv, DesktopTypes, SentOnce, RequestRecord, Bears
  <2>5. \A c \in challenges : c.for \in Deletion
    BY DEF DInv, DesktopTypes
  <2>6. QED BY <2>1, <2>2, <2>3, <2>4, <2>5 DEF DInv, OneRight, Bears
<1>5. Swept'
  BY DesktopAssumption DEF DInv, DesktopTypes, SentOnce, Swept, PathsReady, Turns, Serves,
     Request, Send, vars
<1>6. QED BY <1>1, <1>2, <1>3, <1>4, <1>5 DEF DInv

(* The time of a scope or challenge is over.                               *)
LEMMA LapseSteps ==
  ASSUME DInv, RInv', NEW x \in File \cup Deletion, Lapse(x)
  PROVE  DInv'
<1>1. DesktopTypes'
  BY DesktopAssumption DEF DInv, DesktopTypes, RequestRecord, Lapse, vars
<1>2. Living'
  BY DesktopAssumption DEF DInv, DesktopTypes, Living, Lapse, vars
<1>3. SentOnce'
  BY DesktopAssumption DEF DInv, DesktopTypes, SentOnce, RequestRecord, Lapse, vars
<1>4. OneRight'
  BY DesktopAssumption DEF DInv, DesktopTypes, OneRight, Bears, RequestRecord, Lapse, vars
<1>5. Swept'
  BY DesktopAssumption DEF DInv, DesktopTypes, SentOnce, Swept, PathsReady, Lapse, vars
<1>6. QED BY <1>1, <1>2, <1>3, <1>4, <1>5 DEF DInv

(* A sidecar works on a request.                                           *)
LEMMA RequestSteps ==
  ASSUME DInv, RInv', NEW r \in requests, HandleImport(r) \/ Issue(r) \/ Consume(r) \/ Clear(r)
  PROVE  DInv'
<1>1. CASE HandleImport(r)
  <2>1. DesktopTypes'
    BY <1>1, DesktopAssumption DEF DInv, DesktopTypes, RequestRecord, Serves, HandleImport, vars
  <2>2. Living'
    BY <1>1, DesktopAssumption DEF DInv, DesktopTypes, Living, Serves, HandleImport, vars
  <2>3. SentOnce'
    BY <1>1, DesktopAssumption DEF DInv, DesktopTypes, SentOnce, RequestRecord, Serves,
       HandleImport, vars
  <2>4. OneRight'
    BY <1>1, DesktopAssumption DEF DInv, DesktopTypes, OneRight, Bears, RequestRecord, Serves,
       HandleImport, vars
  <2>5. Swept'
    BY <1>1, DesktopAssumption DEF DInv, DesktopTypes, SentOnce, Swept, PathsReady, Serves,
       HandleImport, vars
  <2>6. QED BY <2>1, <2>2, <2>3, <2>4, <2>5 DEF DInv
<1>2. CASE Issue(r)
  <2>1. DesktopTypes'
    <3>1. r.for \in Deletion /\ r.in \in Sidecar
      BY <1>2, DesktopAssumption DEF Issue, DInv, DesktopTypes, SentOnce, RequestRecord
    <3>2. challenges' \subseteq [for : Deletion, in : Sidecar]
      BY <1>2, <3>1 DEF Issue, DInv, DesktopTypes
    <3>3. QED BY <1>2, <3>2 DEF Issue, DInv, DesktopTypes
  <2>2. Living'
    BY <1>2, DesktopAssumption DEF DInv, DesktopTypes, Living, Serves, Issue, vars
  <2>3. SentOnce'
    BY <1>2, DesktopAssumption DEF DInv, DesktopTypes, SentOnce, RequestRecord, Serves, Issue,
       vars
  <2>4. OneRight'
    BY <1>2, DesktopAssumption DEF DInv, DesktopTypes, OneRight, Bears, RequestRecord, Serves,
       Issue, vars
  <2>5. Swept'
    BY <1>2, DesktopAssumption DEF DInv, DesktopTypes, SentOnce, Swept, PathsReady, Serves,
       Issue, vars
  <2>6. QED BY <2>1, <2>2, <2>3, <2>4, <2>5 DEF DInv
<1>3. CASE Consume(r)
  <2>1. DesktopTypes'
    BY <1>3, DesktopAssumption DEF DInv, DesktopTypes, RequestRecord, Serves, Answers, Valid,
       Consume, vars
  <2>2. Living'
    <3>1. UNCHANGED life /\ challenges' \subseteq challenges
      BY <1>3 DEF Consume, vars
    <3>2. requests' \subseteq requests \cup {[r EXCEPT !.at = "accepted"]}
      BY <1>3 DEF Consume
    <3>3. [r EXCEPT !.at = "accepted"].in = r.in
      BY DEF DInv, DesktopTypes, RequestRecord
    <3>4. QED BY <3>1, <3>2, <3>3 DEF DInv, Living
  <2>3. SentOnce'
    BY <1>3, DesktopAssumption DEF DInv, DesktopTypes, SentOnce, RequestRecord, Serves, Answers,
       Valid, Consume, vars
  <2>4. OneRight'
    <3>1. r.for \in Deletion /\ r \in RequestRecord
      BY <1>3 DEF Consume, DInv, DesktopTypes
    <3> DEFINE a == [r EXCEPT !.at = "accepted"]
    <3>2. a.for = r.for
      BY <3>1 DEF RequestRecord
    <3>3. UNCHANGED cleared /\ challenges' \subseteq challenges
      BY <1>3 DEF Consume
    <3>4. \A d \in Deletion :
             /\ deletion[d] # "new" => deletion'[d] # "new"
             /\ deletion'[d] \in {"clearing", "sweeping", "done"} => deletion'[d] = deletion[d]
      BY <1>3 DEF Consume, Answers, DInv, DesktopTypes
    <3>5. \A c \in challenges : c.for \in Deletion
      BY DEF DInv, DesktopTypes
    <3>6. \A q \in requests : Bears(q) => q.for \in Deletion
      BY DEF DInv, DesktopTypes, SentOnce, RequestRecord, Bears
    <3>7. CASE Valid(r)
      <4>1. PICK c \in challenges : c.for = r.for /\ c = [for |-> r.for, in |-> r.in]
        BY <3>7 DEF Valid
      <4>2. \A q \in requests : Bears(q) => q.for # r.for
        BY <4>1 DEF DInv, OneRight
      <4>3. \A e \in challenges' : e.for # r.for
        BY <1>3, <3>7, <4>1 DEF Consume, DInv, OneRight
      <4>4. cleared[r.for] = 0 /\ deletion[r.for] # "new"
        BY <4>1 DEF DInv, OneRight
      <4>5. requests' = (requests \ {r}) \cup {a}
        BY <1>3, <3>7 DEF Consume
      <4>6. ASSUME NEW q \in requests', Bears(q)
            PROVE  /\ cleared'[q.for] = 0 /\ deletion'[q.for] # "new"
                   /\ \A p \in requests' : Bears(p) /\ p.for = q.for => p = q
                   /\ \A e \in challenges' : e.for # q.for
        <5>1. CASE q = a
          BY <3>1, <3>2, <3>3, <3>4, <4>2, <4>3, <4>4, <4>5, <5>1
        <5>2. CASE q \in requests
          BY <3>2, <3>3, <3>4, <3>6, <4>2, <4>5, <4>6, <5>2 DEF DInv, OneRight
        <5>3. QED BY <4>5, <4>6, <5>1, <5>2
      <4>7. QED BY <3>3, <3>4, <3>5, <4>6 DEF DInv, OneRight, Bears
    <3>8. CASE ~Valid(r)
      <4>1. requests' \subseteq requests
        BY <1>3, <3>8 DEF Consume
      <4>2. QED BY <3>3, <3>4, <3>5, <3>6, <4>1 DEF DInv, OneRight, Bears
    <3>9. QED BY <3>7, <3>8
  <2>5. Swept'
    BY <1>3, DesktopAssumption DEF DInv, DesktopTypes, SentOnce, Swept, PathsReady, Serves,
       Answers, Valid, Consume, vars
  <2>6. QED BY <2>1, <2>2, <2>3, <2>4, <2>5 DEF DInv
<1>4. CASE Clear(r)
  <2>1. DesktopTypes'
    BY <1>4, DesktopAssumption DEF DInv, DesktopTypes, RequestRecord, Serves, Answers, Clear,
       vars
  <2>2. Living'
    BY <1>4, DesktopAssumption DEF DInv, DesktopTypes, Living, Serves, Answers, Clear, vars
  <2>3. SentOnce'
    BY <1>4, DesktopAssumption DEF DInv, DesktopTypes, SentOnce, RequestRecord, Serves, Answers,
       Clear, vars
  <2>4. OneRight'
    <3>1. Bears(r) /\ r.for \in Deletion
      BY <1>4, DesktopAssumption DEF Clear, Bears, DInv, DesktopTypes, SentOnce, RequestRecord
    <3>2. /\ cleared[r.for] = 0 /\ deletion[r.for] # "new"
          /\ \A q \in requests' : Bears(q) => q.for # r.for
          /\ \A c \in challenges : c.for # r.for
      BY <1>4, <3>1 DEF Clear, DInv, OneRight
    <3>3. \A d \in Deletion : d # r.for => cleared'[d] = cleared[d] /\ deletion'[d] = deletion[d]
      BY <1>4 DEF Clear, Answers, DInv, DesktopTypes
    <3>4. /\ cleared'[r.for] \in {0, 1} /\ deletion'[r.for] # "new"
          /\ deletion'[r.for] \in {"clearing", "sweeping", "done"} => cleared'[r.for] = 1
      <4>1. CASE cleared' = [cleared EXCEPT ![r.for] = @ + 1] /\ Answers(r, "clearing")
        BY <3>1, <3>2, <4>1 DEF Answers, DInv, DesktopTypes
      <4>2. CASE UNCHANGED cleared /\ Answers(r, "failed")
        BY <3>1, <3>2, <4>2 DEF Answers, DInv, DesktopTypes, OneRight
      <4>3. QED BY <1>4, <4>1, <4>2 DEF Clear
    <3>5. \A q \in requests : Bears(q) => q.for \in Deletion
      BY DEF DInv, DesktopTypes, SentOnce, RequestRecord, Bears
    <3>6. requests' \subseteq requests /\ UNCHANGED challenges
      BY <1>4 DEF Clear
    <3>7. \A c \in challenges : c.for \in Deletion
      BY DEF DInv, DesktopTypes
    <3>8. ASSUME NEW q \in requests', Bears(q)
          PROVE  /\ cleared'[q.for] = 0 /\ deletion'[q.for] # "new"
                 /\ \A p \in requests' : Bears(p) /\ p.for = q.for => p = q
                 /\ \A c \in challenges' : c.for # q.for
      BY <3>2, <3>3, <3>5, <3>6, <3>8 DEF DInv, OneRight
    <3>9. ASSUME NEW c \in challenges'
          PROVE  /\ cleared'[c.for] = 0 /\ deletion'[c.for] # "new"
                 /\ \A e \in challenges' : e.for = c.for => e = c
      BY <3>2, <3>3, <3>6, <3>7 DEF DInv, OneRight
    <3>10. ASSUME NEW d \in Deletion
           PROVE  /\ cleared'[d] =< 1
                  /\ cleared'[d] = 1 => deletion'[d] # "new"
                  /\ deletion'[d] \in {"clearing", "sweeping", "done"} => cleared'[d] = 1
      BY <3>3, <3>4 DEF DInv, OneRight
    <3>11. QED BY <3>8, <3>9, <3>10 DEF OneRight, Bears
  <2>5. Swept'
    BY <1>4, DesktopAssumption DEF DInv, DesktopTypes, SentOnce, Swept, PathsReady, Serves,
       Answers, Clear, vars
  <2>6. QED BY <2>1, <2>2, <2>3, <2>4, <2>5 DEF DInv
<1>5. QED BY <1>1, <1>2, <1>3, <1>4

LEMMA DesktopInitInductive == DesktopInit => DInv
<1> SUFFICES ASSUME DesktopInit
             PROVE  DInv
  OBVIOUS
<1>1. RInv
  BY InitInductive DEF DesktopInit
<1>2. DesktopTypes /\ Living /\ SentOnce /\ OneRight /\ Swept
  BY DEF DesktopInit, DesktopTypes, Living, SentOnce, OneRight, Swept
<1>3. QED BY <1>1, <1>2 DEF DInv

LEMMA DesktopNextInductive == DInv /\ [DesktopNext]_deskvars => DInv'
<1> SUFFICES ASSUME DInv, [DesktopNext]_deskvars
             PROVE  DInv'
  OBVIOUS
<1>1. RInv'
  BY StepOfRuntime, NextInductive DEF DInv
<1>2. CASE UNCHANGED deskvars
  BY <1>1, <1>2 DEF deskvars, dvars, vars, DInv, DesktopTypes, Living, SentOnce, OneRight, Bears,
     Swept, PathsReady
<1>3. CASE DesktopNext
  BY <1>1, <1>3, RuntimeSteps, ImportSteps, DeletionSteps, SendSteps, LapseSteps, RequestSteps
     DEF DesktopNext
<1>4. QED BY <1>2, <1>3

(* The same with imports, deletions and their challenges on top: each of   *)
(* them holds the only copy of the right to act, and each snapshot file    *)
(* has someone who removes it.                                             *)
THEOREM DesktopInductive == DesktopSpec => []DInv
  BY DesktopInitInductive, DesktopNextInductive, PTL DEF DesktopSpec
-----------------------------------------------------------------------------
LEMMA InvariantDesktopTypes == DInv => DesktopTypeOK
<1> SUFFICES ASSUME DInv
             PROVE  DesktopTypeOK
  OBVIOUS
<1>1. TypeOK
  BY InvariantTypes DEF DInv
<1>2. \A c \in challenges : c \in [for : Deletion, in : Alive]
  BY DEF DInv, DesktopTypes, Living, Alive
<1>3. \A r \in requests : r.for \in File \cup Deletion /\ r.in \in Alive
  BY DEF DInv, DesktopTypes, RequestRecord, Living, Alive
<1>4. QED BY <1>1, <1>2, <1>3 DEF DInv, DesktopTypes, DesktopTypeOK

(* Every variable of the composition keeps its type, and a challenge or a  *)
(* request is always with a living sidecar.                                *)
THEOREM DesktopTypeCorrect == DesktopSpec => []DesktopTypeOK
  BY DesktopInductive, InvariantDesktopTypes, PTL

(* What Runtime promises of its sidecars it promises under the imports and *)
(* deletions as well.                                                      *)
THEOREM SidecarOwnedInDesktop == DesktopSpec => []Owned
<1>1. DInv => Owned
  BY InvariantOwned DEF DInv
<1>2. QED BY <1>1, DesktopInductive, PTL

(* import_selected_file and the deletion of all data: a chosen file is     *)
(* imported at most once and a confirmed deletion clears at most once.     *)
THEOREM DesktopActsOnce == DesktopSpec => []ActsOnce
<1>1. DInv => ActsOnce
  BY DEF DInv, SentOnce, OneRight, ActsOnce
<1>2. QED BY <1>1, DesktopInductive, PTL

(* The staging directory of a running desktop holds only snapshots that a  *)
(* scope or an import in progress will remove.                             *)
THEOREM NoSnapshotLeft == DesktopSpec => []NothingLeftBehind
<1>1. DInv => NothingLeftBehind
  BY DEF DInv, Swept, PathsReady, NothingLeftBehind
<1>2. QED BY <1>1, DesktopInductive, PTL
=============================================================================
