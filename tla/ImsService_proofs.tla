-------------------------- MODULE ImsService_proofs --------------------------
(***************************************************************************)
(* The IMS service keeps its promises for any monitors, any first SQNs and *)
(* step, any number of vectors, and any scenes.                            *)
(*                                                                         *)
(* First the tunnel: its inductive invariant, which holds for any set of   *)
(* monitors, and that each of its steps keeps it.  Then the registration,  *)
(* its invariant and its steps, one lemma each, and at the end the service *)
(* that composes the two, with the theorems.                               *)
(***************************************************************************)
EXTENDS ImsService, FiniteSetTheorems, TLAPS

-----------------------------------------------------------------------------
(* The tunnel. *)

Worker == Monitor \cup Caller
Quiet == "crossed" \notin odd

\* What each task may await.
TaskTyped ==
  /\ task["connect"] \in {"none", "load", "initiate", "extract"}
  /\ task["disconnect"] \in {"none", "terminate"}
  /\ \A m \in Monitor : task[m] \in {"none", "sleep", "list", "initiate", "extract"}

\* While connect runs nothing else does, and the state says how far it is.
ConnectOK ==
  task["connect"] # "none" =>
    /\ task["disconnect"] = "none" /\ dpd = {}
    /\ task["connect"] = "load" => tunnel = "CONNECTING"
    /\ task["connect"] = "initiate" => tunnel = "AUTHENTICATING"
    /\ task["connect"] = "extract" => tunnel = "CONNECTED"
    /\ ~shown.up

\* A monitor lives exactly while it is known, and then it alone moves the
\* tunnel.
MonitorOK ==
  /\ \A m \in Monitor : Alive(m) <=> m \in dpd
  /\ \A m, n \in dpd : m = n
  /\ \A m \in dpd :
       /\ task["disconnect"] = "none"
       /\ tunnel \in {"CONNECTING", "CONNECTED", "FAILED"}
       /\ task[m] = "initiate" => tunnel = "CONNECTING"
       /\ task[m] = "extract" => tunnel = "CONNECTED"

\* With no task at work the tunnel is down, and shown to be.
IdleOK ==
  task["connect"] = "none" /\ task["disconnect"] = "none" /\ dpd = {} =>
    tunnel \in {"DISCONNECTED", "FAILED"} /\ shown.state = tunnel /\ ~shown.up

\* With nothing to explain an SA that stays, a tunnel that is down has none.
TornOK ==
  odd = {} =>
    /\ initiating = 0
    /\ tunnel = "DISCONNECTED" => ~sa
    /\ task["disconnect"] # "none" /\ result["disconnect"] # "pending" => ~sa

QuietOK == Quiet => ConnectOK /\ MonitorOK /\ IdleOK /\ ShownIsSo

TunnelInv == VowifiTypeOK /\ TaskTyped /\ QuietOK /\ TornOK

-----------------------------------------------------------------------------
(* The properties follow. *)

LEMMA TunnelSafe == TunnelInv => ShownIsSo /\ MonitorIsKnown /\ TornDown
BY DEF TunnelInv, QuietOK, Quiet, ShownIsSo, MonitorIsKnown, TornDown, MonitorOK, TornOK

LEMMA Names ==
  /\ "connect" \in Worker /\ "disconnect" \in Worker /\ Monitor \subseteq Worker
  /\ "connect" \notin Monitor /\ "disconnect" \notin Monitor
  /\ IsFiniteSet(Worker)
<1>1. IsFiniteSet(Caller)
  <2>1. Caller = {"connect"} \cup {"disconnect"}
    BY DEF Caller
  <2> QED
    BY <2>1, FS_Singleton, FS_Union
<1> QED
  BY <1>1, TunnelAssumption, FS_Union DEF Worker, Caller

\* A number of initiating processes.
LEMMA FiniteCount ==
  ASSUME NEW S \in SUBSET Worker
  PROVE  Cardinality(S) \in Nat
BY Names, FS_Subset, FS_CardinalityType

LEMMA TunnelInitially == TunnelInit => TunnelInv
<1> SUFFICES ASSUME TunnelInit PROVE TunnelInv
  OBVIOUS
<1>1. VowifiTypeOK
  <2>1. dpd = {}
    BY DEF TunnelInit
  <2>2. Cardinality(dpd) = 0
    BY <2>1, FS_EmptySet, Zenon
  <2> QED
    <3>1. tunnel \in TunnelState /\ shown \in [state: TunnelState, up: BOOLEAN]
      BY DEF TunnelInit, TunnelState
    <3>2. task \in [Monitor \cup Caller ->
                 {"none", "sleep", "load", "list", "initiate", "extract",
                  "terminate"}]
      BY DEF TunnelInit
    <3>3. result \in [Monitor \cup Caller -> {"pending", "ok", "failed", "raised"}]
      BY DEF TunnelInit
    <3>4. dpd \subseteq Monitor /\ odd \subseteq {"crossed", "abandoned", "kept"} /\ initiating \in Nat /\ sa \in BOOLEAN
      BY DEF TunnelInit
    <3>5. Cardinality(dpd) <= 1
      BY <2>2
    <3> QED
      BY <3>1, <3>2, <3>3, <3>4, <3>5, Zenon DEF VowifiTypeOK
<1>2. TaskTyped /\ \A m \in Monitor : ~Alive(m)
  BY Names DEF TunnelInit, TaskTyped, Alive, Worker
<1>3. ConnectOK /\ MonitorOK
  BY <1>2, Names DEF TunnelInit, ConnectOK, MonitorOK, Worker
<1>4. IdleOK /\ ShownIsSo /\ TornOK
  BY DEF TunnelInit, IdleOK, ShownIsSo, TornOK
<1> QED
  BY <1>1, <1>2, <1>3, <1>4 DEF TunnelInv, QuietOK

LEMMA TunnelRestartKept ==
  ASSUME TunnelInv, TunnelRestart PROVE TunnelInv'
<1>1. VowifiTypeOK'
  <2>1. Cardinality({x \in Worker : Initiates(x)}) \in Nat
    BY FiniteCount
  <2>2. dpd' = {}
    BY DEF TunnelRestart
  <2>3. Cardinality(dpd') = 0
    BY <2>2, FS_EmptySet, Zenon
  <2> QED
    BY <2>1, <2>3 DEF TunnelInv, TunnelRestart, VowifiTypeOK, TunnelState, Worker
<1>2. TaskTyped' /\ \A m \in Monitor : ~Alive(m)'
  BY Names DEF TunnelRestart, TaskTyped, Alive, Worker
<1>3. ConnectOK' /\ MonitorOK'
  BY <1>2, Names DEF TunnelRestart, ConnectOK, MonitorOK, Worker
<1>4. IdleOK' /\ ShownIsSo' /\ TornOK'
  BY DEF TunnelRestart, IdleOK, ShownIsSo, TornOK
<1> QED
  BY <1>1, <1>2, <1>3, <1>4 DEF TunnelInv, QuietOK

-----------------------------------------------------------------------------
(* strongSwan and its processes. *)

\* A process comes to something, or an SA is lost or made.
LEMMA OutcomeKept ==
  ASSUME TunnelInv, NEW x \in Worker, NEW r \in {"ok", "failed", "raised"},
         task[x] # "none", Outcome(x, r),
         odd' \in {odd, odd \cup {"kept"}},
         sa' \in BOOLEAN,
         sa' /\ ~sa => task[x] = "initiate",
         task[x] = "terminate" => ~sa' \/ "kept" \in odd'
  PROVE  TunnelInv'
<1>1. VowifiTypeOK'
  BY DEF TunnelInv, VowifiTypeOK, Outcome, Worker
<1>2. TaskTyped'
  BY DEF TunnelInv, TaskTyped, Outcome
<1>3. QuietOK'
  BY DEF TunnelInv, QuietOK, Quiet, ConnectOK, MonitorOK, IdleOK, ShownIsSo, Outcome, Alive
<1>4. TornOK'
  <2> SUFFICES ASSUME odd' = {} PROVE TornOK'
    BY DEF TornOK
  <2>1. odd = {} /\ Quiet /\ ConnectOK /\ MonitorOK /\ TornOK
    BY DEF TunnelInv, QuietOK, Quiet
  <2>2. task[x] = "initiate" =>
          /\ tunnel # "DISCONNECTED" /\ task["disconnect"] = "none"
    <3>1. x \in Monitor \/ x = "connect" \/ x = "disconnect"
      BY DEF Worker, Caller
    <3> QED
      BY <2>1, <3>1, Names DEF TunnelInv, TaskTyped, ConnectOK, MonitorOK, Alive
  <2> QED
    BY <2>1, <2>2, Names DEF TornOK, Outcome, TunnelInv, TaskTyped, VowifiTypeOK, Worker
<1> QED
  BY <1>1, <1>2, <1>3, <1>4 DEF TunnelInv

LEMMA SwanctlKept ==
  ASSUME TunnelInv, NEW x \in Worker, swanctl(x) \/ swanctl_fails(x)
  PROVE  TunnelInv'
<1>1. CASE _load_swanctl_config(x) \/ _extract_tunnel_info(x) \/ list_sas(x)
  <2>1. PICK r \in {"ok", "failed"} : Outcome(x, r)
    BY <1>1 DEF _load_swanctl_config, _extract_tunnel_info, list_sas
  <2> QED
    BY <1>1, <2>1, OutcomeKept
       DEF _load_swanctl_config, _extract_tunnel_info, list_sas, TunnelInv, VowifiTypeOK
<1>2. CASE _initiate_connection(x)
  BY <1>2, OutcomeKept DEF _initiate_connection
<1>3. CASE x = "disconnect" /\ terminate
  BY <1>3, OutcomeKept DEF terminate
<1>4. CASE swanctl_fails(x)
  BY <1>4, OutcomeKept DEF swanctl_fails, TunnelInv, VowifiTypeOK
<1> QED
  BY <1>1, <1>2, <1>3, <1>4 DEF swanctl

LEMMA SaKept ==
  ASSUME TunnelInv, swanctl_alone \/ sa_lost
  PROVE  TunnelInv'
<1>1. /\ UNCHANGED <<tunnel, shown, task, result, dpd, odd>>
      /\ sa' \in BOOLEAN /\ initiating' \in Nat
  <2>1. sa \in BOOLEAN /\ initiating \in Nat
    BY DEF TunnelInv, VowifiTypeOK
  <2>2. CASE swanctl_alone
    <3>1. sa' \in BOOLEAN
      BY <2>1, <2>2, Zenon DEF swanctl_alone
    <3>2. initiating' \in Nat
      BY <2>1, <2>2, SMT DEF swanctl_alone
    <3> QED
      BY <2>2, <3>1, <3>2 DEF swanctl_alone
  <2>3. CASE sa_lost
    BY <2>1, <2>3 DEF sa_lost
  <2> QED
    BY <2>2, <2>3
<1>2. VowifiTypeOK' /\ TaskTyped'
  BY <1>1 DEF TunnelInv, VowifiTypeOK, TaskTyped
<1>3. QuietOK'
  BY <1>1 DEF TunnelInv, QuietOK, Quiet, ConnectOK, MonitorOK, IdleOK, ShownIsSo, Alive
<1>4. TornOK'
  BY <1>1 DEF TunnelInv, TornOK, swanctl_alone, sa_lost
<1> QED
  BY <1>2, <1>3, <1>4 DEF TunnelInv

-----------------------------------------------------------------------------
(* connect *)

LEMMA ConnectKept ==
  ASSUME TunnelInv, connect
  PROVE  TunnelInv'
<1>0. /\ task["connect"] = "none"
      /\ tunnel' = "CONNECTING" /\ shown' = [shown EXCEPT !.state = "CONNECTING"]
      /\ task' = [task EXCEPT !["connect"] = "load"]
      /\ result' = [result EXCEPT !["connect"] = "pending"]
      /\ odd' = odd \cup Crosses("disconnect") /\ UNCHANGED <<dpd, sa, initiating>>
  BY DEF connect, Await
<1>1. VowifiTypeOK'
  BY <1>0, Names DEF TunnelInv, VowifiTypeOK, TunnelState, Crosses
<1>2. TaskTyped'
  BY <1>0, Names DEF TunnelInv, VowifiTypeOK, TaskTyped, Worker
<1>3. QuietOK'
  <2> SUFFICES ASSUME Quiet' PROVE ConnectOK' /\ MonitorOK' /\ IdleOK' /\ ShownIsSo'
    BY DEF QuietOK
  <2>1. Quiet /\ ConnectOK /\ MonitorOK /\ IdleOK /\ ShownIsSo
    BY <1>0 DEF Quiet, TunnelInv, QuietOK
  <2>2. task["disconnect"] = "none" /\ \A m \in Monitor : ~Alive(m)
    BY <1>0 DEF Quiet, Crosses
  <2>3. dpd = {}
    BY <2>1, <2>2 DEF MonitorOK, TunnelInv, VowifiTypeOK
  <2>4. ~shown.up
    BY <1>0, <2>1, <2>2, <2>3 DEF IdleOK
  <2>5. /\ task'["connect"] = "load" /\ task'["disconnect"] = "none"
        /\ \A m \in Monitor : task'[m] = task[m]
        /\ shown'.state = "CONNECTING" /\ ~shown'.up
    BY <1>0, <2>2, <2>4, Names DEF TunnelInv, VowifiTypeOK, Worker
  <2> QED
    BY <1>0, <2>2, <2>3, <2>5 DEF ConnectOK, MonitorOK, IdleOK, ShownIsSo, Alive
<1>4. TornOK'
  BY <1>0, Names DEF TunnelInv, VowifiTypeOK, TornOK, Worker
<1> QED
  BY <1>1, <1>2, <1>3, <1>4 DEF TunnelInv

LEMMA ConnectUnwrittenKept ==
  ASSUME TunnelInv, connect_unwritten
  PROVE  TunnelInv'
<1>0. /\ task["connect"] = "none"
      /\ tunnel' = "FAILED" /\ shown' = [state |-> "FAILED", up |-> FALSE]
      /\ odd' = odd \cup Crosses("disconnect")
      /\ UNCHANGED <<task, result, dpd, sa, initiating>>
  BY DEF connect_unwritten, Set
<1>1. VowifiTypeOK' /\ TaskTyped'
  BY <1>0 DEF TunnelInv, VowifiTypeOK, TunnelState, Crosses, TaskTyped
<1>2. QuietOK'
  <2> SUFFICES ASSUME Quiet' PROVE ConnectOK' /\ MonitorOK' /\ IdleOK' /\ ShownIsSo'
    BY DEF QuietOK
  <2>1. MonitorOK /\ dpd \subseteq Monitor
    BY <1>0 DEF Quiet, TunnelInv, QuietOK, VowifiTypeOK
  <2>2. \A m \in Monitor : ~Alive(m)
    BY <1>0 DEF Quiet, Crosses
  <2>3. dpd = {}
    BY <2>1, <2>2 DEF MonitorOK
  <2> QED
    BY <1>0, <2>2, <2>3 DEF ConnectOK, MonitorOK, IdleOK, ShownIsSo, Alive
<1>3. TornOK'
  BY <1>0 DEF TunnelInv, TornOK
<1> QED
  BY <1>1, <1>2, <1>3 DEF TunnelInv

\* Steps of a connect that is under way.
LEMMA ConnectStepKept ==
  ASSUME TunnelInv, connect_loaded \/ connect_initiated \/ connect_failed
  PROVE  TunnelInv'
<1>0. PICK next \in {"none", "initiate", "extract"}, s \in TunnelState, up \in BOOLEAN :
        /\ task["connect"] # "none"
        /\ task' = [task EXCEPT !["connect"] = next]
        /\ result' = [result EXCEPT !["connect"] = "pending"]
        /\ tunnel' = s /\ UNCHANGED <<dpd, sa, initiating, odd>>
        /\ \/ next = "initiate" /\ s = "AUTHENTICATING" /\ shown'.state = s /\ shown'.up = shown.up
           \/ next = "extract" /\ s = "CONNECTED" /\ shown' = shown
           \/ next = "none" /\ s = "FAILED" /\ shown'.state = s /\ shown'.up = FALSE
        /\ shown' \in [state: TunnelState, up: BOOLEAN]
  <2>1. shown \in [state: TunnelState, up: BOOLEAN]
    BY DEF TunnelInv, VowifiTypeOK
  <2>2. CASE connect_loaded
    BY <2>1, <2>2 DEF connect_loaded, Done, Await, TunnelState
  <2>3. CASE connect_initiated
    BY <2>1, <2>3 DEF connect_initiated, Done, Await, TunnelState
  <2>4. CASE connect_failed
    BY <2>1, <2>4 DEF connect_failed, Caught, Failed, Raised, Await, Set, TunnelState
  <2> QED
    BY <2>2, <2>3, <2>4
<1>1. VowifiTypeOK'
  BY <1>0, Names DEF TunnelInv, VowifiTypeOK
<1>2. /\ task'["connect"] = next /\ task'["disconnect"] = task["disconnect"]
      /\ \A m \in Monitor : task'[m] = task[m]
      /\ result'["disconnect"] = result["disconnect"]
  BY <1>0, Names DEF TunnelInv, VowifiTypeOK, Worker
<1>3. TaskTyped'
  BY <1>2 DEF TunnelInv, TaskTyped
<1>4. QuietOK'
  <2> SUFFICES ASSUME Quiet' PROVE ConnectOK' /\ MonitorOK' /\ IdleOK' /\ ShownIsSo'
    BY DEF QuietOK
  <2>1. ConnectOK /\ MonitorOK /\ ShownIsSo /\ Quiet
    BY <1>0 DEF Quiet, TunnelInv, QuietOK
  <2>2. task["disconnect"] = "none" /\ dpd = {} /\ ~shown.up
    BY <1>0, <2>1 DEF ConnectOK
  <2> QED
    BY <1>0, <1>2, <2>1, <2>2 DEF ConnectOK, MonitorOK, IdleOK, ShownIsSo, Quiet, Alive
<1>5. TornOK'
  BY <1>0, <1>2 DEF TunnelInv, TornOK
<1> QED
  BY <1>1, <1>3, <1>4, <1>5 DEF TunnelInv

\* connect ends with a monitor.
LEMMA ConnectDoneKept ==
  ASSUME TunnelInv, connect_done
  PROVE  TunnelInv'
<1>0. PICK m \in Monitor :
        /\ task["connect"] = "extract" /\ ~Alive(m)
        /\ dpd' = {m} /\ task' = [task EXCEPT !["connect"] = "none", ![m] = "sleep"]
        /\ shown' = [state |-> tunnel, up |-> TRUE]
        /\ result' = [result EXCEPT !["connect"] = "pending"]
        /\ UNCHANGED <<tunnel, sa, initiating, odd>>
  BY DEF connect_done, Done, StartMonitor
<1>1. VowifiTypeOK'
  <2>1. dpd' = {m}
    BY <1>0
  <2>2. Cardinality(dpd') = 1
    BY <2>1, FS_Singleton, Zenon
  <2>3. task' \in [Worker -> {"none", "sleep", "load", "list", "initiate", "extract", "terminate"}]
    BY <1>0, Names DEF Worker, TunnelInv, VowifiTypeOK
  <2>4. shown' \in [state: TunnelState, up: BOOLEAN]
    BY <1>0 DEF TunnelInv, VowifiTypeOK
  <2> QED
    BY <1>0, <2>2, <2>3, <2>4, Names DEF TunnelInv, VowifiTypeOK, Worker
<1>2. /\ task'["connect"] = "none" /\ task'["disconnect"] = task["disconnect"]
      /\ task'[m] = "sleep" /\ \A n \in Monitor : n # m => task'[n] = task[n]
      /\ result'["disconnect"] = result["disconnect"]
      /\ shown'.state = tunnel /\ shown'.up = TRUE
  BY <1>0, Names DEF TunnelInv, VowifiTypeOK, Worker
<1>3. TaskTyped'
  BY <1>2 DEF TunnelInv, TaskTyped
<1>4. QuietOK'
  <2> SUFFICES ASSUME Quiet' PROVE ConnectOK' /\ MonitorOK' /\ IdleOK' /\ ShownIsSo'
    BY DEF QuietOK
  <2>1. ConnectOK /\ MonitorOK
    BY <1>0 DEF Quiet, TunnelInv, QuietOK
  <2>2. task["disconnect"] = "none" /\ dpd = {} /\ tunnel = "CONNECTED"
    BY <1>0, <2>1 DEF ConnectOK
  <2> QED
    BY <1>0, <1>2, <2>1, <2>2 DEF ConnectOK, MonitorOK, IdleOK, ShownIsSo, Alive
<1>5. TornOK'
  BY <1>0, <1>2 DEF TunnelInv, TornOK
<1> QED
  BY <1>1, <1>3, <1>4, <1>5 DEF TunnelInv

-----------------------------------------------------------------------------
(* disconnect *)

LEMMA DisconnectKept ==
  ASSUME TunnelInv, disconnect
  PROVE  TunnelInv'
<1>0. /\ task["disconnect"] = "none" /\ task' = Cancelled /\ dpd' = {}
      /\ result' = [x \in Worker |-> IF x \in dpd \cup {"disconnect"} THEN "pending" ELSE result[x]]
      /\ initiating' = initiating + Cardinality({m \in dpd : Initiates(m)})
      /\ odd' = odd \cup Crosses("connect")
            \cup IF \E m \in dpd : Initiates(m) THEN {"abandoned"} ELSE {}
      /\ UNCHANGED <<tunnel, shown, sa>>
  BY DEF disconnect, Worker
<1>1. /\ task'["disconnect"] = "terminate" /\ task'["connect"] = task["connect"]
      /\ \A m \in Monitor : task'[m] = IF m \in dpd THEN "none" ELSE task[m]
      /\ result'["disconnect"] = "pending"
  BY <1>0, Names DEF Cancelled, Worker, TunnelInv, VowifiTypeOK
<1>2. VowifiTypeOK'
  <2>1. Cardinality({m \in dpd : Initiates(m)}) \in Nat
    BY FiniteCount, Names DEF TunnelInv, VowifiTypeOK
  <2>2. dpd' = {}
    BY <1>0
  <2>3. Cardinality(dpd') = 0
    BY <2>2, FS_EmptySet, Zenon
  <2>4. task' \in [Worker -> {"none", "sleep", "load", "list", "initiate", "extract", "terminate"}]
    BY <1>0 DEF Cancelled, Worker, TunnelInv, VowifiTypeOK
  <2> QED
    BY <1>0, <2>1, <2>3, <2>4 DEF TunnelInv, VowifiTypeOK, Worker, Crosses
<1>3. TaskTyped'
  BY <1>1 DEF TunnelInv, TaskTyped
<1>4. QuietOK'
  <2> SUFFICES ASSUME Quiet' PROVE ConnectOK' /\ MonitorOK' /\ IdleOK' /\ ShownIsSo'
    BY DEF QuietOK
  <2>1. ConnectOK /\ MonitorOK /\ ShownIsSo /\ Quiet /\ task["connect"] = "none"
    BY <1>0 DEF Quiet, TunnelInv, QuietOK, Crosses
  <2> QED
    BY <1>0, <1>1, <2>1 DEF ConnectOK, MonitorOK, IdleOK, ShownIsSo, Quiet, Alive
<1>5. TornOK'
  <2> SUFFICES ASSUME odd' = {} PROVE TornOK'
    BY DEF TornOK
  <2>1. odd = {} /\ TornOK /\ ~\E m \in dpd : Initiates(m)
    BY <1>0 DEF TunnelInv
  <2>2. Cardinality({m \in dpd : Initiates(m)}) = 0
    <3>1. {m \in dpd : Initiates(m)} = {}
      BY <2>1
    <3> QED
      BY <3>1, FS_EmptySet, Zenon
  <2> QED
    BY <1>0, <1>1, <2>1, <2>2 DEF TornOK
<1> QED
  BY <1>2, <1>3, <1>4, <1>5 DEF TunnelInv

LEMMA DisconnectDoneKept ==
  ASSUME TunnelInv, disconnect_done
  PROVE  TunnelInv'
<1>0. /\ task["disconnect"] = "terminate" /\ result["disconnect"] # "pending"
      /\ task' = [task EXCEPT !["disconnect"] = "none"]
      /\ result' = [result EXCEPT !["disconnect"] = "pending"]
      /\ tunnel' = "DISCONNECTED" /\ shown' = [state |-> "DISCONNECTED", up |-> FALSE]
      /\ UNCHANGED <<dpd, sa, initiating, odd>>
  BY DEF disconnect_done, Terminated, Await, Set
<1>1. VowifiTypeOK'
  BY <1>0, Names DEF TunnelInv, VowifiTypeOK, TunnelState
<1>2. /\ task'["disconnect"] = "none" /\ task'["connect"] = task["connect"]
      /\ \A m \in Monitor : task'[m] = task[m]
  BY <1>0, Names DEF TunnelInv, VowifiTypeOK, Worker
<1>3. TaskTyped'
  BY <1>2 DEF TunnelInv, TaskTyped
<1>4. QuietOK'
  <2> SUFFICES ASSUME Quiet' PROVE ConnectOK' /\ MonitorOK' /\ IdleOK' /\ ShownIsSo'
    BY DEF QuietOK
  <2>1. ConnectOK /\ MonitorOK
    BY <1>0 DEF Quiet, TunnelInv, QuietOK
  <2>2. task["connect"] = "none" /\ dpd = {}
    BY <1>0, <2>1 DEF ConnectOK, MonitorOK
  <2> QED
    BY <1>0, <1>2, <2>1, <2>2 DEF ConnectOK, MonitorOK, IdleOK, ShownIsSo, Alive
<1>5. TornOK'
  BY <1>0, <1>2 DEF TunnelInv, TornOK
<1> QED
  BY <1>1, <1>3, <1>4, <1>5 DEF TunnelInv

-----------------------------------------------------------------------------
(* The monitors. *)

\* One step of a monitor: what it awaits next, and what it does to the state.
LEMMA MonitorKept ==
  ASSUME TunnelInv, NEW m \in Monitor, _dpd_monitor(m)
  PROVE  TunnelInv'
<1>0. PICK next \in {"sleep", "list", "initiate", "extract"} :
        /\ Alive(m) /\ task' = [task EXCEPT ![m] = next]
        /\ result' = [result EXCEPT ![m] = "pending"]
        /\ UNCHANGED <<dpd, sa, initiating, odd>>
        /\ \/ next \in {"sleep", "list"} /\ UNCHANGED <<tunnel, shown>>
           \/ next = "initiate" /\ Set("CONNECTING", FALSE)
           \/ /\ next = "extract" /\ task[m] = "initiate"
              /\ tunnel' = "CONNECTED" /\ UNCHANGED shown
           \/ next = "sleep" /\ Set("FAILED", FALSE)
           \/ /\ next = "sleep" /\ task[m] = "extract"
              /\ shown' = [state |-> tunnel, up |-> TRUE] /\ UNCHANGED tunnel
  <2>1. CASE monitor_wakes(m) \/ monitor_idle(m)
    BY <2>1 DEF monitor_wakes, monitor_idle, Await, Alive, Done, Failed, Raised
  <2>2. CASE monitor_reconnects(m)
    BY <2>2 DEF monitor_reconnects, Reconnecting, Await, Alive, Failed
  <2>3. CASE monitor_initiated(m)
    BY <2>3 DEF monitor_initiated, Await, Alive, Done
  <2>4. CASE monitor_failed(m)
    BY <2>4 DEF monitor_failed, Await, Alive, Failed, Raised
  <2>5. CASE monitor_done(m)
    BY <2>5 DEF monitor_done, Await, Alive
  <2> QED
    BY <2>1, <2>2, <2>3, <2>4, <2>5 DEF _dpd_monitor
<1>1. /\ task'[m] = next /\ \A n \in Monitor : n # m => task'[n] = task[n]
      /\ task'["connect"] = task["connect"] /\ task'["disconnect"] = task["disconnect"]
      /\ result'["disconnect"] = result["disconnect"]
  BY <1>0, Names DEF TunnelInv, VowifiTypeOK, Worker
<1>2. /\ tunnel' \in TunnelState /\ shown' \in [state: TunnelState, up: BOOLEAN]
  <2>1. tunnel \in TunnelState /\ shown \in [state: TunnelState, up: BOOLEAN]
    BY DEF TunnelInv, VowifiTypeOK
  <2>2. \A s \in TunnelState, up \in BOOLEAN :
          [state |-> s, up |-> up] \in [state: TunnelState, up: BOOLEAN]
    OBVIOUS
  <2>3. "CONNECTING" \in TunnelState /\ "FAILED" \in TunnelState
        /\ "CONNECTED" \in TunnelState
    BY DEF TunnelState
  <2>4. \/ UNCHANGED <<tunnel, shown>>
        \/ Set("CONNECTING", FALSE) \/ Set("FAILED", FALSE)
        \/ tunnel' = "CONNECTED" /\ UNCHANGED shown
        \/ shown' = [state |-> tunnel, up |-> TRUE] /\ UNCHANGED tunnel
    BY <1>0, Zenon
  <2> QED
    BY <2>1, <2>2, <2>3, <2>4, Zenon DEF Set
<1>3. VowifiTypeOK'
  BY <1>0, <1>2, Names DEF TunnelInv, VowifiTypeOK
<1>4. TaskTyped'
  BY <1>1 DEF TunnelInv, TaskTyped
<1>5. QuietOK'
  <2> SUFFICES ASSUME Quiet' PROVE ConnectOK' /\ MonitorOK' /\ IdleOK' /\ ShownIsSo'
    BY DEF QuietOK
  <2>1. ConnectOK /\ MonitorOK /\ ShownIsSo /\ Quiet /\ m \in dpd /\ dpd \subseteq Monitor
    BY <1>0 DEF Quiet, TunnelInv, QuietOK, MonitorOK, VowifiTypeOK
  <2>2. task["connect"] = "none" /\ task["disconnect"] = "none"
    BY <2>1 DEF ConnectOK, MonitorOK
  <2>3. MonitorOK'
    BY <1>0, <1>1, <2>1, <2>2 DEF MonitorOK, Set, Alive
  <2>4. ShownIsSo'
    BY <1>0, <2>1 DEF MonitorOK, ShownIsSo, Quiet, Set
  <2> QED
    BY <1>0, <1>1, <2>1, <2>2, <2>3, <2>4 DEF ConnectOK, IdleOK
<1>6. TornOK'
  <2> SUFFICES ASSUME odd' = {} PROVE TornOK'
    BY DEF TornOK
  <2>1. odd = {} /\ TornOK /\ Quiet
    BY <1>0 DEF TunnelInv, Quiet
  <2>2. tunnel # "DISCONNECTED"
    BY <1>0, <2>1 DEF TunnelInv, QuietOK, MonitorOK
  <2> QED
    BY <1>0, <1>1, <2>1, <2>2 DEF TornOK, Set
<1> QED
  BY <1>3, <1>4, <1>5, <1>6 DEF TunnelInv

-----------------------------------------------------------------------------
\* Every step of the tunnel, by itself or asked for, keeps the invariant.
LEMMA TunnelKept ==
  ASSUME TunnelInv,
         \/ TunnelStep \/ connect \/ connect_unwritten \/ disconnect
         \/ swanctl_alone \/ sa_lost \/ TunnelRestart
         \/ \E x \in Worker : swanctl_fails(x)
         \/ UNCHANGED tunnelVars
  PROVE  TunnelInv'
<1>1. CASE TunnelStep
  BY <1>1, ConnectStepKept, ConnectDoneKept, DisconnectDoneKept, MonitorKept, SwanctlKept
     DEF TunnelStep, Worker
<1>2. CASE UNCHANGED tunnelVars
  BY <1>2 DEF tunnelVars, TunnelInv, VowifiTypeOK, TaskTyped, QuietOK, Quiet, ConnectOK,
              MonitorOK, IdleOK, ShownIsSo, TornOK, Alive
<1> QED
  BY <1>1, <1>2, ConnectKept, ConnectUnwrittenKept, DisconnectKept, SaKept,
     SwanctlKept, TunnelRestartKept

-----------------------------------------------------------------------------
(* The registration. *)

\* What the phone, the network and the datagrams are made of, with the numbers
\* still unbounded; a phone that is registered has the port.
PhoneTyped ==
  /\ reg_state \in {"NOT_REGISTERED", "REGISTERING", "REGISTERED",
                    "DEREGISTERING", "FAILED"}
  /\ waiting \in {"none", "first", "second", "leave"}
  /\ dialog \in Nat /\ timer \in 0 .. dialog
  /\ port \in {"free", "registration"}
  /\ waiting # "none" \/ reg_state = "REGISTERED" => port = "registration"
  /\ waiting \in {"first", "second"} => reg_state = "REGISTERING"
  /\ waiting = "leave" <=> reg_state = "DEREGISTERING"

FlagsTyped == location \in BOOLEAN /\ stuck \in BOOLEAN /\ faulty \in BOOLEAN

VectorsTyped ==
  /\ vectors \in Seq(Nat) /\ Len(vectors) <= MaxChallenge
  /\ db_sqn \in Nat /\ db_sqn <= NetworkSqn + Step * Len(vectors)

CacheTyped == cache \subseteq 1 .. Len(vectors) /\ Cardinality(cache) <= 1

\* Nothing on its way is of a dialog, or a challenge, yet to come.
NetTyped ==
  /\ net \subseteq Request \cup Response
  /\ \A x \in net : x.dialog <= dialog /\ x.ch \in 0 .. Len(vectors)

\* No vector is ahead of the database, and the phone at most one; with every
\* update stored, both are behind.
SqnOK ==
  /\ sqn \in Nat /\ NetworkSqn <= db_sqn /\ sqn <= db_sqn + 1
  /\ \A n \in 1 .. Len(vectors) : vectors[n] <= db_sqn
  /\ ~faulty => sqn <= db_sqn /\ \A n \in 1 .. Len(vectors) : vectors[n] < db_sqn

\* A 200 that can still be taken for the answer was sent after the contact was
\* saved.
SavedOK ==
  /\ RegisteredIsSaved
  /\ waiting \in {"first", "second"} =>
       \A s \in net : s.to = "phone" /\ s.dialog = dialog /\ s.status = 200 => location

\* What an exchange without faults has on its way.
Awaited(x) ==
  \/ waiting = "first" /\ x.to = "network" /\ x.ch = 0
  \/ /\ waiting = "first" /\ x.to = "phone" /\ x.status = 401
     /\ x.ch \in cache /\ sqn <= vectors[x.ch]
  \/ waiting = "second" /\ x.to = "network" /\ x.ch \in cache
  \/ waiting = "second" /\ x.to = "phone" /\ x.status = 200

\* Without faults the exchange is one datagram, the one awaited.
Exchange ==
  waiting \in {"first", "second"} =>
    /\ \A x \in net : x.dialog = dialog => Awaited(x)
    /\ \A x, y \in net : x.dialog = dialog /\ y.dialog = dialog => x = y
AnswerOK == ~faulty => reg_state # "FAILED" /\ Exchange

RegistrationInv ==
  /\ PhoneTyped /\ FlagsTyped /\ VectorsTyped /\ CacheTyped /\ NetTyped
  /\ SqnOK /\ SavedOK /\ AnswerOK

-----------------------------------------------------------------------------
(* The properties follow. *)

\* The invariant bounds every number as the type invariant says.
LEMMA RegistrationTyped == RegistrationInv => RegistrationTypeOK
<1> SUFFICES ASSUME RegistrationInv PROVE RegistrationTypeOK
  OBVIOUS
<1>1. Step \in Nat /\ MaxChallenge \in Nat /\ NetworkSqn \in Nat /\ Len(vectors) \in Nat
      /\ Len(vectors) <= MaxChallenge /\ DOMAIN vectors = 1 .. Len(vectors)
  BY RegistrationAssumption DEF RegistrationInv, VectorsTyped
<1>2. Step * Len(vectors) <= Step * MaxChallenge
  <2>1. \A a, b, c \in Nat : a <= b => c * a <= c * b
    OBVIOUS
  <2> QED
    BY <1>1, <2>1
<1>3. Step * Len(vectors) \in Nat /\ Step * MaxChallenge \in Nat
  BY <1>1
<1>4. db_sqn \in Sqn /\ sqn \in Sqn
  BY <1>1, <1>2, <1>3 DEF RegistrationInv, VectorsTyped, SqnOK, Sqn
<1>5. \A n \in DOMAIN vectors : vectors[n] \in Sqn
  <2> SUFFICES ASSUME NEW n \in DOMAIN vectors PROVE vectors[n] \in Sqn
    OBVIOUS
  <2>1. vectors[n] \in Nat /\ vectors[n] <= db_sqn
    BY <1>1 DEF RegistrationInv, VectorsTyped, SqnOK
  <2> QED
    BY <1>1, <1>3, <1>4, <2>1 DEF Sqn
<1>6. DOMAIN vectors \in {1 .. n : n \in 0 .. MaxChallenge}
  BY <1>1
<1>7. cache \subseteq DOMAIN vectors /\ Cardinality(cache) <= 1
  BY <1>1 DEF RegistrationInv, CacheTyped
<1> QED
  BY <1>4, <1>5, <1>6, <1>7
     DEF RegistrationInv, PhoneTyped, FlagsTyped, NetTyped, RegistrationTypeOK

\* What the service promises of registration follows.
LEMMA RegistrationSafe ==
  RegistrationInv => FailedNeedsFault /\ RegisteredIsSaved /\ NotAheadOfNetwork
BY DEF RegistrationInv, AnswerOK, SavedOK, SqnOK, FailedNeedsFault, NotAheadOfNetwork

\* At first nothing was sent and no vector made.
LEMMA RegistrationInitially == RegistrationInit => RegistrationInv
<1> SUFFICES ASSUME RegistrationInit PROVE RegistrationInv
  OBVIOUS
<1>1. VectorsTyped /\ SqnOK /\ NetTyped
  BY RegistrationAssumption
     DEF RegistrationInit, VectorsTyped, SqnOK, NetTyped
<1>2. CacheTyped
  <2>1. cache = {}
    BY DEF RegistrationInit
  <2>2. Cardinality(cache) = 0
    BY <2>1, FS_EmptySet, Zenon
  <2> QED
    BY <2>1, <2>2 DEF CacheTyped
<1>3. PhoneTyped
  BY DEF RegistrationInit, PhoneTyped
<1>4. FlagsTyped
  BY Zenon DEF RegistrationInit, FlagsTyped
<1>5. SavedOK /\ AnswerOK
  BY DEF RegistrationInit, SavedOK, RegisteredIsSaved, AnswerOK, Exchange
<1> QED
  BY <1>1, <1>2, <1>3, <1>4, <1>5 DEF RegistrationInv

-----------------------------------------------------------------------------
(* Steps of the phone. *)

\* Where the phone and the network are left alone, so is what depends on them.
LEMMA NothingMoves ==
  ASSUME RegistrationInv, UNCHANGED registrationVars
  PROVE  RegistrationInv'
BY DEF registrationVars, RegistrationInv, PhoneTyped, FlagsTyped, VectorsTyped,
       CacheTyped, NetTyped, SqnOK, SavedOK, RegisteredIsSaved, AnswerOK, Exchange,
       Awaited

\* Steps that leave the helper and its database alone, and its faults.
LEMMA HelperKept ==
  ASSUME RegistrationInv, UNCHANGED <<db_sqn, vectors, cache>>
  PROVE  VectorsTyped' /\ CacheTyped'
BY DEF RegistrationInv, VectorsTyped, CacheTyped

\* A new process reads the SQN of the profile, which no update lowered.
LEMMA RegistrationRestartKept ==
  ASSUME RegistrationInv, RegistrationRestart
  PROVE  RegistrationInv'
<1>1. VectorsTyped' /\ CacheTyped' /\ NetTyped' /\ FlagsTyped'
  BY HelperKept DEF RegistrationRestart, RegistrationInv, NetTyped, FlagsTyped
<1>2. SqnOK'
  BY RegistrationAssumption DEF RegistrationRestart, RegistrationInv, SqnOK, VectorsTyped
<1> QED
  BY <1>1, <1>2
     DEF RegistrationRestart, RegistrationInv, PhoneTyped, SavedOK,
         RegisteredIsSaved, AnswerOK, Exchange

\* register: a new dialog, of which nothing is on its way but the request.
LEMMA RegisterKept ==
  ASSUME RegistrationInv, waiting = "none", register(dialog + 1)
  PROVE  RegistrationInv'
<1> DEFINE q == [to |-> "network", dialog |-> dialog + 1, m |-> "REGISTER", ch |-> 0]
<1>1. q \in Request /\ dialog \in Nat /\ dialog' = dialog + 1
  BY DEF RegistrationInv, PhoneTyped, Request, register
<1>2. /\ \A x \in net' : x \in net \/ (x = q /\ waiting' = "first")
      /\ waiting' \in {"none", "first"} /\ (waiting' = "first" => port' = "registration")
      /\ waiting' = "first" => q \in net'
  BY DEF register, Sends
<1>3. \A x \in net : x.dialog # dialog' /\ x.dialog <= dialog' /\ x.dialog \in Nat
  BY <1>1 DEF RegistrationInv, NetTyped, Request, Response
<1>4. VectorsTyped' /\ CacheTyped'
  BY HelperKept DEF register, networkVars
<1>5. NetTyped'
  BY <1>1, <1>2, <1>3 DEF RegistrationInv, NetTyped, register, networkVars, VectorsTyped
<1>6. FlagsTyped'
  BY DEF register, networkVars, RegistrationInv, FlagsTyped
<1>7. PhoneTyped'
  BY <1>1, <1>2 DEF RegistrationInv, PhoneTyped, register
<1>8. SqnOK'
  BY DEF RegistrationInv, SqnOK, register, networkVars
<1>9. SavedOK'
  BY <1>1, <1>2, <1>3 DEF SavedOK, RegisteredIsSaved, register
<1>10. AnswerOK'
  BY <1>1, <1>2, <1>3 DEF AnswerOK, Exchange, Awaited, register
<1> QED
  BY <1>4, <1>5, <1>6, <1>7, <1>8, <1>9, <1>10 DEF RegistrationInv

\* The timer only ever leaves the registered state.
LEMMA ReregisterKept ==
  ASSUME RegistrationInv, _reregister
  PROVE  RegistrationInv'
<1>1. VectorsTyped' /\ CacheTyped'
  BY HelperKept DEF _reregister, networkVars
<1>2. PhoneTyped'
  BY DEF RegistrationInv, PhoneTyped, _reregister
<1>3. FlagsTyped'
  BY Zenon DEF RegistrationInv, FlagsTyped, _reregister, networkVars, CanBind
<1>4. NetTyped' /\ SqnOK'
  BY DEF RegistrationInv, NetTyped, SqnOK, _reregister, networkVars
<1>5. SavedOK' /\ AnswerOK'
  BY DEF RegistrationInv, PhoneTyped, SavedOK, RegisteredIsSaved, AnswerOK, Exchange,
         Awaited, _reregister, networkVars
<1> QED
  BY <1>1, <1>2, <1>3, <1>4, <1>5 DEF RegistrationInv

\* Faults are remembered.
LEMMA FaultsKept ==
  ASSUME NEW s, NEW again \in BOOLEAN, FlagsTyped, Receives(s, again)
  PROVE  /\ faulty' \in BOOLEAN /\ (~faulty' => ~faulty /\ ~again)
         /\ s \in net /\ s.to = "phone" /\ s.dialog = dialog
BY Zenon DEF FlagsTyped, Receives

\* A challenge of the network in answer to the first request.
LEMMA ChallengedKept ==
  ASSUME RegistrationInv, NEW s \in net, NEW again \in BOOLEAN, challenged(s, again)
  PROVE  RegistrationInv'
<1> DEFINE rest == IF again THEN net ELSE net \ {s}
           q == [to |-> "network", dialog |-> dialog, m |-> "REGISTER", ch |-> s.ch]
<1>1. /\ faulty' \in BOOLEAN /\ (~faulty' => ~faulty /\ ~again)
      /\ s.to = "phone" /\ s.dialog = dialog
  BY FaultsKept DEF challenged, RegistrationInv
<1>2. /\ waiting = "first" /\ s.status = 401
      /\ UNCHANGED <<timer, port, dialog, stuck, db_sqn, vectors, cache, location>>
  BY DEF challenged, networkVars
<1>3. \/ /\ s.ch # 0 /\ sqn <= vectors[s.ch] /\ sqn' = sqn + 1 /\ waiting' = "second"
         /\ net' = rest \cup {q} /\ UNCHANGED reg_state
      \/ /\ ~(s.ch # 0 /\ vectors[s.ch] >= sqn) /\ reg_state' = "FAILED"
         /\ waiting' = "none" /\ net' = rest /\ UNCHANGED sqn
  <2>1. CASE s.ch # 0 /\ Fresh(s.ch)
    BY <2>1, <1>2, RegistrationAssumption
       DEF challenged, Fresh, Counted, Sends, RegistrationInv, SqnOK, VectorsTyped, NetTyped
  <2>2. CASE ~(s.ch # 0 /\ Fresh(s.ch))
    BY <2>2 DEF challenged, Fresh
  <2> QED
    BY <2>1, <2>2
<1>4. rest \subseteq net /\ (~again => \A x \in rest : x # s)
  OBVIOUS
<1>5. s.ch \in 0 .. Len(vectors) /\ dialog \in Nat /\ Len(vectors) \in Nat
      /\ Len(vectors) <= MaxChallenge /\ s.ch \in Challenge \cup {0}
  BY RegistrationAssumption
     DEF RegistrationInv, NetTyped, PhoneTyped, VectorsTyped, Challenge
<1>6. q \in Request /\ q.dialog = dialog /\ q.ch = s.ch /\ q.to = "network"
  BY <1>5 DEF Request
<1> HIDE DEF rest, q
<1>7. VectorsTyped' /\ CacheTyped'
  BY <1>2, HelperKept
<1>8. FlagsTyped'
  BY <1>1, <1>2 DEF RegistrationInv, FlagsTyped
<1>9. PhoneTyped'
  BY <1>2, <1>3 DEF RegistrationInv, PhoneTyped
<1>10. NetTyped'
  <2>1. \A x \in net' : x \in net \/ x = q
    BY <1>3, <1>4
  <2> QED
    BY <1>2, <1>5, <1>6, <2>1 DEF RegistrationInv, NetTyped
<1>11. SqnOK'
  <2>1. s.ch # 0 => s.ch \in 1 .. Len(vectors) /\ vectors[s.ch] \in Nat
    BY <1>5 DEF RegistrationInv, VectorsTyped
  <2> QED
    BY <1>1, <1>2, <1>3, <1>5, <2>1 DEF RegistrationInv, SqnOK, VectorsTyped
<1>12. SavedOK'
  BY <1>2, <1>3, <1>4, <1>6
     DEF RegistrationInv, PhoneTyped, SavedOK, RegisteredIsSaved
<1>13. AnswerOK'
  <2> SUFFICES ASSUME ~faulty' PROVE reg_state' # "FAILED" /\ Exchange'
    BY DEF AnswerOK
  <2>1. /\ reg_state = "REGISTERING" /\ Awaited(s)
        /\ \A x \in net : x.dialog = dialog => x = s
    BY <1>1, <1>2 DEF RegistrationInv, PhoneTyped, AnswerOK, Exchange
  <2>2. s.ch \in cache /\ sqn <= vectors[s.ch]
    BY <1>1, <1>2, <2>1 DEF Awaited
  <2>3. s.ch # 0 /\ vectors[s.ch] >= sqn
    <3>1. s.ch \in 1 .. Len(vectors)
      BY <2>2 DEF RegistrationInv, CacheTyped
    <3>2. vectors[s.ch] \in Nat /\ sqn \in Nat
      BY <3>1 DEF RegistrationInv, VectorsTyped, SqnOK
    <3> QED
      BY <2>2, <3>1, <3>2
  <2>4. waiting' = "second" /\ net' = rest \cup {q} /\ reg_state' = "REGISTERING"
    BY <1>3, <2>1, <2>3
  <2>5. \A x \in net' : x.dialog = dialog' => x = q
    BY <1>1, <1>2, <1>4, <2>1, <2>4
  <2> QED
    BY <1>2, <1>6, <2>2, <2>4, <2>5 DEF Exchange, Awaited
<1> QED
  BY <1>7, <1>8, <1>9, <1>10, <1>11, <1>12, <1>13 DEF RegistrationInv

\* The answer that ends a registration.
LEMMA AnsweredKept ==
  ASSUME RegistrationInv, NEW s \in net, NEW again \in BOOLEAN, answered(s, again)
  PROVE  RegistrationInv'
<1>1. /\ faulty' \in BOOLEAN /\ (~faulty' => ~faulty /\ ~again)
      /\ s.to = "phone" /\ s.dialog = dialog
  BY FaultsKept DEF answered, RegistrationInv
<1>2. /\ waiting \in {"first", "second"} /\ ~(waiting = "first" /\ s.status = 401)
      /\ net' \subseteq net /\ waiting' = "none"
      /\ UNCHANGED <<sqn, port, dialog, stuck, db_sqn, vectors, cache, location>>
  BY DEF answered, networkVars
<1>3. \/ s.status = 200 /\ reg_state' = "REGISTERED" /\ timer' = dialog
      \/ s.status # 200 /\ reg_state' = "FAILED" /\ timer' = timer
  BY DEF answered, Accepted
<1>4. VectorsTyped' /\ CacheTyped' /\ NetTyped' /\ SqnOK' /\ FlagsTyped'
  BY <1>1, <1>2, HelperKept DEF RegistrationInv, NetTyped, SqnOK, FlagsTyped
<1>5. PhoneTyped'
  BY <1>2, <1>3 DEF RegistrationInv, PhoneTyped
<1>6. SavedOK'
  BY <1>1, <1>2, <1>3 DEF RegistrationInv, SavedOK, RegisteredIsSaved
<1>7. AnswerOK'
  <2> SUFFICES ASSUME ~faulty' PROVE s.status = 200
    BY <1>2, <1>3 DEF AnswerOK, Exchange
  <2>1. Awaited(s)
    BY <1>1, <1>2 DEF RegistrationInv, AnswerOK, Exchange
  <2> QED
    BY <1>1, <1>2, <2>1 DEF Awaited
<1> QED
  BY <1>4, <1>5, <1>6, <1>7 DEF RegistrationInv

\* deregister and the answer to it.
LEMMA DeregisterKept ==
  ASSUME RegistrationInv, deregister
  PROVE  RegistrationInv'
<1> DEFINE q == [to |-> "network", dialog |-> dialog, m |-> "LEAVE", ch |-> 0]
<1>1. q \in Request /\ q.dialog = dialog /\ q.ch = 0 /\ dialog \in Nat
      /\ net' = net \cup {q}
  BY DEF RegistrationInv, PhoneTyped, Request, deregister, Sends
<1> HIDE DEF q
<1>2. VectorsTyped' /\ CacheTyped' /\ SqnOK' /\ FlagsTyped'
  BY HelperKept DEF deregister, networkVars, RegistrationInv, SqnOK, FlagsTyped
<1>3. NetTyped'
  BY <1>1 DEF deregister, networkVars, RegistrationInv, NetTyped, VectorsTyped
<1>4. PhoneTyped'
  <2>1. /\ reg_state = "REGISTERED" /\ reg_state' = "DEREGISTERING"
        /\ waiting' = "leave" /\ timer' \in {0, timer}
        /\ port' = port /\ dialog' = dialog
    BY DEF deregister
  <2>2. port = "registration"
    BY <2>1 DEF RegistrationInv, PhoneTyped
  <2> QED
    BY <1>1, <2>1, <2>2 DEF RegistrationInv, PhoneTyped
<1>5. SavedOK' /\ AnswerOK'
  BY DEF deregister, SavedOK, RegisteredIsSaved, AnswerOK, Exchange
<1> QED
  BY <1>2, <1>3, <1>4, <1>5 DEF RegistrationInv

LEMMA LeftKept ==
  ASSUME RegistrationInv, NEW s \in net, NEW again \in BOOLEAN, left(s, again)
  PROVE  RegistrationInv'
<1>1. faulty' \in BOOLEAN /\ (~faulty' => ~faulty)
  BY FaultsKept DEF left, RegistrationInv
<1>2. /\ net' \subseteq net /\ waiting' = "none" /\ reg_state' = "NOT_REGISTERED"
      /\ port' = "free"
      /\ UNCHANGED <<sqn, timer, dialog, stuck, db_sqn, vectors, cache, location>>
  BY DEF left, networkVars
<1>3. VectorsTyped' /\ CacheTyped' /\ NetTyped' /\ SqnOK' /\ FlagsTyped'
  BY <1>1, <1>2, HelperKept DEF RegistrationInv, NetTyped, SqnOK, FlagsTyped
<1>4. PhoneTyped' /\ SavedOK' /\ AnswerOK'
  BY <1>2 DEF RegistrationInv, PhoneTyped, SavedOK, RegisteredIsSaved, AnswerOK, Exchange
<1> QED
  BY <1>3, <1>4 DEF RegistrationInv

\* Nobody answers.
LEMMA TimeoutKept ==
  ASSUME RegistrationInv, timeout
  PROVE  RegistrationInv'
<1>1. VectorsTyped' /\ CacheTyped' /\ NetTyped' /\ SqnOK' /\ FlagsTyped'
  BY HelperKept DEF timeout, networkVars, RegistrationInv, NetTyped, SqnOK, FlagsTyped
<1>2. PhoneTyped' /\ SavedOK' /\ AnswerOK'
  BY DEF timeout, networkVars, RegistrationInv, PhoneTyped, SavedOK, RegisteredIsSaved,
         AnswerOK, Exchange
<1> QED
  BY <1>1, <1>2 DEF RegistrationInv

-----------------------------------------------------------------------------
(* Steps of the network. *)

\* A datagram that is lost, or of no use, takes nothing with it.
LEMMA DroppedKept ==
  ASSUME RegistrationInv, NEW x \in net, ignored(x) \/ lose(x)
  PROVE  RegistrationInv'
<1>1. net' \subseteq net /\ UNCHANGED <<phoneVars, networkVars>>
  BY DEF ignored, lose
<1>2. /\ UNCHANGED <<reg_state, sqn, waiting, timer, port, dialog, stuck>>
      /\ UNCHANGED <<db_sqn, vectors, cache, location>>
  BY <1>1 DEF phoneVars, networkVars
<1>3. FlagsTyped' /\ (~faulty' => ~faulty)
  <2>1. faulty' = faulty \/ faulty' = TRUE
    BY DEF ignored, lose
  <2> QED
    BY <1>2, <2>1, Zenon DEF RegistrationInv, FlagsTyped
<1>4. VectorsTyped' /\ CacheTyped' /\ NetTyped' /\ PhoneTyped'
  BY <1>1, <1>2, HelperKept DEF RegistrationInv, NetTyped, PhoneTyped
<1>5. SqnOK' /\ SavedOK'
  BY <1>1, <1>2, <1>3 DEF RegistrationInv, SqnOK, SavedOK, RegisteredIsSaved
<1>6. AnswerOK'
  BY <1>1, <1>2, <1>3 DEF RegistrationInv, AnswerOK, Exchange, Awaited
<1> QED
  BY <1>3, <1>4, <1>5, <1>6 DEF RegistrationInv

\* A request that arrives, and whether that was a fault.
LEMMA ArrivalsKept ==
  ASSUME NEW q, NEW again \in BOOLEAN, NEW fails \in BOOLEAN, FlagsTyped,
         Arrives(q, again, fails)
  PROVE  /\ faulty' \in BOOLEAN /\ q \in net /\ q.to = "network"
         /\ ~faulty' => ~faulty /\ ~again /\ ~fails /\ q.dialog = dialog
BY Zenon DEF FlagsTyped, Arrives

\* The response that is sent for a request.
LEMMA ReplyTyped ==
  ASSUME NetTyped, NEW q \in net, NEW status \in {200, 401, 403, 500},
         NEW ch \in Challenge \cup {0}
  PROVE  LET s == [to |-> "phone", dialog |-> q.dialog, status |-> status, ch |-> ch]
         IN  /\ s \in Response /\ s.to = "phone" /\ s.dialog = q.dialog
             /\ s.status = status /\ s.ch = ch /\ q.dialog <= dialog
BY DEF NetTyped, Request, Response

\* A vector is made and sent; the phone's SQN is not ahead of it unless an
\* earlier update was lost.
LEMMA ChallengeKept ==
  ASSUME RegistrationInv, NEW q \in net, NEW again \in BOOLEAN,
         NEW updated \in BOOLEAN, challenge(q, again, updated)
  PROVE  RegistrationInv'
<1> DEFINE n == Len(vectors) + 1
           s == [to |-> "phone", dialog |-> q.dialog, status |-> 401, ch |-> n]
<1>1. (~updated) \in BOOLEAN /\ Arrives(q, again, ~updated)
  BY DEF challenge
<1>2. /\ faulty' \in BOOLEAN /\ q.to = "network"
      /\ ~faulty' => ~faulty /\ ~again /\ updated /\ q.dialog = dialog
  BY <1>1, ArrivalsKept DEF RegistrationInv
<1>3. /\ q.ch = 0 /\ n \in Nat /\ n \in Challenge /\ Len(vectors) < MaxChallenge
      /\ vectors \in Seq(Nat) /\ db_sqn \in Nat /\ Step \in Nat /\ Len(vectors) \in Nat
  BY RegistrationAssumption DEF challenge, RegistrationInv, VectorsTyped, Challenge
<1>4. /\ vectors' = Append(vectors, db_sqn) /\ cache' = {n}
      /\ (updated => db_sqn' = db_sqn + Step) /\ (~updated => db_sqn' = db_sqn)
      /\ net' = (IF again THEN net ELSE net \ {q}) \cup {s}
      /\ UNCHANGED <<phoneVars, location>>
  BY DEF challenge, generate_auth_vector, Cached, Replies
<1>5. /\ UNCHANGED <<reg_state, sqn, waiting, timer, port, dialog, stuck, location>>
      /\ Len(vectors') = n /\ vectors' \in Seq(Nat)
      /\ vectors'[n] = db_sqn
      /\ \A i \in 1 .. Len(vectors) : vectors'[i] = vectors[i] /\ vectors[i] \in Nat
      /\ \A i \in 1 .. n : i = n \/ i \in 1 .. Len(vectors)
  BY <1>3, <1>4 DEF phoneVars
<1>6. /\ s \in Response /\ s.to = "phone" /\ s.dialog = q.dialog
      /\ s.status = 401 /\ s.ch = n /\ q.dialog <= dialog
  BY <1>3, ReplyTyped DEF RegistrationInv
<1>7. /\ \A x \in net' : x \in net \/ x = s
      /\ ~again => \A x \in net' : (x \in net /\ x # q) \/ x = s
  BY <1>4
<1> HIDE DEF n, s
<1>8. VectorsTyped'
  <2>1. Step * n = Step * Len(vectors) + Step /\ Step * Len(vectors) \in Nat
    BY <1>3 DEF n
  <2>2. db_sqn <= NetworkSqn + Step * Len(vectors) /\ NetworkSqn \in Nat
    BY RegistrationAssumption DEF RegistrationInv, VectorsTyped
  <2>3. db_sqn' \in Nat /\ db_sqn' <= db_sqn + Step
    BY <1>3, <1>4
  <2>4. n <= MaxChallenge
    BY <1>3 DEF Challenge
  <2> QED
    BY <1>3, <1>5, <2>1, <2>2, <2>3, <2>4 DEF VectorsTyped
<1>9. CacheTyped'
  <2>1. Cardinality({n}) = 1
    BY FS_Singleton
  <2> QED
    BY <1>3, <1>4, <1>5, <2>1 DEF CacheTyped, n
<1>10. FlagsTyped'
  BY <1>2, <1>5 DEF RegistrationInv, FlagsTyped
<1>11. PhoneTyped'
  BY <1>5 DEF RegistrationInv, PhoneTyped
<1>12. NetTyped'
  <2>1. \A x \in net : x.ch \in 0 .. n
    BY <1>3 DEF RegistrationInv, NetTyped, n
  <2>2. s.ch \in 0 .. n /\ s.dialog <= dialog'
    BY <1>3, <1>5, <1>6
  <2> QED
    BY <1>5, <1>6, <1>7, <2>1, <2>2 DEF RegistrationInv, NetTyped
<1>13. SqnOK'
  <2>1. /\ sqn \in Nat /\ NetworkSqn <= db_sqn /\ sqn <= db_sqn + 1 /\ NetworkSqn \in Nat
        /\ \A i \in 1 .. Len(vectors) : vectors[i] <= db_sqn
        /\ ~faulty => sqn <= db_sqn
    BY RegistrationAssumption DEF RegistrationInv, SqnOK
  <2>2. db_sqn' \in Nat /\ db_sqn <= db_sqn' /\ (updated => db_sqn < db_sqn')
    BY <1>3, <1>4, RegistrationAssumption
  <2>3. \A i \in 1 .. n : vectors'[i] \in Nat /\ vectors'[i] <= db_sqn
    BY <1>3, <1>5, <2>1
  <2>4. sqn' \in Nat /\ NetworkSqn <= db_sqn' /\ sqn' <= db_sqn' + 1
    <3>1. sqn' = sqn
      BY <1>5
    <3>2. db_sqn \in Nat /\ db_sqn' \in Nat /\ db_sqn <= db_sqn'
      BY <1>3, <2>2, Zenon
    <3>3. sqn \in Nat /\ NetworkSqn \in Nat /\ NetworkSqn <= db_sqn /\ sqn <= db_sqn + 1
      BY <2>1, Zenon
    <3>4. \A a, b, c \in Nat : a <= b + 1 /\ b <= c => a <= c + 1
      OBVIOUS
    <3>5. \A a, b, c \in Nat : a <= b /\ b <= c => a <= c
      OBVIOUS
    <3> QED
      BY <3>1, <3>2, <3>3, <3>4, <3>5, Zenon
  <2>5. \A i \in 1 .. n : vectors'[i] <= db_sqn' /\ (updated => vectors'[i] < db_sqn')
    BY <1>3, <2>2, <2>3
  <2>6. ~faulty' => updated /\ sqn' <= db_sqn'
    BY <1>2, <1>3, <1>5, <2>1, <2>2
  <2> QED
    BY <1>5, <2>4, <2>5, <2>6 DEF SqnOK
<1>14. SavedOK'
  BY <1>5, <1>6, <1>7 DEF RegistrationInv, SavedOK, RegisteredIsSaved
<1>15. AnswerOK'
  <2> SUFFICES ASSUME ~faulty' PROVE reg_state' # "FAILED" /\ Exchange'
    BY DEF AnswerOK
  <2>1. ~faulty /\ ~again /\ q.dialog = dialog /\ reg_state # "FAILED" /\ Exchange
    BY <1>2 DEF RegistrationInv, AnswerOK
  <2> SUFFICES ASSUME waiting \in {"first", "second"} PROVE Exchange'
    BY <1>5, <2>1 DEF Exchange
  <2>2. Awaited(q) /\ \A x \in net : x.dialog = dialog => x = q
    BY <2>1 DEF Exchange
  <2>3. waiting = "first"
    <3>1. 0 \notin cache
      BY <1>3 DEF RegistrationInv, CacheTyped
    <3> QED
      BY <1>2, <1>3, <2>2, <3>1 DEF Awaited
  <2>4. \A x \in net' : x.dialog = dialog' => x = s
    BY <1>5, <1>7, <2>1, <2>2
  <2>5. s.ch \in cache' /\ sqn' <= vectors'[n]
    BY <1>2, <1>4, <1>5, <1>6, <2>1 DEF RegistrationInv, SqnOK
  <2> QED
    BY <1>5, <1>6, <2>3, <2>4, <2>5 DEF Exchange, Awaited
<1> QED
  BY <1>8, <1>9, <1>10, <1>11, <1>12, <1>13, <1>14, <1>15 DEF RegistrationInv

\* Without a vector or a verdict the answer is of no use, and that was a fault.
LEMMA NoVectorKept ==
  ASSUME RegistrationInv, NEW q \in net, NEW again \in BOOLEAN,
         no_vector(q, again) \/ no_verdict(q, again)
  PROVE  RegistrationInv'
<1>1. faulty' \in BOOLEAN /\ faulty'
  BY ArrivalsKept DEF no_vector, no_verdict, RegistrationInv
<1>2. /\ UNCHANGED <<reg_state, sqn, waiting, timer, port, dialog, stuck>>
      /\ UNCHANGED <<db_sqn, vectors, cache, location>>
  BY DEF no_vector, no_verdict, phoneVars, networkVars
<1>3. PICK status \in {401, 500} : Replies(q, again, status, 0)
  BY DEF no_vector, no_verdict
<1> DEFINE s == [to |-> "phone", dialog |-> q.dialog, status |-> status, ch |-> 0]
<1>4. s \in Response /\ s.status # 200 /\ s.ch = 0 /\ s.dialog <= dialog
  BY ReplyTyped DEF RegistrationInv
<1>5. \A x \in net' : x \in net \/ x = s
  BY <1>3 DEF Replies
<1> HIDE DEF s
<1>6. VectorsTyped' /\ CacheTyped' /\ FlagsTyped' /\ SqnOK' /\ PhoneTyped'
  BY <1>1, <1>2, HelperKept DEF RegistrationInv, FlagsTyped, SqnOK, PhoneTyped
<1>7. NetTyped'
  BY <1>2, <1>4, <1>5 DEF RegistrationInv, NetTyped, VectorsTyped
<1>8. SavedOK' /\ AnswerOK'
  BY <1>1, <1>2, <1>4, <1>5 DEF RegistrationInv, SavedOK, RegisteredIsSaved, AnswerOK
<1> QED
  BY <1>6, <1>7, <1>8 DEF RegistrationInv

\* A contact is saved with the 200 that says so.
LEMMA VerifyKept ==
  ASSUME RegistrationInv, NEW q \in net, NEW again \in BOOLEAN, verify(q, again)
  PROVE  RegistrationInv'
<1>1. /\ faulty' \in BOOLEAN /\ q.to = "network"
      /\ ~faulty' => ~faulty /\ ~again /\ q.dialog = dialog
  BY ArrivalsKept DEF verify, RegistrationInv
<1>2. /\ UNCHANGED <<reg_state, sqn, waiting, timer, port, dialog, stuck>>
      /\ UNCHANGED <<db_sqn, vectors, cache>> /\ q.ch # 0
  BY DEF verify, phoneVars
<1>3. PICK status \in {200, 403} :
        /\ Replies(q, again, status, 0)
        /\ \/ status = 200 /\ location' = TRUE
           \/ status = 403 /\ q.ch \notin cache /\ location' = location
  BY DEF verify, verify_digest_response
<1>4. location' \in BOOLEAN /\ (location => location')
  <2>1. location' = TRUE \/ location' = location
    BY <1>3, Zenon
  <2>2. location \in BOOLEAN
    BY DEF RegistrationInv, FlagsTyped
  <2>3. CASE location' = TRUE
    BY <2>3
  <2>4. CASE location' = location
    BY <2>2, <2>4, Zenon
  <2> QED
    BY <2>1, <2>3, <2>4, Zenon
<1> DEFINE s == [to |-> "phone", dialog |-> q.dialog, status |-> status, ch |-> 0]
<1>5. /\ s \in Response /\ s.status = status /\ s.ch = 0 /\ s.dialog = q.dialog
      /\ s.to = "phone" /\ q.dialog <= dialog
  BY ReplyTyped DEF RegistrationInv
<1>6. /\ \A x \in net' : x \in net \/ x = s
      /\ ~again => \A x \in net' : (x \in net /\ x # q) \/ x = s
  BY <1>3 DEF Replies
<1> HIDE DEF s
<1>7. VectorsTyped' /\ CacheTyped' /\ FlagsTyped' /\ SqnOK' /\ PhoneTyped'
  BY <1>1, <1>2, <1>4, HelperKept DEF RegistrationInv, FlagsTyped, SqnOK, PhoneTyped
<1>8. NetTyped'
  BY <1>2, <1>5, <1>6 DEF RegistrationInv, NetTyped, VectorsTyped
<1>9. SavedOK'
  BY <1>2, <1>3, <1>4, <1>5, <1>6 DEF RegistrationInv, SavedOK, RegisteredIsSaved
<1>10. AnswerOK'
  <2> SUFFICES ASSUME ~faulty' PROVE reg_state' # "FAILED" /\ Exchange'
    BY DEF AnswerOK
  <2>1. ~faulty /\ ~again /\ q.dialog = dialog /\ reg_state # "FAILED" /\ Exchange
    BY <1>1 DEF RegistrationInv, AnswerOK
  <2> SUFFICES ASSUME waiting \in {"first", "second"} PROVE Exchange'
    BY <1>2, <2>1 DEF Exchange
  <2>2. Awaited(q) /\ \A x \in net : x.dialog = dialog => x = q
    BY <2>1 DEF Exchange
  <2>3. waiting = "second" /\ q.ch \in cache
    BY <1>1, <1>2, <2>2 DEF Awaited
  <2>4. \A x \in net' : x.dialog = dialog' => x = s
    BY <1>2, <1>6, <2>1, <2>2
  <2> QED
    BY <1>2, <1>3, <1>5, <2>3, <2>4 DEF Exchange, Awaited
<1> QED
  BY <1>7, <1>8, <1>9, <1>10 DEF RegistrationInv

\* The helper forgets its vector, and a contact is forgotten only when no phone
\* relies on it.
LEMMA ForgottenKept ==
  ASSUME RegistrationInv, helper_restart \/ contact_expires
  PROVE  RegistrationInv'
<1>1. /\ UNCHANGED <<reg_state, sqn, waiting, timer, port, dialog, stuck>>
      /\ UNCHANGED <<net, db_sqn, vectors>>
  BY DEF helper_restart, contact_expires, phoneVars
<1>2. CacheTyped' /\ VectorsTyped'
  <2>1. cache' = {} \/ cache' = cache
    BY DEF helper_restart, contact_expires
  <2>2. Cardinality({}) = 0
    BY FS_EmptySet
  <2>3. CASE cache' = {}
    <3>1. Cardinality(cache') = 0
      BY <2>2, <2>3, Zenon
    <3> QED
      BY <1>1, <2>3, <3>1 DEF RegistrationInv, CacheTyped, VectorsTyped
  <2>4. CASE cache' = cache
    BY <1>1, <2>4, HelperKept
  <2> QED
    BY <2>1, <2>3, <2>4
<1>3. FlagsTyped' /\ (~faulty' => ~faulty)
  <2>1. /\ (faulty' = faulty) \/ (faulty' = TRUE)
        /\ (location' = location) \/ (location' = FALSE)
    BY DEF helper_restart, contact_expires
  <2>2. location \in BOOLEAN /\ stuck' \in BOOLEAN /\ faulty \in BOOLEAN
    BY <1>1, Zenon DEF RegistrationInv, FlagsTyped
  <2>3. location' \in BOOLEAN
    <3>1. CASE location' = FALSE
      BY <3>1
    <3>2. CASE location' = location
      BY <2>2, <3>2, Zenon
    <3> QED
      BY <2>1, <3>1, <3>2, Zenon
  <2>4. faulty' \in BOOLEAN /\ (~faulty' => ~faulty)
    <3>1. CASE faulty' = TRUE
      BY <3>1
    <3>2. CASE faulty' = faulty
      BY <2>2, <3>2, Zenon
    <3> QED
      BY <2>1, <3>1, <3>2, Zenon
  <2> QED
    BY <2>2, <2>3, <2>4, Zenon DEF FlagsTyped
<1>4. PhoneTyped' /\ NetTyped' /\ SqnOK'
  BY <1>1, <1>3 DEF RegistrationInv, PhoneTyped, NetTyped, SqnOK
<1>5. SavedOK'
  BY <1>1 DEF RegistrationInv, SavedOK, RegisteredIsSaved, helper_restart, contact_expires
<1>6. AnswerOK'
  <2>1. CASE helper_restart
    BY <2>1 DEF AnswerOK, helper_restart
  <2>2. CASE contact_expires
    BY <1>1, <2>2 DEF RegistrationInv, AnswerOK, Exchange, contact_expires
  <2> QED
    BY <2>1, <2>2
<1> QED
  BY <1>2, <1>3, <1>4, <1>5, <1>6 DEF RegistrationInv

-----------------------------------------------------------------------------
(* The service. *)

\* main is there exactly in the service's scenes, and has no registration under
\* way when it comes to register.
ServiceOK ==
  /\ main \in {"none", "epdg", "proxy", "registering", "volte", "running",
               "idle", "ended"}
  /\ proxy \in BOOLEAN /\ scene \in SceneType
  /\ main # "none" => scene.kind = "service"
  /\ main \in {"epdg", "proxy", "ended"} => waiting = "none"

ServiceInv == TunnelInv /\ RegistrationInv /\ ServiceOK

\* A budget that is spent leaves a scene.
LEMMA SpendKept ==
  ASSUME scene \in SceneType,
         NEW what \in {"calls", "starts", "faults", "drops"}, Spend(what)
  PROVE  scene' \in SceneType /\ scene'.kind = scene.kind
BY DEF SceneType, Spend

\* What goes on in the tunnel and in the registration keeps their invariants.
LEMMA RegistrationKept ==
  ASSUME RegistrationInv,
         \/ Delivered(FALSE) \/ Delivered(TRUE) \/ _reregister \/ contact_expires
         \/ \E s \in net : ignored(s) \/ lose(s) \/ no_vector(s, FALSE)
                           \/ no_verdict(s, FALSE) \/ challenge(s, FALSE, FALSE)
         \/ helper_restart \/ timeout
  PROVE  RegistrationInv'
BY ChallengedKept, AnsweredKept, LeftKept, ChallengeKept, VerifyKept, NoVectorKept,
   DroppedKept, ForgottenKept, ReregisterKept, TimeoutKept DEF Delivered

\* The service, whoever uses the classes, keeps the three invariants.
LEMMA ServiceKept == ServiceInv /\ [Next]_vars => ServiceInv'
<1> SUFFICES ASSUME ServiceInv, [Next]_vars PROVE ServiceInv'
  OBVIOUS
<1>1. TunnelInv /\ RegistrationInv /\ ServiceOK
  BY DEF ServiceInv
<1>2. ASSUME UNCHANGED registrationVars PROVE RegistrationInv'
  BY <1>1, <1>2, NothingMoves
<1>3. ASSUME UNCHANGED tunnelVars PROVE TunnelInv'
  BY <1>1, <1>3, TunnelKept
<1>4. CASE main_connect
  <2>1. UNCHANGED registrationVars /\ (connect \/ connect_unwritten) /\ main' = "proxy"
    BY <1>4 DEF main_connect
  <2>2. ServiceOK'
    <3>1. scene' \in SceneType /\ scene'.kind = scene.kind
      BY <1>1, <1>4, SpendKept DEF main_connect, ServiceOK
    <3>2. proxy' = proxy /\ waiting' = waiting /\ main = "epdg"
      BY <1>4 DEF main_connect, registrationVars
    <3> QED
      BY <1>1, <2>1, <3>1, <3>2 DEF ServiceOK
  <2> QED
    BY <1>1, <1>2, <2>1, <2>2, TunnelKept DEF ServiceInv
<1>5. CASE main_proxy
  <2>1. waiting = "none" /\ UNCHANGED <<tunnelVars, scene>>
    BY <1>1, <1>5 DEF main_proxy, ServiceOK
  <2>2. RegistrationInv'
    <3>1. CASE proxy'
      BY <1>1, <1>5, <2>1, <3>1, RegisterKept DEF main_proxy
    <3>2. CASE ~proxy'
      BY <1>2, <1>5, <3>2 DEF main_proxy
    <3> QED
      BY <3>1, <3>2
  <2>3. ServiceOK'
    <3>1. main = "proxy" /\ main' \in {"registering", "idle"}
      BY <1>5 DEF main_proxy
    <3>2. proxy' \in BOOLEAN
      BY <1>1, <1>5, Zenon DEF main_proxy, ServiceOK
    <3> QED
      BY <1>1, <2>1, <3>1, <3>2 DEF ServiceOK
  <2> QED
    BY <1>3, <2>1, <2>2, <2>3 DEF ServiceInv
<1>6. CASE main_registered
  BY <1>1, <1>2, <1>3, <1>6 DEF main_registered, ServiceInv, ServiceOK, registrationVars
<1>7. CASE main_volte
  <2>1. CASE CanBind
    BY <1>1, <1>2, <1>3, <1>7, <2>1 DEF main_volte, ServiceInv, ServiceOK, registrationVars
  <2>2. CASE ~CanBind
    <3>1. TunnelRestart /\ RegistrationRestart /\ main' = "ended" /\ main = "volte"
          /\ UNCHANGED <<proxy, scene>>
      BY <1>7, <2>2 DEF main_volte
    <3>2. ServiceOK'
      BY <1>1, <3>1 DEF ServiceOK, RegistrationRestart
    <3> QED
      BY <1>1, <3>1, <3>2, TunnelKept, RegistrationRestartKept DEF ServiceInv
  <2> QED
    BY <2>1, <2>2
<1>8. CASE main_killed
  <2>1. TunnelRestart /\ RegistrationRestart /\ main' = "ended" /\ main # "none"
        /\ UNCHANGED proxy /\ Spend("faults")
    BY <1>8 DEF main_killed
  <2>2. ServiceOK'
    BY <1>1, <2>1, SpendKept DEF ServiceOK, RegistrationRestart
  <2> QED
    BY <1>1, <2>1, <2>2, TunnelKept, RegistrationRestartKept DEF ServiceInv
<1>9. CASE supervisor_starts
  <2>1. ServiceOK'
    <3>1. scene' \in SceneType /\ scene'.kind = scene.kind
      BY <1>1, <1>9, SpendKept DEF supervisor_starts, ServiceOK
    <3>2. main = "ended" /\ main' \in {"epdg", "proxy"} /\ proxy' \in BOOLEAN
      <4>1. scene.pcscf \in BOOLEAN
        BY <1>1 DEF ServiceOK, SceneType
      <4> QED
        BY <1>9, <4>1 DEF supervisor_starts
    <3>3. waiting' = waiting
      BY <1>9 DEF supervisor_starts, registrationVars
    <3> QED
      BY <1>1, <3>1, <3>2, <3>3 DEF ServiceOK
  <2> QED
    BY <1>2, <1>3, <1>9, <2>1 DEF supervisor_starts, ServiceInv
<1>10. CASE session_register \/ session_deregister \/ tunnel_call
  <2>1. /\ Spend("calls") /\ scene.kind # "service"
        /\ UNCHANGED <<main, proxy>>
    BY <1>10 DEF session_register, session_deregister, tunnel_call
  <2>2. main = "none"
    BY <1>1, <2>1 DEF ServiceOK
  <2>3. ServiceOK'
    BY <1>1, <2>1, <2>2, SpendKept DEF ServiceOK
  <2>4. CASE session_register
    BY <1>1, <1>3, <2>3, <2>4, RegisterKept DEF session_register, ServiceInv
  <2>5. CASE session_deregister
    BY <1>1, <1>3, <2>3, <2>5, DeregisterKept DEF session_deregister, ServiceInv
  <2>6. CASE tunnel_call
    BY <1>1, <1>2, <2>3, <2>6, TunnelKept DEF tunnel_call, ServiceInv
  <2> QED
    BY <1>10, <2>4, <2>5, <2>6
<1>11. CASE TunnelGoesOn \/ TunnelFaults
  <2>1. /\ scene' \in SceneType /\ scene'.kind = scene.kind
        /\ UNCHANGED <<registrationVars, main, proxy>>
    BY <1>1, <1>11, SpendKept DEF TunnelGoesOn, TunnelFaults, ServiceOK
  <2>2. ServiceOK'
    BY <1>1, <2>1 DEF ServiceOK, registrationVars
  <2>3. TunnelInv'
    BY <1>1, <1>11, TunnelKept DEF TunnelGoesOn, TunnelFaults, Worker
  <2> QED
    BY <1>2, <2>1, <2>2, <2>3 DEF ServiceInv
<1>12. CASE RegistrationGoesOn \/ RegistrationTimeout \/ RegistrationFaults
  <2>1. /\ scene' \in SceneType /\ scene'.kind = scene.kind
        /\ UNCHANGED <<tunnelVars, main, proxy>>
    BY <1>1, <1>12, SpendKept
       DEF RegistrationGoesOn, RegistrationTimeout, RegistrationFaults, ServiceOK
  <2>2. RegistrationInv'
    BY <1>1, <1>12, RegistrationKept
       DEF RegistrationGoesOn, RegistrationTimeout, RegistrationFaults
  <2>3. waiting' = "none" \/ waiting # "none"
    BY <1>12 DEF RegistrationGoesOn, RegistrationTimeout, RegistrationFaults, Delivered,
                 challenged, answered, left, challenge, verify, no_vector, no_verdict, lose,
                 ignored, helper_restart, contact_expires, timeout, _reregister, phoneVars
  <2>4. ServiceOK'
    BY <1>1, <2>1, <2>3 DEF ServiceOK
  <2> QED
    BY <1>3, <2>1, <2>2, <2>4 DEF ServiceInv
<1>13. CASE UNCHANGED vars
  BY <1>1, <1>2, <1>3, <1>13 DEF vars, ServiceInv, ServiceOK, registrationVars
<1> QED
  BY <1>4, <1>5, <1>6, <1>7, <1>8, <1>9, <1>10, <1>11, <1>12, <1>13 DEF Next, Main

\* The invariant holds throughout.
LEMMA ServiceInvariant == Spec => []ServiceInv
<1>1. Init => ServiceInv
  <2> SUFFICES ASSUME Init PROVE ServiceInv
    OBVIOUS
  <2>1. scene \in SceneType
    BY ServiceAssumption DEF Init, ServiceInit
  <2>2. scene.pcscf \in BOOLEAN
    BY <2>1 DEF SceneType
  <2>3. ServiceOK
    BY <2>1, <2>2 DEF Init, ServiceInit, ServiceOK, RegistrationInit
  <2> QED
    BY <2>3, TunnelInitially, RegistrationInitially DEF Init, ServiceInv
<1> QED
  BY <1>1, ServiceKept, PTL DEF Spec

-----------------------------------------------------------------------------
(* The theorems. *)

\* ImsService: its variables keep their types and its numbers their bounds; in
\* particular main comes to register with no registration under way.
THEOREM TypeCorrect == Spec => []TypeOK
<1>1. ServiceInv => TypeOK
  BY RegistrationTyped DEF ServiceInv, ServiceOK, TunnelInv, TypeOK
<1> QED
  BY <1>1, ServiceInvariant, PTL

\* VoWiFiTunnel (ims/vowifi.py): unless calls cross, what the management API is
\* shown agrees with the state of the tunnel.
THEOREM ShownStateIsTrue == Spec => []ShownIsSo
<1>1. ServiceInv => ShownIsSo
  BY TunnelSafe DEF ServiceInv
<1> QED
  BY <1>1, ServiceInvariant, PTL

\* VoWiFiTunnel: unless calls cross, no monitor is alive that disconnect would
\* not cancel, and none after it.
THEOREM MonitorsAreKnown == Spec => []MonitorIsKnown
<1>1. ServiceInv => MonitorIsKnown
  BY TunnelSafe DEF ServiceInv
<1> QED
  BY <1>1, ServiceInvariant, PTL

\* VoWiFiTunnel.disconnect: a tunnel that is disconnected has left an SA behind
\* only where something named explains it.
THEOREM DisconnectTearsDown == Spec => []TornDown
<1>1. ServiceInv => TornDown
  BY TunnelSafe DEF ServiceInv
<1> QED
  BY <1>1, ServiceInvariant, PTL

\* IMSRegistration and the helper behind the S-CSCF: no registration fails
\* without a fault, however the registrations, refreshes and restarts follow.
THEOREM OnlyFaultsFail == Spec => []FailedNeedsFault
<1>1. ServiceInv => FailedNeedsFault
  BY RegistrationSafe DEF ServiceInv
<1> QED
  BY <1>1, ServiceInvariant, PTL

\* IMSRegistration: whoever says it is registered has a contact saved, in spite
\* of datagrams that are lost, late or repeated.
THEOREM ContactIsSaved == Spec => []RegisteredIsSaved
<1>1. ServiceInv => RegisteredIsSaved
  BY RegistrationSafe DEF ServiceInv
<1> QED
  BY <1>1, ServiceInvariant, PTL

\* creds.sqn and the subscriber's SQN: the phone is at most one ahead, whichever
\* updates of the database were lost.
THEOREM SqnsStayTogether == Spec => []NotAheadOfNetwork
<1>1. ServiceInv => NotAheadOfNetwork
  BY RegistrationSafe DEF ServiceInv
<1> QED
  BY <1>1, ServiceInvariant, PTL
=============================================================================
