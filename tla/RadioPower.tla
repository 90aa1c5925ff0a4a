----------------------------- MODULE RadioPower -----------------------------
(***************************************************************************)
(* Power, SIM presence and simulated network registration of RadioHAL.     *)
(*                                                                         *)
(* power_on waits for the eUICC daemon between switching the radio on and  *)
(* starting the registration task; the task sleeps between its phases.     *)
(* Anything else may run at these awaits.                                  *)
(***************************************************************************)
EXTENDS Naturals, FiniteSets

CONSTANTS
  Boot,        \* the caller of power_on at the start of the bridge
  Caller,      \* the other coroutines that may call power_on and power_off
  RegTask      \* bound: registration tasks that may be unfinished at a time

ASSUME RadioAssumption == Boot \notin Caller /\ RegTask # {}

VARIABLES
  radio_state,     \* radio_state
  operator,        \* registration.mcc and mnc are known
  reg,             \* registration.reg_state
  data,            \* data_calls is not empty
  asking,          \* coroutines awaiting _get_active_profile in power_on
  phase,           \* what each registration task does next
  current,         \* _registration_task: a set of at most one task
  orphaned         \* history: a task was started that no power_off can cancel

radioVars == <<radio_state, operator, reg, data, asking, phase, current,
               orphaned>>

RadioTypeOK ==
  /\ radio_state \in {"OFF", "ON"} /\ operator \in BOOLEAN
  /\ reg \in {"NOT_SEARCHING", "SEARCHING", "HOME"} /\ data \in BOOLEAN
  /\ asking \subseteq Caller \cup {Boot}
  /\ phase \in [RegTask -> {"done", "search", "attach", "connect"}]
  /\ current \subseteq RegTask /\ Cardinality(current) <= 1
  /\ orphaned \in BOOLEAN

RadioInit ==
  /\ radio_state = "OFF" /\ operator = FALSE
  /\ reg = "NOT_SEARCHING" /\ data = FALSE
  /\ asking = {} /\ phase = [t \in RegTask |-> "done"] /\ current = {}
  /\ orphaned = FALSE

\* The process that holds all of this starts anew.
RadioReset ==
  /\ radio_state' = "OFF" /\ operator' = FALSE
  /\ reg' = "NOT_SEARCHING" /\ data' = FALSE
  /\ asking' = {} /\ phase' = [t \in RegTask |-> "done"] /\ current' = {}
  /\ orphaned' = FALSE

Unfinished(t) == phase[t] # "done"

\* power_on up to its first await.
power_on(h) ==
  /\ radio_state' = "ON" /\ asking' = asking \cup {h}
  /\ UNCHANGED <<operator, reg, data, phase, current, orphaned>>

\* The bound on tasks leaves one for a new registration.
RoomForTask == \E u \in RegTask \ current : ~Unfinished(u)

\* The eUICC daemon has answered; without an answer there is no profile.  The
\* new task takes the place of the old one.  Whether a SIM is present is not
\* kept: get_sim_status asks the eUICC again.
power_on_profile(h, present) ==
  /\ h \in asking /\ asking' = asking \ {h}
  /\ present => RoomForTask
  /\ IF present
     THEN LET t == CHOOSE u \in RegTask \ current : ~Unfinished(u) IN
            /\ operator' = TRUE
            /\ phase' = [phase EXCEPT ![t] = "search"]
            /\ current' = {t}
            /\ orphaned' = (\/ orphaned \/ radio_state = "OFF"
                            \/ \E u \in current : Unfinished(u))
     ELSE UNCHANGED <<operator, phase, current, orphaned>>
  /\ UNCHANGED <<radio_state, reg, data>>

\* Mutant: the registration task goes on.
power_off_KeepsTask ==
  /\ radio_state' = "OFF"
  /\ operator' = FALSE /\ reg' = "NOT_SEARCHING" /\ data' = FALSE
  /\ current' = {}
  /\ UNCHANGED <<asking, phase, orphaned>>

\* Mutant: the data call stays up.
power_off_KeepsData ==
  /\ radio_state' = "OFF"
  /\ operator' = FALSE /\ reg' = "NOT_SEARCHING"
  /\ phase' = [t \in RegTask |-> IF t \in current THEN "done" ELSE phase[t]]
  /\ current' = {}
  /\ UNCHANGED <<data, asking, orphaned>>

power_off ==
  /\ radio_state' = "OFF"
  /\ operator' = FALSE /\ reg' = "NOT_SEARCHING" /\ data' = FALSE
  /\ phase' = [t \in RegTask |-> IF t \in current THEN "done" ELSE phase[t]]
  /\ current' = {}
  /\ UNCHANGED <<asking, orphaned>>

\* The phases of _simulate_registration, each after a sleep.
simulate_search(t) ==
  /\ phase[t] = "search" /\ phase' = [phase EXCEPT ![t] = "attach"]
  /\ reg' = "SEARCHING"
  /\ UNCHANGED <<radio_state, operator, data, asking, current, orphaned>>

simulate_attach(t) ==
  /\ phase[t] = "attach" /\ phase' = [phase EXCEPT ![t] = "connect"]
  /\ reg' = "HOME"
  /\ UNCHANGED <<radio_state, operator, data, asking, current, orphaned>>

simulate_connect(t) ==
  /\ phase[t] = "connect" /\ phase' = [phase EXCEPT ![t] = "done"]
  /\ data' = TRUE
  /\ UNCHANGED <<radio_state, operator, reg, asking, current, orphaned>>

_simulate_registration(t) ==
  simulate_search(t) \/ simulate_attach(t) \/ simulate_connect(t)

-----------------------------------------------------------------------------
(* Properties. *)

\* A radio that is off is not registered, does not register and has no data
\* call, unless power requests overtook one another: one waited for the eUICC
\* while another switched the radio off, or started its task over another.
OffIsIdle ==
  radio_state = "OFF" /\ ~orphaned =>
    reg = "NOT_SEARCHING" /\ ~data /\ \A t \in RegTask : ~Unfinished(t)
=============================================================================
