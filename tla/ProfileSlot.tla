----------------------------- MODULE ProfileSlot -----------------------------
(***************************************************************************)
(* What the profile directory of the eUICC promises whoever reads it next: *)
(* profiles come and go one at a time, and at most one of those found is   *)
(* the enabled one, whenever the daemon is killed.                         *)
(***************************************************************************)
CONSTANT Iccid
VARIABLE slot    \* per ICCID: "absent", "DISABLED" or "ENABLED"

Init == slot = [i \in Iccid |-> "absent"]

\* The file of profile i disappears or cannot be read.
Erase(i) == slot' = [slot EXCEPT ![i] = "absent"]

\* The file of profile i is complete; enabled, only if no other one is.
Store(i) ==
  \E s \in {"DISABLED", "ENABLED"} :
    /\ s = "ENABLED" => \A j \in Iccid \ {i} : slot[j] # "ENABLED"
    /\ slot' = [slot EXCEPT ![i] = s]

Next == \E i \in Iccid : Erase(i) \/ Store(i)

Spec == Init /\ [][Next]_slot
=============================================================================
