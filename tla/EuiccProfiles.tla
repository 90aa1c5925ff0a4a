---------------------------- MODULE EuiccProfiles ----------------------------
(***************************************************************************)
(* The profiles of VirtualEUICC, in memory and in the profile directory.   *)
(*                                                                         *)
(* The daemon serves one message at a time without suspending, so requests *)
(* never interleave; what can come between two steps of a request is the   *)
(* end of the process, and an I/O error while a profile is saved.          *)
(* _save_profile first truncates the file of the profile (open) and then   *)
(* writes it (close): in between, the profile is nowhere on disk.          *)
(* A request that is refused changes nothing and has no action here.       *)
(***************************************************************************)
EXTENDS Integers, FiniteSetsExt

CONSTANTS
  Iccid,       \* ICCIDs of profiles
  None,        \* no profile
  Sizes,       \* sizes a profile package may state
  FreeNvram,   \* EUICCInfo.free_nvram of a new process
  Challenges   \* sequence numbers of authentication challenges

ASSUME ProfilesAssumption ==
  /\ None \notin Iccid
  /\ Sizes \subseteq Nat /\ FreeNvram \in Nat /\ Challenges \subseteq Nat

VARIABLES
  up,         \* the daemon is running and READY
  installed,  \* keys of VirtualEUICC.profiles
  isdp,       \* the ISDP objects; stale while the daemon is down
  active,     \* _active_iccid
  free,       \* info.free_nvram
  stored,     \* profiles whose file is complete
  file,       \* what is in those files
  saving,     \* the _save_profile that is going on
  acked,      \* history: the state the last reply promises of a profile
  unsaved     \* history: profiles whose last save failed

memory == <<installed, isdp, active, free>>
directory == <<stored, file>>
vars == <<up, memory, directory, saving, acked, unsaved>>

ProfileState == {"DISABLED", "ENABLED"}
Isdp == [state: ProfileState, sqn: Nat]
New == [state |-> "DISABLED", sqn |-> 0]
Promise == ProfileState \cup {"absent", "unsure", "switching"}

\* A request that changes the profiles in of is saving i, whose file is
\* truncated if open; next is to be enabled after that.
Saving(i, n, of) == [i |-> i, open |-> FALSE, next |-> n, of |-> of]
Idle == Saving(None, None, {})

TypeOK ==
  /\ up \in BOOLEAN
  /\ installed \subseteq Iccid /\ stored \subseteq Iccid
  /\ isdp \in [Iccid -> Isdp] /\ file \in [Iccid -> Isdp]
  /\ active \in Iccid \cup {None}
  /\ free \in Nat
  /\ saving \in [i: Iccid \cup {None}, open: BOOLEAN,
                 next: Iccid \cup {None}, of: SUBSET Iccid]
  /\ acked \in [Iccid -> Promise]
  /\ unsaved \subseteq Iccid

Init ==
  /\ up = FALSE
  /\ installed = {} /\ stored = {}
  /\ isdp = [i \in Iccid |-> New] /\ file = [i \in Iccid |-> New]
  /\ active = None /\ free = FreeNvram
  /\ saving = Idle
  /\ acked = [i \in Iccid |-> "absent"]
  /\ unsaved = {}

\* initialize and _load_profiles; files are read in any order, and the last
\* enabled one becomes the active one.
initialize ==
  /\ ~up /\ up' = TRUE
  /\ installed' = stored
  /\ isdp' = [i \in Iccid |-> IF i \in stored THEN file[i] ELSE New]
  /\ LET on == {i \in stored : file[i].state = "ENABLED"} IN
     active' \in IF on = {} THEN {None} ELSE on
  /\ free' = FreeNvram
  /\ UNCHANGED <<directory, saving, acked, unsaved>>

\* What a request was changing is uncertain once it failed or was cut off: the
\* state of a profile known to be installed, or whether it is installed.
Unsure ==
  [i \in Iccid |->
     CASE i \notin saving.of -> acked[i]
       [] i \in saving.of /\ acked[i] \in {"absent", "unsure"} -> "unsure"
       [] OTHER -> "switching"]

\* The process ends, whatever it was doing.
terminate ==
  /\ up /\ up' = FALSE
  /\ saving' = Idle
  /\ acked' = Unsure
  /\ UNCHANGED <<memory, directory, unsaved>>

-----------------------------------------------------------------------------
(* Requests. *)

Ready == up /\ saving = Idle

\* Mutant: packages larger than the free memory are accepted.
install_profile_Unchecked(i) ==
  /\ Ready /\ i \notin installed
  /\ \E s \in Sizes : free' = free - s
  /\ installed' = installed \cup {i}
  /\ isdp' = [isdp EXCEPT ![i] = New]
  /\ saving' = Saving(i, None, {i})
  /\ UNCHANGED <<up, active, directory, acked, unsaved>>

install_profile(i) ==
  /\ Ready /\ i \notin installed
  /\ \E s \in Sizes : s <= free /\ free' = free - s
  /\ installed' = installed \cup {i}
  /\ isdp' = [isdp EXCEPT ![i] = New]
  /\ saving' = Saving(i, None, {i})
  /\ UNCHANGED <<up, active, directory, acked, unsaved>>

\* Enabling and disabling again succeeds without doing anything.
already(i, s) ==
  /\ Ready /\ i \in installed /\ isdp[i].state = s
  /\ acked' = [acked EXCEPT ![i] = s]
  /\ UNCHANGED <<up, memory, directory, saving, unsaved>>

\* The profile is enabled in memory before it is saved.
Enabled(i, of) ==
  /\ isdp' = [isdp EXCEPT ![i].state = "ENABLED"]
  /\ active' = i
  /\ saving' = Saving(i, None, of)

\* Mutant: the current profile is left enabled.
enable_profile_KeepsCurrent(i) ==
  /\ Ready /\ i \in installed /\ isdp[i].state = "DISABLED"
  /\ Enabled(i, {i})
  /\ UNCHANGED <<up, installed, free, directory, acked, unsaved>>

\* Mutant: the current profile is disabled, but only the new one is saved.
enable_profile_SavesOne(i) ==
  /\ Ready /\ i \in installed /\ isdp[i].state = "DISABLED"
  /\ isdp' = [j \in Iccid |->
       CASE j = i -> [isdp[j] EXCEPT !.state = "ENABLED"]
         [] j = active -> [isdp[j] EXCEPT !.state = "DISABLED"]
         [] OTHER -> isdp[j]]
  /\ active' = i
  /\ saving' = Saving(i, None, {i})
  /\ UNCHANGED <<up, installed, free, directory, acked, unsaved>>

\* The current profile, if any, is disabled and saved first.
enable_profile(i) ==
  /\ Ready /\ i \in installed /\ isdp[i].state = "DISABLED"
  /\ \/ /\ active \in installed
        /\ isdp' = [isdp EXCEPT ![active].state = "DISABLED"]
        /\ saving' = Saving(active, i, {active, i})
        /\ UNCHANGED active
     \/ active \notin installed /\ Enabled(i, {i})
  /\ UNCHANGED <<up, installed, free, directory, acked, unsaved>>

\* Mutant: the change is not saved.
disable_profile_Unsaved(i) ==
  /\ Ready /\ i \in installed /\ isdp[i].state = "ENABLED"
  /\ isdp' = [isdp EXCEPT ![i].state = "DISABLED"]
  /\ active' = IF active = i THEN None ELSE active
  /\ acked' = [acked EXCEPT ![i] = "DISABLED"]
  /\ UNCHANGED <<up, installed, free, directory, saving, unsaved>>

disable_profile(i) ==
  /\ Ready /\ i \in installed /\ isdp[i].state = "ENABLED"
  /\ isdp' = [isdp EXCEPT ![i].state = "DISABLED"]
  /\ saving' = Saving(i, None, {i})
  /\ UNCHANGED <<up, installed, active, free, directory, acked, unsaved>>

\* Nothing durable happens before the unlink, which is the last step.
delete_profile(i) ==
  /\ Ready /\ i \in installed
  /\ active' = IF active = i THEN None ELSE active
  /\ installed' = installed \ {i}
  /\ stored' = stored \ {i}
  /\ acked' = [acked EXCEPT ![i] = "absent"]
  /\ unsaved' = unsaved \ {i}
  /\ UNCHANGED <<up, isdp, free, file, saving>>

\* AUTHENTICATE with the active profile: sequence number n is accepted when
\* it is not below the stored one, which goes up by one and is not saved.
authenticate(n) ==
  /\ Ready /\ active \in installed
  /\ n >= isdp[active].sqn
  /\ isdp' = [isdp EXCEPT ![active].sqn = @ + 1]
  /\ UNCHANGED <<up, installed, active, free, directory, saving, acked, unsaved>>

-----------------------------------------------------------------------------
(* _save_profile. *)

\* open(path, "w") truncates the file.
open_file ==
  /\ saving.i # None /\ ~saving.open
  /\ saving' = [saving EXCEPT !.open = TRUE]
  /\ stored' = stored \ {saving.i}
  /\ UNCHANGED <<up, memory, file, acked, unsaved>>

\* The file is written and enable_profile turns to its target, or the request
\* is answered, disable_profile having forgotten the active profile.
\* Mutant: it has not.
Reply_KeepsActive(i) ==
  /\ saving' = Idle
  /\ acked' = [j \in Iccid |-> IF j \in saving.of THEN isdp[j].state
                               ELSE acked[j]]
  /\ UNCHANGED <<isdp, active>>

Reply(i) ==
  /\ saving' = Idle
  /\ acked' = [j \in Iccid |-> IF j \in saving.of THEN isdp[j].state
                               ELSE acked[j]]
  /\ active' = IF active = i /\ isdp[i].state = "DISABLED" THEN None ELSE active
  /\ UNCHANGED isdp

close_file ==
  /\ saving.i # None /\ saving.open
  /\ stored' = stored \cup {saving.i}
  /\ file' = [file EXCEPT ![saving.i] = isdp[saving.i]]
  /\ \/ saving.next # None /\ Enabled(saving.next, saving.of) /\ UNCHANGED acked
     \/ saving.next = None /\ Reply(saving.i)
  /\ unsaved' = unsaved \ {saving.i}
  /\ UNCHANGED <<up, installed, free>>

\* OSError, from open or from the write: the request ends where it is.
save_fails ==
  /\ saving.i # None
  /\ saving' = Idle
  /\ acked' = Unsure
  /\ unsaved' = unsaved \cup {saving.i}
  /\ UNCHANGED <<up, memory, directory>>

Next ==
  \/ initialize \/ terminate
  \/ \E i \in Iccid :
       \/ install_profile(i) \/ enable_profile(i) \/ disable_profile(i)
       \/ delete_profile(i) \/ \E s \in ProfileState : already(i, s)
  \/ \E n \in Challenges : authenticate(n)
  \/ open_file \/ close_file \/ save_fails

Spec == Init /\ [][Next]_vars
-----------------------------------------------------------------------------
(* Properties. *)

\* Only one profile can be active at a time: an enabled profile is the one
\* _active_iccid names, after any number of restarts and failed saves.
OneEnabled ==
  up => \A i \in installed : isdp[i].state = "ENABLED" => active = i

\* The profile directory is a set of profiles of which at most one is enabled
\* whenever the daemon is killed, each step replacing, adding or losing one.
Slot == INSTANCE ProfileSlot WITH
  slot <- [i \in Iccid |-> IF i \in stored THEN file[i].state ELSE "absent"]
DirectoryIsSlot == Slot!Spec

\* get_active_profile returns the currently enabled profile, or None: between
\* requests no disabled profile is used for authentication, nor an enabled
\* one ignored, once every profile whose save failed has been saved again.
ActiveIsEnabled ==
  Ready /\ unsaved = {} =>
    {i \in installed : i = active} = {i \in installed : isdp[i].state = "ENABLED"}

\* What a reply promised of a profile is what the next start finds, unless a
\* later request on it has failed or is still going on, or its save has not
\* been made up for.
AcknowledgedSurvives ==
  \A i \in Iccid \ (saving.of \cup unsaved) :
    /\ acked[i] = "absent" => i \notin stored
    /\ acked[i] \in ProfileState => i \in stored /\ file[i].state = acked[i]

=============================================================================
