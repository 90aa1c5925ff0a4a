------------------------ MODULE EuiccProfiles_proofs ------------------------
(***************************************************************************)
(* Proofs about EuiccProfiles, for any set of profiles, package sizes and  *)
(* memory, with saves that fail and a process that ends at any step.       *)
(***************************************************************************)
EXTENDS EuiccProfiles, TLAPS

\* Only a running daemon saves profiles, and those it knows; while a profile
\* is to be enabled next, the one being saved is the active one, disabled.
SavingOK ==
  /\ saving.i = None => saving = Idle
  /\ saving.i # None => up /\ saving.i \in saving.of
  /\ saving.of \subseteq installed
  /\ saving.next # None =>
       /\ saving.i # None /\ saving.next \in saving.of
       /\ active = saving.i /\ isdp[saving.i].state = "DISABLED"

\* A profile stored as enabled is the active one of a running daemon; so a
\* second one is stored as enabled only after the first was overwritten.
DirectoryOK ==
  /\ up => \A i \in stored :
             file[i].state = "ENABLED" => i \in installed /\ active = i
  /\ \A i, j \in stored :
       file[i].state = "ENABLED" /\ file[j].state = "ENABLED" => i = j

\* Memory and directory agree on every profile, but for the one being saved
\* and those whose save failed.
SavedOK ==
  up => \A i \in Iccid \ (unsaved \cup {saving.i}) :
          /\ i \in installed <=> i \in stored
          /\ i \in installed => file[i].state = isdp[i].state

\* The active profile is disabled only while that is being saved, or could not
\* be.
ActiveOK ==
  up => /\ active \in installed \cup {None}
        /\ active \in installed /\ isdp[active].state = "DISABLED" =>
             active \in unsaved \cup {saving.i}

IInv == /\ TypeOK /\ SavingOK /\ OneEnabled /\ DirectoryOK
        /\ SavedOK /\ ActiveOK /\ AcknowledgedSurvives

-----------------------------------------------------------------------------
(* Type correctness. *)

\* Turning to the profile to be enabled keeps the types.
LEMMA EnabledType ==
  ASSUME NEW i \in Iccid, NEW of \in SUBSET Iccid, TypeOK, Enabled(i, of)
  PROVE  /\ isdp' \in [Iccid -> Isdp] /\ active' \in Iccid \cup {None}
         /\ saving' \in [i: Iccid \cup {None}, open: BOOLEAN,
                         next: Iccid \cup {None}, of: SUBSET Iccid]
<1>1. isdp' \in [Iccid -> Isdp]
  <2>1. isdp' = [isdp EXCEPT ![i].state = "ENABLED"] /\ isdp \in [Iccid -> Isdp]
    BY DEF Enabled, TypeOK
  <2> QED
    BY <2>1 DEF Isdp, ProfileState
<1>2. saving' = [i |-> i, open |-> FALSE, next |-> None, of |-> of]
  BY DEF Enabled, Saving
<1>3. saving' \in [i: Iccid \cup {None}, open: BOOLEAN,
                   next: Iccid \cup {None}, of: SUBSET Iccid]
  BY <1>2
<1> QED
  BY <1>1, <1>3 DEF Enabled

\* The state of every variable stays in its type; in particular the free
\* memory never becomes negative.
LEMMA TypeStep == TypeOK /\ [Next]_vars => TypeOK'
<1> SUFFICES ASSUME TypeOK, [Next]_vars PROVE TypeOK'
  OBVIOUS
<1> USE ProfilesAssumption DEF TypeOK, ProfileState, Isdp, New, Promise
<1>1. CASE initialize
  BY <1>1 DEF initialize, directory
<1>2. CASE terminate
  BY <1>2 DEF terminate, Unsure, Idle, Saving, memory, directory
<1>3. ASSUME NEW i \in Iccid, install_profile(i) PROVE TypeOK'
  BY <1>3 DEF install_profile, Saving, directory
<1>4. ASSUME NEW i \in Iccid, enable_profile(i) PROVE TypeOK'
  <2>1. CASE active \in installed
    <3>1. isdp' = [isdp EXCEPT ![active].state = "DISABLED"]
          /\ saving' = Saving(active, i, {active, i}) /\ active' = active
      BY <1>4, <2>1 DEF enable_profile
    <3>2. isdp' \in [Iccid -> Isdp]
      BY <3>1, <2>1
    <3> QED
      BY <1>4, <2>1, <3>1, <3>2 DEF enable_profile, Saving, directory
  <2>2. CASE active \notin installed
    <3>1. Enabled(i, {i})
      BY <1>4, <2>2 DEF enable_profile
    <3> QED
      BY <1>4, <3>1, EnabledType DEF enable_profile, directory
  <2> QED
    BY <2>1, <2>2
<1>5. ASSUME NEW i \in Iccid, disable_profile(i) PROVE TypeOK'
  BY <1>5 DEF disable_profile, Saving, directory
<1>6. ASSUME NEW i \in Iccid, delete_profile(i) PROVE TypeOK'
  BY <1>6 DEF delete_profile
<1>7. ASSUME NEW i \in Iccid, NEW s \in ProfileState, already(i, s)
      PROVE TypeOK'
  BY <1>7 DEF already, memory, directory
<1>8. ASSUME NEW n \in Challenges, authenticate(n) PROVE TypeOK'
  BY <1>8 DEF authenticate, directory
<1>9. CASE open_file
  BY <1>9 DEF open_file, memory
<1>10. CASE close_file
  <2>1. file' \in [Iccid -> Isdp] /\ stored' \subseteq Iccid
    BY <1>10 DEF close_file
  <2>2. CASE saving.next # None
    <3>1. Enabled(saving.next, saving.of) /\ acked' = acked
      BY <1>10, <2>2 DEF close_file
    <3>2. saving.next \in Iccid /\ saving.of \in SUBSET Iccid
      BY <2>2
    <3> QED
      BY <1>10, <2>1, <3>1, <3>2, EnabledType DEF close_file
  <2>3. CASE saving.next = None
    <3>1. Reply(saving.i)
      BY <1>10, <2>3 DEF close_file
    <3>2. acked' \in [Iccid -> Promise]
      BY <3>1 DEF Reply
    <3>3. saving' = Idle /\ isdp' = isdp /\ active' \in {None, active}
      BY <3>1 DEF Reply
    <3> QED
      BY <1>10, <2>1, <3>2, <3>3 DEF close_file, Idle, Saving
  <2> QED
    BY <2>2, <2>3
<1>11. CASE save_fails
  BY <1>11 DEF save_fails, Unsure, Idle, Saving, memory, directory
<1>12. CASE UNCHANGED vars
  BY <1>12 DEF vars, memory, directory
<1> QED
  BY <1>1, <1>2, <1>3, <1>4, <1>5, <1>6, <1>7, <1>8, <1>9, <1>10, <1>11,
     <1>12 DEF Next

-----------------------------------------------------------------------------
(* The inductive invariant. *)

LEMMA InitIInv == Init => IInv
<1> SUFFICES ASSUME Init PROVE IInv
  OBVIOUS
<1>1. TypeOK
  <2>1. New \in Isdp
    BY DEF New, Isdp, ProfileState
  <2>2. saving \in [i: Iccid \cup {None}, open: BOOLEAN,
                    next: Iccid \cup {None}, of: SUBSET Iccid]
    BY DEF Init, Idle, Saving
  <2> QED
    BY <2>1, <2>2, ProfilesAssumption DEF Init, TypeOK, Promise
<1>2. SavingOK
  BY DEF Init, SavingOK, Idle, Saving
<1>3. OneEnabled /\ DirectoryOK /\ SavedOK /\ ActiveOK
  BY DEF Init, OneEnabled, DirectoryOK, SavedOK, ActiveOK
<1>4. AcknowledgedSurvives
  BY DEF Init, AcknowledgedSurvives, ProfileState
<1> QED
  BY <1>1, <1>2, <1>3, <1>4 DEF IInv

\* A reply or a failure leaves no save behind; the other requests that save
\* do so with a profile that is installed.
LEMMA SavingStep == IInv /\ [Next]_vars => SavingOK'
<1> SUFFICES ASSUME IInv, [Next]_vars PROVE SavingOK'
  OBVIOUS
<1> USE ProfilesAssumption DEF IInv, SavingOK, Idle, Saving, Ready
<1>1. CASE initialize
  BY <1>1 DEF initialize, TypeOK
<1>2. CASE terminate
  BY <1>2 DEF terminate
<1>3. ASSUME NEW i \in Iccid, install_profile(i) PROVE SavingOK'
  BY <1>3 DEF install_profile
<1>4. ASSUME NEW i \in Iccid, enable_profile(i) PROVE SavingOK'
  <2>1. CASE active \in installed
    <3>1. /\ isdp' = [isdp EXCEPT ![active].state = "DISABLED"]
          /\ active' = active /\ installed' = installed /\ up' = up
          /\ saving' = [i |-> active, open |-> FALSE, next |-> i,
                         of |-> {active, i}]
      BY <1>4, <2>1 DEF enable_profile
    <3>2. isdp'[active].state = "DISABLED"
      BY <2>1, <3>1 DEF TypeOK, Isdp
    <3> QED
      BY <1>4, <2>1, <3>1, <3>2 DEF enable_profile, TypeOK
  <2>2. CASE active \notin installed
    BY <1>4, <2>2 DEF enable_profile, Enabled
  <2> QED
    BY <2>1, <2>2
<1>5. ASSUME NEW i \in Iccid, disable_profile(i) PROVE SavingOK'
  BY <1>5 DEF disable_profile
<1>6. ASSUME NEW i \in Iccid, delete_profile(i) PROVE SavingOK'
  BY <1>6 DEF delete_profile
<1>7. ASSUME NEW i \in Iccid, NEW s \in ProfileState, already(i, s)
      PROVE SavingOK'
  BY <1>7 DEF already, memory
<1>8. ASSUME NEW n \in Challenges, authenticate(n) PROVE SavingOK'
  BY <1>8 DEF authenticate
<1>9. CASE open_file
  BY <1>9 DEF open_file, memory, TypeOK
<1>10. CASE close_file
  <2>1. CASE saving.next # None
    BY <1>10, <2>1 DEF close_file, Enabled
  <2>2. CASE saving.next = None
    BY <1>10, <2>2 DEF close_file, Reply
  <2> QED
    BY <2>1, <2>2
<1>11. CASE save_fails
  BY <1>11 DEF save_fails
<1>12. CASE UNCHANGED vars
  BY <1>12 DEF vars, memory
<1> QED
  BY <1>1, <1>2, <1>3, <1>4, <1>5, <1>6, <1>7, <1>8, <1>9, <1>10, <1>11,
     <1>12 DEF Next

\* The enabled profile in memory: it is disabled before another one is enabled,
\* and a restart finds at most one.
LEMMA OneEnabledStep == IInv /\ [Next]_vars => OneEnabled'
<1> SUFFICES ASSUME IInv, [Next]_vars, up', NEW k \in installed',
                    isdp'[k].state = "ENABLED"
             PROVE  active' = k
  BY DEF OneEnabled
<1> USE DEF IInv, OneEnabled
<1> k \in Iccid
  BY TypeStep DEF TypeOK
<1>1. CASE initialize
  <2>1. k \in stored /\ file[k].state = "ENABLED"
    BY <1>1 DEF initialize
  <2>2. {i \in stored : file[i].state = "ENABLED"} = {k}
    BY <2>1 DEF DirectoryOK
  <2> QED
    BY <1>1, <2>2 DEF initialize
<1>2. CASE terminate
  BY <1>2 DEF terminate
<1>3. ASSUME NEW i \in Iccid, install_profile(i) PROVE active' = k
  BY <1>3 DEF install_profile, TypeOK, New, Ready
<1>4. ASSUME NEW i \in Iccid, enable_profile(i) PROVE active' = k
  <2>1. CASE active \in installed
    BY <1>4, <2>1 DEF enable_profile, TypeOK, Isdp, Ready
  <2>2. CASE active \notin installed
    BY <1>4, <2>2 DEF enable_profile, Enabled, TypeOK, Isdp, Ready
  <2> QED
    BY <2>1, <2>2
<1>5. ASSUME NEW i \in Iccid, disable_profile(i) PROVE active' = k
  BY <1>5 DEF disable_profile, TypeOK, Isdp, Ready
<1>6. ASSUME NEW i \in Iccid, delete_profile(i) PROVE active' = k
  BY <1>6 DEF delete_profile, Ready
<1>7. ASSUME NEW i \in Iccid, NEW s \in ProfileState, already(i, s)
      PROVE active' = k
  BY <1>7 DEF already, memory, Ready
<1>8. ASSUME NEW n \in Challenges, authenticate(n) PROVE active' = k
  BY <1>8 DEF authenticate, TypeOK, Isdp, Ready
<1>9. CASE open_file
  BY <1>9 DEF open_file, memory
<1>10. CASE close_file
  <2>1. CASE saving.next # None
    BY <1>10, <2>1 DEF close_file, Enabled, SavingOK, TypeOK, Isdp
  <2>2. CASE saving.next = None
    BY <1>10, <2>2 DEF close_file, Reply
  <2> QED
    BY <2>1, <2>2
<1>11. CASE save_fails
  BY <1>11 DEF save_fails, memory
<1>12. CASE UNCHANGED vars
  BY <1>12 DEF vars, memory
<1> QED
  BY <1>1, <1>2, <1>3, <1>4, <1>5, <1>6, <1>7, <1>8, <1>9, <1>10, <1>11,
     <1>12 DEF Next

\* A file that is being completed belongs to an installed profile; if it says
\* enabled the profile is the active one, and no other file says so.
LEMMA ClosedFile ==
  ASSUME IInv, close_file
  PROVE  /\ saving.i \in Iccid /\ saving.i \in installed /\ up
         /\ isdp[saving.i].state = "ENABLED" =>
              \A j \in stored : file[j].state = "ENABLED" => j = saving.i
  BY DEF IInv, close_file, SavingOK, TypeOK, OneEnabled, DirectoryOK

\* The enabled profile on disk.
LEMMA DirectoryStep == IInv /\ [Next]_vars => DirectoryOK'
<1> SUFFICES ASSUME IInv, [Next]_vars PROVE DirectoryOK'
  OBVIOUS
<1> USE DEF IInv, DirectoryOK
<1>1. CASE initialize
  <2> SUFFICES ASSUME NEW k \in stored, file[k].state = "ENABLED"
               PROVE  active' = k
    BY <1>1 DEF initialize, directory
  <2>1. {i \in stored : file[i].state = "ENABLED"} = {k}
    OBVIOUS
  <2> QED
    BY <1>1, <2>1 DEF initialize
<1>2. CASE terminate
  BY <1>2 DEF terminate, directory
<1>3. ASSUME NEW i \in Iccid, install_profile(i) PROVE DirectoryOK'
  BY <1>3 DEF install_profile, directory
<1>4. ASSUME NEW i \in Iccid, enable_profile(i) PROVE DirectoryOK'
  BY <1>4 DEF enable_profile, Enabled, directory, Ready
<1>5. ASSUME NEW i \in Iccid, disable_profile(i) PROVE DirectoryOK'
  BY <1>5 DEF disable_profile, directory
<1>6. ASSUME NEW i \in Iccid, delete_profile(i) PROVE DirectoryOK'
  BY <1>6 DEF delete_profile, Ready
<1>7. ASSUME NEW i \in Iccid, NEW s \in ProfileState, already(i, s)
      PROVE DirectoryOK'
  BY <1>7 DEF already, memory, directory
<1>8. ASSUME NEW n \in Challenges, authenticate(n) PROVE DirectoryOK'
  BY <1>8 DEF authenticate, directory
<1>9. CASE open_file
  BY <1>9 DEF open_file, memory
<1>10. CASE close_file
  <2> DEFINE k == saving.i
  <2>1. /\ stored' = stored \cup {k} /\ up' = up /\ installed' = installed
        /\ file'[k] = isdp[k] /\ \A j \in Iccid \ {k} : file'[j] = file[j]
    BY <1>10, ClosedFile DEF close_file, TypeOK
  <2>2. \A i, j \in stored' :
          file'[i].state = "ENABLED" /\ file'[j].state = "ENABLED" => i = j
    BY <1>10, <2>1, ClosedFile DEF TypeOK
  <2>3. ASSUME NEW i \in stored', file'[i].state = "ENABLED"
        PROVE  i \in installed /\ active' = i
    <3>1. CASE saving.next # None
      <4>1. active = k /\ isdp[k].state = "DISABLED"
        BY <3>1 DEF SavingOK
      <4> QED
        BY <1>10, <2>1, <2>3, <4>1, ClosedFile DEF TypeOK
    <3>2. CASE saving.next = None
      BY <1>10, <2>1, <2>3, <3>2, ClosedFile
      DEF close_file, Reply, TypeOK, OneEnabled
    <3> QED
      BY <3>1, <3>2
  <2> QED
    BY <2>1, <2>2, <2>3
<1>11. CASE save_fails
  BY <1>11 DEF save_fails, memory, directory
<1>12. CASE UNCHANGED vars
  BY <1>12 DEF vars, memory, directory
<1> QED
  BY <1>1, <1>2, <1>3, <1>4, <1>5, <1>6, <1>7, <1>8, <1>9, <1>10, <1>11,
     <1>12 DEF Next

\* Memory and directory: what differs has just been changed and is being
\* saved, or its save failed.
LEMMA SavedStep == IInv /\ [Next]_vars => SavedOK'
<1> SUFFICES ASSUME IInv, [Next]_vars PROVE SavedOK'
  OBVIOUS
<1> USE ProfilesAssumption DEF IInv, SavedOK, Idle, Saving, Ready
<1>1. CASE initialize
  BY <1>1 DEF initialize, directory, TypeOK
<1>2. CASE terminate
  BY <1>2 DEF terminate
<1>3. ASSUME NEW i \in Iccid, install_profile(i) PROVE SavedOK'
  BY <1>3 DEF install_profile, directory, TypeOK
<1>4. ASSUME NEW i \in Iccid, enable_profile(i) PROVE SavedOK'
  <2>1. CASE active \in installed
    BY <1>4, <2>1 DEF enable_profile, directory, TypeOK
  <2>2. CASE active \notin installed
    BY <1>4, <2>2 DEF enable_profile, Enabled, directory, TypeOK
  <2> QED
    BY <2>1, <2>2
<1>5. ASSUME NEW i \in Iccid, disable_profile(i) PROVE SavedOK'
  BY <1>5 DEF disable_profile, directory, TypeOK
<1>6. ASSUME NEW i \in Iccid, delete_profile(i) PROVE SavedOK'
  BY <1>6 DEF delete_profile, TypeOK
<1>7. ASSUME NEW i \in Iccid, NEW s \in ProfileState, already(i, s)
      PROVE SavedOK'
  BY <1>7 DEF already, memory, directory
<1>8. ASSUME NEW n \in Challenges, authenticate(n) PROVE SavedOK'
  BY <1>8 DEF authenticate, directory, TypeOK, Isdp
<1>9. CASE open_file
  BY <1>9 DEF open_file, memory, TypeOK
<1>10. CASE close_file
  <2>1. CASE saving.next # None
    BY <1>10, <2>1, ClosedFile DEF close_file, Enabled, TypeOK
  <2>2. CASE saving.next = None
    BY <1>10, <2>2, ClosedFile DEF close_file, Reply, TypeOK
  <2> QED
    BY <2>1, <2>2
<1>11. CASE save_fails
  BY <1>11 DEF save_fails, memory, directory, TypeOK
<1>12. CASE UNCHANGED vars
  BY <1>12 DEF vars, memory, directory
<1> QED
  BY <1>1, <1>2, <1>3, <1>4, <1>5, <1>6, <1>7, <1>8, <1>9, <1>10, <1>11,
     <1>12 DEF Next

\* The active profile: a disabled one is forgotten once that is saved.
LEMMA ActiveStep == IInv /\ [Next]_vars => ActiveOK'
<1> SUFFICES ASSUME IInv, [Next]_vars PROVE ActiveOK'
  OBVIOUS
<1> USE ProfilesAssumption DEF IInv, ActiveOK, Idle, Saving, Ready
<1>1. CASE initialize
  BY <1>1 DEF initialize, TypeOK
<1>2. CASE terminate
  BY <1>2 DEF terminate
<1>3. ASSUME NEW i \in Iccid, install_profile(i) PROVE ActiveOK'
  BY <1>3 DEF install_profile, TypeOK
<1>4. ASSUME NEW i \in Iccid, enable_profile(i) PROVE ActiveOK'
  <2>1. CASE active \in installed
    BY <1>4, <2>1 DEF enable_profile, TypeOK
  <2>2. CASE active \notin installed
    BY <1>4, <2>2 DEF enable_profile, Enabled, TypeOK
  <2> QED
    BY <2>1, <2>2
<1>5. ASSUME NEW i \in Iccid, disable_profile(i) PROVE ActiveOK'
  BY <1>5 DEF disable_profile, TypeOK
<1>6. ASSUME NEW i \in Iccid, delete_profile(i) PROVE ActiveOK'
  BY <1>6 DEF delete_profile, TypeOK
<1>7. ASSUME NEW i \in Iccid, NEW s \in ProfileState, already(i, s)
      PROVE ActiveOK'
  BY <1>7 DEF already, memory
<1>8. ASSUME NEW n \in Challenges, authenticate(n) PROVE ActiveOK'
  BY <1>8 DEF authenticate, TypeOK, Isdp
<1>9. CASE open_file
  BY <1>9 DEF open_file, memory, TypeOK
<1>10. CASE close_file
  <2>1. CASE saving.next # None
    BY <1>10, <2>1 DEF close_file, Enabled, TypeOK, Isdp, SavingOK
  <2>2. CASE saving.next = None
    BY <1>10, <2>2 DEF close_file, Reply, TypeOK
  <2> QED
    BY <2>1, <2>2
<1>11. CASE save_fails
  BY <1>11 DEF save_fails, memory, TypeOK
<1>12. CASE UNCHANGED vars
  BY <1>12 DEF vars, memory
<1> QED
  BY <1>1, <1>2, <1>3, <1>4, <1>5, <1>6, <1>7, <1>8, <1>9, <1>10, <1>11,
     <1>12 DEF Next

\* What replies promise: only profiles that no request is changing are promised
\* anything, and of those memory and directory agree.
LEMMA AcknowledgedStep == IInv /\ [Next]_vars => AcknowledgedSurvives'
<1> SUFFICES ASSUME IInv, [Next]_vars PROVE AcknowledgedSurvives'
  OBVIOUS
<1> USE ProfilesAssumption
    DEF IInv, AcknowledgedSurvives, ProfileState, Idle, Saving, Ready
<1>1. CASE initialize
  BY <1>1 DEF initialize, directory
<1>2. CASE terminate
  BY <1>2 DEF terminate, Unsure, directory
<1>3. ASSUME NEW i \in Iccid, install_profile(i) PROVE AcknowledgedSurvives'
  BY <1>3 DEF install_profile, directory
<1>4. ASSUME NEW i \in Iccid, enable_profile(i) PROVE AcknowledgedSurvives'
  <2>1. CASE active \in installed
    BY <1>4, <2>1 DEF enable_profile, directory
  <2>2. CASE active \notin installed
    BY <1>4, <2>2 DEF enable_profile, Enabled, directory
  <2> QED
    BY <2>1, <2>2
<1>5. ASSUME NEW i \in Iccid, disable_profile(i) PROVE AcknowledgedSurvives'
  BY <1>5 DEF disable_profile, directory
<1>6. ASSUME NEW i \in Iccid, delete_profile(i) PROVE AcknowledgedSurvives'
  BY <1>6 DEF delete_profile, TypeOK
<1>7. ASSUME NEW i \in Iccid, NEW s \in ProfileState, already(i, s)
      PROVE AcknowledgedSurvives'
  BY <1>7 DEF already, memory, directory, TypeOK, SavedOK
<1>8. ASSUME NEW n \in Challenges, authenticate(n) PROVE AcknowledgedSurvives'
  BY <1>8 DEF authenticate, directory
<1>9. CASE open_file
  BY <1>9 DEF open_file, memory, TypeOK, SavingOK
<1>10. CASE close_file
  <2> DEFINE k == saving.i
  <2>1. /\ stored' = stored \cup {k} /\ k \in saving.of /\ k \in Iccid
        /\ file'[k] = isdp[k] /\ \A j \in Iccid \ {k} : file'[j] = file[j]
        /\ unsaved' = unsaved \ {k}
    BY <1>10, ClosedFile DEF close_file, SavingOK, TypeOK
  <2>2. CASE saving.next # None
    BY <1>10, <2>1, <2>2 DEF close_file, Enabled
  <2>3. CASE saving.next = None
    <3> SUFFICES ASSUME NEW i \in Iccid \ unsaved'
                 PROVE  /\ acked'[i] = "absent" => i \notin stored'
                        /\ acked'[i] \in {"DISABLED", "ENABLED"} =>
                             i \in stored' /\ file'[i].state = acked'[i]
      OBVIOUS
    <3>1. acked'[i] = IF i \in saving.of THEN isdp[i].state ELSE acked[i]
      BY <1>10, <2>3 DEF close_file, Reply
    <3>2. CASE i \notin saving.of
      BY <2>1, <3>1, <3>2
    <3>3. CASE i = k
      BY <2>1, <3>1, <3>3 DEF TypeOK, Isdp
    <3>4. CASE i \in saving.of /\ i # k
      <4>1. i \in installed /\ i \notin unsaved /\ up
        BY <1>10, <2>1, <3>4, ClosedFile DEF SavingOK
      <4>2. i \in stored /\ file[i].state = isdp[i].state
        BY <3>4, <4>1 DEF SavedOK
      <4>3. isdp[i].state # "absent"
        BY DEF TypeOK, Isdp
      <4> QED
        BY <2>1, <3>1, <3>4, <4>2, <4>3
    <3> QED
      BY <3>2, <3>3, <3>4
  <2> QED
    BY <2>2, <2>3
<1>11. CASE save_fails
  BY <1>11 DEF save_fails, Unsure, memory, directory
<1>12. CASE UNCHANGED vars
  BY <1>12 DEF vars, directory
<1> QED
  BY <1>1, <1>2, <1>3, <1>4, <1>5, <1>6, <1>7, <1>8, <1>9, <1>10, <1>11,
     <1>12 DEF Next

\* All of it holds in every reachable state.
LEMMA Inductive == Spec => []IInv
<1>1. IInv /\ [Next]_vars => IInv'
  <2> SUFFICES ASSUME IInv, [Next]_vars PROVE IInv'
    OBVIOUS
  <2> QED
    BY TypeStep, SavingStep, OneEnabledStep, DirectoryStep, SavedStep, ActiveStep,
       AcknowledgedStep DEF IInv
<1> QED
  BY InitIInv, <1>1, PTL DEF Spec

-----------------------------------------------------------------------------
(* Theorems. *)

\* Every variable keeps its type; the free memory is never negative.
THEOREM TypeCorrect == Spec => []TypeOK
<1>1. IInv => TypeOK
  BY DEF IInv
<1> QED
  BY Inductive, <1>1, PTL

\* However saves fail and the daemon restarts, at most one profile is enabled
\* in memory, the one _active_iccid names.
THEOREM AtMostOneEnabled == Spec => []OneEnabled
<1>1. IInv => OneEnabled
  BY DEF IInv
<1> QED
  BY Inductive, <1>1, PTL

\* Between requests the profile used for authentication is the enabled one,
\* once failed saves have been made up for.
THEOREM ActiveProfile == Spec => []ActiveIsEnabled
<1>1. IInv => ActiveIsEnabled
  <2> SUFFICES ASSUME IInv, up, saving = Idle, unsaved = {}
               PROVE  \A i \in installed :
                        i = active <=> isdp[i].state = "ENABLED"
    BY DEF ActiveIsEnabled, Ready
  <2>1. saving.i = None
    BY DEF Idle, Saving
  <2> QED
    BY <2>1, ProfilesAssumption
    DEF IInv, TypeOK, OneEnabled, ActiveOK, Isdp, ProfileState
<1> QED
  BY Inductive, <1>1, PTL

\* What was acknowledged is what a restart finds.
THEOREM AcknowledgementsHold == Spec => []AcknowledgedSurvives
<1>1. IInv => AcknowledgedSurvives
  BY DEF IInv
<1> QED
  BY Inductive, <1>1, PTL

\* The profile directory implements ProfileSlot: a process killed at any step
\* leaves at most one enabled profile behind.
THEOREM DirectoryRefinesSlot == Spec => DirectoryIsSlot
<1> DEFINE s == [i \in Iccid |-> IF i \in stored THEN file[i].state
                                 ELSE "absent"]
<1>1. Init => Slot!Init
  BY DEF Init, Slot!Init
<1>2. IInv /\ [Next]_vars => [Slot!Next]_s
  <2> SUFFICES ASSUME IInv, [Next]_vars PROVE Slot!Next \/ s' = s
    OBVIOUS
  <2>1. CASE directory' = directory
    BY <2>1 DEF directory
  <2>2. ASSUME NEW i \in Iccid, stored' = stored \ {i}, file' = file
        PROVE  Slot!Next
    <3>1. s' = [s EXCEPT ![i] = "absent"]
      BY <2>2
    <3> QED
      BY <3>1 DEF Slot!Next, Slot!Erase
  <2>3. CASE close_file
    <3> DEFINE k == saving.i
    <3>1. /\ k \in Iccid /\ isdp[k].state \in {"DISABLED", "ENABLED"}
          /\ stored' = stored \cup {k} /\ file' = [file EXCEPT ![k] = isdp[k]]
      BY <2>3, ClosedFile DEF close_file, IInv, TypeOK, Isdp, ProfileState
    <3>2. s' = [s EXCEPT ![k] = isdp[k].state]
      BY <3>1 DEF IInv, TypeOK
    <3>3. isdp[k].state = "ENABLED" => \A j \in Iccid \ {k} : s[j] # "ENABLED"
      BY <2>3, ClosedFile
    <3> QED
      BY <3>1, <3>2, <3>3 DEF Slot!Next, Slot!Store
  <2>4. directory' = directory \/ close_file
        \/ \E i \in Iccid : stored' = stored \ {i} /\ file' = file
    BY DEF Next, vars, directory, initialize, terminate, install_profile,
           enable_profile, disable_profile, delete_profile, already,
           authenticate, open_file, save_fails, IInv, TypeOK
  <2> QED
    BY <2>1, <2>2, <2>3, <2>4
<1> QED
  BY Inductive, <1>1, <1>2, PTL DEF Spec, DirectoryIsSlot, Slot!Spec
=============================================================================
