------------------------- MODULE LaunchSessionProofs -------------------------
(***************************************************************************)
(* What holds of LaunchSession for any options, profiles and number of     *)
(* sessions. Inv says what the file holds while an agent runs; the three   *)
(* invariants of the MC run follow from it.                                *)
(***************************************************************************)
EXTENDS LaunchSession, TLAPS

\* While an agent runs, and no save of the session failed, the file holds the
\* options that run, or those of the session's start if the autosave kept them.
RunSaved == phase = "run" /\ ~lost => file = IF kept THEN base ELSE sel

\* Only a failed TUI run arms a recovery name.
CliUnarmed == phase = "cli" => ~autoArmedNew

Inv == /\ TypeOK
       /\ RunSaved
       /\ CliUnarmed
       /\ RecoveryClearedOnSuccess
       /\ LastRunRestored

LEMMA OptionsReplace ==
    ASSUME NEW o \in Options
    PROVE  /\ [o EXCEPT !.new = "off"] \in Options
           /\ [o EXCEPT !.new = "recovery"] \in Options
           /\ Normalized(o) \in Options
           /\ \A f \in Forces : [o EXCEPT !.force = f] \in Options
           /\ [o EXCEPT !.new = "off"].new = "off"
           /\ [o EXCEPT !.new = "off"].rest = o.rest
           /\ o.force \in Forces
  BY NormalIsNormal DEF Options, Normalized

LEMMA InitInv == Init => Inv
<1> SUFFICES ASSUME Init PROVE Inv
  OBVIOUS
<1>1. file \in Options /\ profiles \in [Names -> Options \cup {None}]
  BY DEF Init
<1>2. base \in Options /\ sel \in Options
  BY <1>1, OptionsReplace DEF Init
<1> QED
  BY <1>1, <1>2 DEF Init, Inv, TypeOK, RunSaved, CliUnarmed, RecoveryClearedOnSuccess,
                    LastRunRestored, Succeeded

LEMMA TypeStep == TypeOK /\ [Next]_vars => TypeOK'
<1> SUFFICES ASSUME TypeOK, [Next]_vars PROVE TypeOK'
  OBVIOUS
<1> USE DEF TypeOK, session, history, End
<1>1. CASE Begin
  BY <1>1, OptionsReplace DEF Begin
<1>2. ASSUME NEW o \in Options, CliSave(o) PROVE TypeOK'
  BY <1>2 DEF CliSave, Save
<1>3. ASSUME NEW o \in Options, CliRun(o) PROVE TypeOK'
  BY <1>3 DEF CliRun
<1>4. ASSUME NEW o \in Options, Edit(o) PROVE TypeOK'
  BY <1>4 DEF Edit
<1>5. ASSUME NEW n \in Names, LoadProfile(n) PROVE TypeOK'
  <2>1. sel' \in Options
    BY <1>5, OptionsReplace DEF LoadProfile
  <2> QED BY <1>5, <2>1 DEF LoadProfile
<1>6. ASSUME NEW n \in Names, SaveProfile(n) PROVE TypeOK'
  BY <1>6 DEF SaveProfile
<1>7. CASE SaveLocal
  BY <1>7 DEF SaveLocal, Save
<1>8. CASE Confirm
  BY <1>8 DEF Confirm, Save, KeepOptions
<1>9. CASE Quit
  BY <1>9 DEF Quit
<1>10. CASE LaunchCompose
  BY <1>10 DEF LaunchCompose
<1>11. CASE Succeed
  <2>1. sel' \in Options /\ file' \in Options /\ lost' \in BOOLEAN
    BY <1>11, OptionsReplace DEF Succeed, Save
  <2> QED BY <1>11, <2>1 DEF Succeed
<1>12. CASE Refuse
  BY <1>12 DEF Refuse
<1>13. CASE Fail
  <2>1. sel' \in Options /\ autoArmedNew' \in BOOLEAN
    BY <1>13, OptionsReplace DEF Fail
  <2> QED BY <1>13, <2>1 DEF Fail
<1>14. CASE Kill
  BY <1>14 DEF Kill
<1>15. CASE UNCHANGED vars
  BY <1>15 DEF vars
<1> QED BY <1>1, <1>2, <1>3, <1>4, <1>5, <1>6, <1>7, <1>8, <1>9, <1>10, <1>11,
           <1>12, <1>13, <1>14, <1>15 DEF Next

LEMMA InvStep == Inv /\ [Next]_vars => Inv'
<1> SUFFICES ASSUME Inv, [Next]_vars PROVE Inv'
  OBVIOUS
<1>0. TypeOK' /\ TypeOK
  BY TypeStep DEF Inv
<1> DEFINE Goal == (RunSaved /\ CliUnarmed
                    /\ RecoveryClearedOnSuccess /\ LastRunRestored)'
<1>a. RunSaved /\ CliUnarmed
      /\ RecoveryClearedOnSuccess /\ LastRunRestored
  BY DEF Inv
<1> SUFFICES Goal
  BY <1>0 DEF Inv
<1> USE DEF RunSaved, CliUnarmed, RecoveryClearedOnSuccess,
            LastRunRestored, Succeeded, session, history, End
<1>1. CASE Begin
  BY <1>1, <1>a DEF Begin
<1>2. ASSUME NEW o \in Options, CliSave(o) PROVE Goal
  BY <1>2, <1>a, <1>0 DEF CliSave, Save, TypeOK
<1>3. ASSUME NEW o \in Options, CliRun(o) PROVE Goal
  BY <1>3, <1>a DEF CliRun
<1>4. ASSUME NEW o \in Options, Edit(o) PROVE Goal
  BY <1>4, <1>a DEF Edit
<1>5. ASSUME NEW n \in Names, LoadProfile(n) PROVE Goal
  BY <1>5, <1>a DEF LoadProfile
<1>6. ASSUME NEW n \in Names, SaveProfile(n) PROVE Goal
  BY <1>6, <1>a DEF SaveProfile
<1>7. CASE SaveLocal
  BY <1>7, <1>a DEF SaveLocal, Save
<1>8. CASE Confirm
  BY <1>8, <1>a, <1>0 DEF Confirm, Save, TypeOK
<1>9. CASE Quit
  BY <1>9, <1>a DEF Quit
<1>10. CASE LaunchCompose
  BY <1>10, <1>a DEF LaunchCompose
<1>11. CASE Succeed
  <2>1. CASE autoArmedNew /\ sel.new # "off"
    <3>1. sel' = [sel EXCEPT !.new = "off"] /\ Save(sel')
      BY <1>11, <2>1 DEF Succeed
    <3>2. sel'.new = "off"
      BY <3>1, <1>0, OptionsReplace DEF TypeOK
    <3> QED BY <1>11, <2>1, <3>1, <3>2, <1>a, <1>0 DEF Succeed, Save, TypeOK
  <2>2. CASE ~(autoArmedNew /\ sel.new # "off")
    BY <1>11, <2>2, <1>a, <1>0 DEF Succeed, TypeOK
  <2> QED BY <2>1, <2>2
<1>12. CASE Refuse
  BY <1>12, <1>a DEF Refuse
<1>13. CASE Fail
  BY <1>13, <1>a DEF Fail
<1>14. CASE Kill
  BY <1>14, <1>a DEF Kill
<1>15. CASE UNCHANGED vars
  BY <1>15, <1>a DEF vars
<1> QED BY <1>1, <1>2, <1>3, <1>4, <1>5, <1>6, <1>7, <1>8, <1>9, <1>10, <1>11,
           <1>12, <1>13, <1>14, <1>15 DEF Next

\* The inductive invariant of every session.
THEOREM Inductive == Spec => []Inv
<1> QED BY InitInv, InvStep, PTL DEF Spec

\* Every variable of a session stays in its type.
THEOREM TypeCorrect == Spec => []TypeOK
<1>1. Inv => TypeOK
  BY DEF Inv
<1> QED BY <1>1, Inductive, PTL

\* A session that armed a recovery name and whose plain launch then succeeds
\* leaves no recovery name in the file.
THEOREM RecoveryIsOneShot == Spec => []RecoveryClearedOnSuccess
<1>1. Inv => RecoveryClearedOnSuccess
  BY DEF Inv
<1> QED BY <1>1, Inductive, PTL

\* After a successful session the file holds the selection that ran last.
THEOREM AutosaveRestores == Spec => []LastRunRestored
<1>1. Inv => LastRunRestored
  BY DEF Inv
<1> QED BY <1>1, Inductive, PTL
=============================================================================
