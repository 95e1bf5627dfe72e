---------------------------- MODULE ConfigSyncProofs ---------------------------
(***************************************************************************)
(* Proofs about ConfigSync, for every set of settings and values.  As long *)
(* as nobody else writes the file, every event that is still on its way is *)
(* the event of a save and finds the guard up, so no reload is ever due.   *)
(***************************************************************************)
EXTENDS ConfigSync, TLAPS

Undisturbed ==
    ~foreign =>
        /\ app = chosen
        /\ file \in Settings
        /\ events = 0
        /\ ownEvents > 0 => guard
        /\ ~reloadDue

IInv == TypeOK /\ Undisturbed

\* A settings object is what an editor may write, and no marker of a missing file.
LEMMA SettingsAreWritten ==
    /\ Settings \subseteq Written
    /\ \A c \in Settings : c \notin {Missing, Broken}
    /\ Default \in Settings
BY SyncAssumption DEF SyncAssumption, Settings, Written

\* normalize() makes any settings object a valid one.
LEMMA NormalizeRepairs ==
    ASSUME NEW c \in Written
    PROVE  Normalize(c) \in Settings
BY SyncAssumption DEF SyncAssumption, Normalize, Settings, Written

\* What is loaded is valid, and a file of the application is left alone.
LEMMA LoadFacts ==
    ASSUME TypeOK
    PROVE  /\ Loaded \in Settings
           /\ LoadLeaves \subseteq Written \cup {Missing, Broken}
           /\ file \in Settings => LoadLeaves = {file}
<1>1. Loaded \in Settings
  BY NormalizeRepairs, SettingsAreWritten DEF Loaded, TypeOK
<1>2. LoadLeaves \in {{Missing, Default}, {Missing, Broken}, {file}}
  BY DEF LoadLeaves
<1>3. file \in Settings => LoadLeaves = {file}
  BY SettingsAreWritten DEF LoadLeaves
<1> QED
  BY <1>1, <1>2, <1>3, SettingsAreWritten DEF TypeOK

\* No settings window is saving.
LEMMA NoRunTyped == NoRun \in [saving : BOOLEAN, config : Settings]
BY SettingsAreWritten DEF NoRun

\* The application starts with what load() gave it and nothing to settle.
LEMMA InitIInv == Init => IInv
<1> SUFFICES ASSUME Init PROVE IInv
  OBVIOUS
<1>1. TypeOK
  <2>1. app \in Settings /\ own \in Settings /\ chosen \in Settings /\ file \in Settings
    BY DEF Init
  <2>2. file \in Written \cup {Missing, Broken}
    BY <2>1, SettingsAreWritten
  <2>3. cli \in [saving : BOOLEAN, config : Settings] /\ changes \in 0..MaxChanges
    BY NoRunTyped, SyncAssumption DEF Init, SyncAssumption
  <2> QED
    BY <2>1, <2>2, <2>3 DEF Init, TypeOK
<1>2. Undisturbed
  BY DEF Init, Undisturbed
<1> QED
  BY <1>1, <1>2 DEF IInv

\* The settings the history works with are valid ones.
LEMMA StoreTyped == TypeOK => StoreConfig \in Settings
BY DEF TypeOK, StoreConfig

\* The bound on the edits is respected by every edit.
LEMMA CountedChange == TypeOK /\ Change => changes' \in 0..MaxChanges
BY SyncAssumption DEF TypeOK, Change, SyncAssumption

\* Every write adds one event or none; a load that leaves the file alone adds none.
LEMMA EventsCounted ==
    ASSUME NEW n \in Nat, NEW left
    PROVE  Replaced(n) \subseteq Nat /\ Reported(left, n) \subseteq Nat /\ Reported(file, n) = {n}
BY DEF Replaced, Reported

\* A save keeps the types of what it writes, and puts the guard up before its event.
LEMMA Saved ==
    ASSUME TypeOK, NEW c \in Settings, Save(c)
    PROVE  /\ guard'
           /\ file' \in Written \cup {Missing, Broken}
           /\ file \in Settings => file' \in Settings
           /\ guard' \in BOOLEAN /\ saveFailed' \in BOOLEAN /\ ownEvents' \in Nat
BY SettingsAreWritten, EventsCounted DEF Save, TypeOK

\* Every edit, save, file event and reload preserves the invariant.
LEMMA StepIInv == IInv /\ [Next]_vars => IInv'
<1> SUFFICES ASSUME IInv, [Next]_vars PROVE IInv'
  OBVIOUS
<1>0. TypeOK /\ Undisturbed
  BY DEF IInv
<1>1. ASSUME NEW n \in Names, NEW v \in Values, SetLater(n, v) PROVE IInv'
  <2>1. app' \in Settings /\ chosen' = app'
    BY <1>0, <1>1 DEF SetLater, TypeOK, Settings
  <2> QED
    BY <1>0, <1>1, <2>1, SyncAssumption
       DEF IInv, TypeOK, Undisturbed, SetLater, Change, storeVars, saveVars, eventVars, SyncAssumption
<1>2. CASE SaveTimer
  <2>1. Save(app) /\ app \in Settings
    BY <1>0, <1>2 DEF SaveTimer, TypeOK
  <2> QED
    BY <1>0, <1>2, <2>1, Saved DEF IInv, TypeOK, Undisturbed, SaveTimer, storeVars
<1>3. ASSUME NEW n \in Names, NEW v \in Values, SetNow(n, v) PROVE IInv'
  <2>1. app' \in Settings /\ chosen' = app' /\ Save(app')
    BY <1>0, <1>3 DEF SetNow, TypeOK, Settings
  <2>2. guard' /\ file' \in Written \cup {Missing, Broken} /\ ownEvents' \in Nat
        /\ guard' \in BOOLEAN /\ saveFailed' \in BOOLEAN
    BY <1>0, <2>1, Saved
  <2>3. TypeOK'
    BY <1>0, <1>3, <2>1, <2>2, CountedChange DEF TypeOK, SetNow, storeVars
  <2>4. Undisturbed'
    BY <1>0, <1>3, <2>1, Saved DEF Undisturbed, SetNow
  <2> QED
    BY <2>3, <2>4 DEF IInv
<1>4. CASE Reset
  <2>1. Default \in Settings /\ Save(Default)
    BY <1>4, SettingsAreWritten DEF Reset
  <2>2. guard' /\ file' \in Written \cup {Missing, Broken} /\ ownEvents' \in Nat
        /\ guard' \in BOOLEAN /\ saveFailed' \in BOOLEAN
    BY <1>0, <2>1, Saved
  <2>3. TypeOK'
    BY <1>0, <1>4, <2>1, <2>2, StoreTyped, CountedChange DEF TypeOK, Reset
  <2>4. Undisturbed'
    BY <1>0, <1>4, <2>1, Saved DEF Undisturbed, Reset
  <2> QED
    BY <2>3, <2>4 DEF IInv
<1>5. CASE OwnEvent
  BY <1>0, <1>5 DEF IInv, TypeOK, Undisturbed, OwnEvent, Notice, storeVars, saveVars
<1>6. CASE Event
  BY <1>0, <1>6 DEF IInv, TypeOK, Undisturbed, Event, Notice, storeVars, saveVars
<1>7. CASE Reload
  <2>1. foreign /\ foreign'
    BY <1>0, <1>7 DEF Undisturbed, Reload
  <2>2. Loaded \in Settings /\ file' \in Written \cup {Missing, Broken}
    BY <1>0, <1>7, LoadFacts DEF Reload
  <2>3. ownEvents' \in Nat
    BY <1>0, <1>7, EventsCounted DEF TypeOK, Reload
  <2>4. TypeOK'
    BY <1>0, <1>7, <2>2, <2>3 DEF TypeOK, Reload, saveVars
  <2> QED
    BY <2>1, <2>4 DEF IInv, Undisturbed
<1>8. CASE GuardEnds
  <2>1. TypeOK'
    BY <1>0, <1>8 DEF TypeOK, GuardEnds, storeVars, eventVars
  <2>2. Undisturbed'
    BY <1>0, <1>8 DEF Undisturbed, GuardEnds, eventVars
  <2> QED
    BY <2>1, <2>2 DEF IInv
<1>9. ASSUME NEW c \in Written \cup {Missing, Broken}, NEW inPlace \in BOOLEAN, Edit(c, inPlace)
      PROVE  IInv'
  <2>1. events' \in Nat /\ foreign' = TRUE
    BY <1>0, <1>9 DEF TypeOK, Edit, Replaced
  <2>2. TypeOK'
    BY <1>0, <1>9, <2>1, CountedChange DEF TypeOK, Edit, storeVars, saveVars
  <2> QED
    BY <2>1, <2>2 DEF IInv, Undisturbed
<1>10. CASE CliLoad
  <2>1. ~foreign' => ~foreign /\ file' = file /\ events' = events
    BY <1>0, <1>10, EventsCounted DEF CliLoad, TypeOK
  <2>2. events' \in Nat
    BY <1>0, <1>10, EventsCounted DEF CliLoad, TypeOK
  <2>3. TypeOK'
    BY <1>0, <1>10, <2>2, LoadFacts, CountedChange DEF TypeOK, CliLoad, storeVars, saveVars
  <2> QED
    BY <1>0, <1>10, <2>1, <2>3 DEF IInv, Undisturbed, CliLoad, storeVars, saveVars
<1>11. ASSUME NEW v \in Values, CliSave(v) PROVE IInv'
  <2>1. [cli.config EXCEPT ![Shortcut] = v] \in Settings
    BY <1>0 DEF TypeOK, Settings
  <2>2. events' \in Nat /\ foreign' = TRUE
    BY <1>0, <1>11 DEF TypeOK, CliSave, Replaced
  <2>3. TypeOK'
    BY <1>0, <1>11, <2>1, <2>2, NoRunTyped, SettingsAreWritten
       DEF TypeOK, CliSave, storeVars, saveVars
  <2> QED
    BY <2>2, <2>3 DEF IInv, Undisturbed
<1>12. CASE UNCHANGED vars
  BY <1>0, <1>12 DEF IInv, TypeOK, Undisturbed, vars
<1> QED
  BY <1>1, <1>2, <1>3, <1>4, <1>5, <1>6, <1>7, <1>8, <1>9, <1>10, <1>11, <1>12
     DEF Next, Window, Others

\* The inductive invariant holds in every reachable state.
LEMMA Invariance == Spec => []IInv
<1>1. Init => IInv
  BY InitIInv
<1>2. IInv /\ [Next]_vars => IInv'
  BY StepIInv
<1> QED
  BY <1>1, <1>2, PTL DEF Spec

\* The settings objects of a running application only ever hold valid values, whatever an
\* editor writes into config.json.
THEOREM TypeCorrect == Spec => []TypeOK
BY Invariance, PTL DEF IInv

\* While the application is the only writer, no change made in the settings window is
\* undone by a reload, however late the events of its own saves arrive.
THEOREM OwnSavesUndoNothing == Spec => []ChoicesStay
<1>1. IInv => ChoicesStay
  BY DEF IInv, Undisturbed, ChoicesStay
<1> QED
  BY <1>1, Invariance, PTL
================================================================================
