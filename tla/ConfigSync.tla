------------------------------ MODULE ConfigSync -------------------------------
(***************************************************************************)
(* config.py, app.py and ui/settings.py: the settings live in the objects  *)
(* of a running application (the application's and the history store's)    *)
(* and in config.json, which the application saves, watches and reloads,   *)
(* and which an editor and "ubuntu-clipboard --binding" write too.         *)
(* Handlers of the application run one at a time on the main thread; the   *)
(* other writers act between any two of them.  A save replaces the file    *)
(* at once (os.replace); the file monitor reports that later, as a move of *)
(* the temporary file, which the handler passes over, or, by another       *)
(* backend of the monitor, as a change of config.json.                     *)
(***************************************************************************)
EXTENDS Naturals

CONSTANTS
    Names,       \* names of settings
    Values,      \* valid values
    Invalid,     \* a value normalize() repairs
    Default,     \* Default[n]: the default of each setting
    Shortcut,    \* the setting --binding writes
    Missing,     \* config.json does not exist
    Broken,      \* config.json is not a JSON object
    MaxChanges   \* bound: changes made by the user, an editor or the command line

SyncAssumption ==
    /\ Invalid \notin Values
    /\ Default \in [Names -> Values]
    /\ Shortcut \in Names
    /\ {Missing, Broken} \cap [Names -> Values \cup {Invalid}] = {}
    /\ MaxChanges \in Nat

ASSUME SyncAssumption

Settings == [Names -> Values]
Written == [Names -> Values \cup {Invalid}]  \* what an editor may write

VARIABLES
    file,       \* config.json
    app,        \* application.config
    own,        \* the store's settings, while it has an object of its own
    shared,     \* the store uses the application's object
    saveDue,    \* a change in the settings window waits for SAVE_DELAY_MS
    guard,      \* time.monotonic() < _save_guard_until
    saveFailed, \* the last save of the application raised an OSError
    reloadDue,  \* _reload_pending: reload_later waits
    ownEvents,  \* events for config.json of the application's writes, not delivered yet
    events,     \* events of the writes of others
    cli,        \* a command line run: what it loaded, and whether it will save
    chosen,     \* what the settings would be if only the user had changed them
    foreign,    \* somebody other than the application has written the file
    changes     \* bound: changes so far

vars == <<file, app, own, shared, saveDue, guard, saveFailed, reloadDue, ownEvents, events,
          cli, chosen, foreign, changes>>

storeVars == <<own, shared>>
saveVars == <<guard, saveFailed>>
eventVars == <<ownEvents, events>>

NoRun == [saving |-> FALSE, config |-> Default]

\* get_config() and the store built around it
Init ==
    /\ app \in Settings
    /\ file = app
    /\ own = app
    /\ shared = TRUE
    /\ saveDue = FALSE
    /\ guard = FALSE
    /\ saveFailed = FALSE
    /\ reloadDue = FALSE
    /\ ownEvents = 0
    /\ events = 0
    /\ cli = NoRun
    /\ chosen = app
    /\ foreign = FALSE
    /\ changes = 0

Change == changes < MaxChanges /\ changes' = changes + 1

\* what capture and prune go by
StoreConfig == IF shared THEN app ELSE own

--------------------------------------------------------------------------------
(* Config.load and Config.save *)

\* an invalid value becomes the default
Normalize(c) == [n \in Names |-> IF c[n] \in Values THEN c[n] ELSE Default[n]]

Loaded == IF file \in {Missing, Broken} THEN Default ELSE Normalize(file)

\* a missing file is created, a broken one is moved away, and either may fail
LoadLeaves == CASE file = Missing -> {Missing, Default}
                [] file = Broken -> {Missing, Broken}
                [] OTHER -> {file}

\* the events, n of them so far, after os.replace of the file: the handler compares the first
\* name of an event only, and a move has the temporary file's there
Replaced(n) == {n, n + 1}

\* and after a load that left the file like this; moved away, it is named first
Reported(left, n) == CASE left = file -> {n}
                       [] left = Missing /\ file # Missing -> {n + 1}
                       [] OTHER -> Replaced(n)

\* save_config without the guard
Save_Unguarded(config) ==
    /\ UNCHANGED guard
    /\ \/ file' = config /\ ownEvents' \in Replaced(ownEvents) /\ saveFailed' = FALSE
       \/ saveFailed' = TRUE /\ UNCHANGED <<file, ownEvents>>

\* save_config: the guard first, then the file, or an OSError that is logged
Save(config) ==
    /\ guard' = TRUE
    /\ \/ file' = config /\ ownEvents' \in Replaced(ownEvents) /\ saveFailed' = FALSE
       \/ saveFailed' = TRUE /\ UNCHANGED <<file, ownEvents>>

--------------------------------------------------------------------------------
(* The settings window *)

\* a spin button or a switch: the object changes now, the file later
SetLater(n, v) ==
    /\ Change
    /\ app' = [app EXCEPT ![n] = v]
    /\ chosen' = app'
    /\ saveDue' = TRUE
    /\ UNCHANGED <<file, storeVars, saveVars, reloadDue, eventVars, cli, foreign>>

SaveTimer ==
    /\ saveDue
    /\ saveDue' = FALSE
    /\ Save(app)
    /\ UNCHANGED <<app, storeVars, reloadDue, events, cli, chosen, foreign, changes>>

\* a drop-down saves at once, in place of a timer that waits
SetNow(n, v) ==
    /\ Change
    /\ app' = [app EXCEPT ![n] = v]
    /\ chosen' = app'
    /\ saveDue' = FALSE
    /\ Save(app')
    /\ UNCHANGED <<storeVars, reloadDue, events, cli, foreign>>

\* a new object, which the store is not told of; a timer that waits stays
Reset ==
    /\ Change
    /\ app' = Default
    /\ chosen' = Default
    /\ own' = StoreConfig
    /\ shared' = FALSE
    /\ Save(Default)
    /\ UNCHANGED <<saveDue, reloadDue, events, cli, foreign>>

--------------------------------------------------------------------------------
(* The file monitor *)

\* _on_config_file_changed for config.json: ignored while guarded or while a reload waits
Notice ==
    /\ reloadDue' = (reloadDue \/ ~guard)
    /\ UNCHANGED <<file, app, storeVars, saveDue, saveVars, cli, chosen, foreign, changes>>

OwnEvent == ownEvents > 0 /\ ownEvents' = ownEvents - 1 /\ UNCHANGED events /\ Notice

\* a monitor of the file itself, which does not see it being replaced
Event_Unseen ==
    /\ events > 0
    /\ events' = events - 1
    /\ UNCHANGED <<file, app, storeVars, saveDue, saveVars, reloadDue, ownEvents, cli, chosen,
                   foreign, changes>>

Event == events > 0 /\ events' = events - 1 /\ UNCHANGED ownEvents /\ Notice

\* a reload that writes the repaired settings back, as save() would
Reload_WritesBack ==
    /\ reloadDue
    /\ reloadDue' = FALSE
    /\ app' = Loaded
    /\ shared' = TRUE
    /\ file' = Loaded
    /\ ownEvents' \in Replaced(ownEvents)
    /\ UNCHANGED <<own, saveDue, saveVars, events, cli, chosen, foreign, changes>>

\* reload_later: the file as it is now, in a new object for application and store
Reload ==
    /\ reloadDue
    /\ reloadDue' = FALSE
    /\ app' = Loaded
    /\ shared' = TRUE
    /\ file' \in LoadLeaves
    /\ ownEvents' \in Reported(file', ownEvents)
    /\ UNCHANGED <<own, saveDue, saveVars, events, cli, chosen, foreign, changes>>

\* 1.5 seconds have passed; by then the monitor has delivered the event of the save
GuardEnds ==
    /\ guard
    /\ ownEvents = 0
    /\ guard' = FALSE
    /\ UNCHANGED <<file, app, storeVars, saveDue, saveFailed, reloadDue, eventVars, cli, chosen,
                   foreign, changes>>

--------------------------------------------------------------------------------
(* Other writers *)

\* a person who deletes the file or an editor that writes into it, or an editor that replaces it
Edit(c, inPlace) ==
    /\ Change
    /\ file' = c
    /\ events' \in IF inPlace THEN {events + 1} ELSE Replaced(events)
    /\ foreign' = TRUE
    /\ UNCHANGED <<app, storeVars, saveDue, saveVars, reloadDue, ownEvents, cli, chosen>>

\* ubuntu-clipboard --binding: loads the settings, changes one, saves them all
CliLoad ==
    /\ ~cli.saving
    /\ Change
    /\ cli' = [saving |-> TRUE, config |-> Loaded]
    /\ file' \in LoadLeaves
    /\ events' \in Reported(file', events)
    /\ foreign' = (foreign \/ file' # file)
    /\ UNCHANGED <<app, storeVars, saveDue, saveVars, reloadDue, ownEvents, chosen>>

CliSave(v) ==
    /\ cli.saving
    /\ cli' = NoRun
    /\ file' = [cli.config EXCEPT ![Shortcut] = v]
    /\ events' \in Replaced(events)
    /\ foreign' = TRUE
    /\ UNCHANGED <<app, storeVars, saveDue, saveVars, reloadDue, ownEvents, chosen, changes>>

Window == Reset \/ \E n \in Names, v \in Values : SetLater(n, v) \/ SetNow(n, v)

Others ==
    \/ \E c \in Written \cup {Missing, Broken} : Edit(c, TRUE)
    \/ \E c \in Written \cup {Broken} : Edit(c, FALSE)
    \/ CliLoad
    \/ \E v \in Values : CliSave(v)

Next ==
    \/ Window \/ Others
    \/ SaveTimer \/ OwnEvent \/ Event \/ Reload \/ GuardEnds

Spec == Init /\ [][Next]_vars

\* The main loop delivers events and dispatches the timers that are due.
FairSpec ==
    Spec /\ WF_vars(SaveTimer) /\ WF_vars(OwnEvent) /\ WF_vars(Event) /\ WF_vars(Reload)

--------------------------------------------------------------------------------
TypeOK ==
    /\ file \in Written \cup {Missing, Broken}
    /\ app \in Settings
    /\ own \in Settings
    /\ shared \in BOOLEAN
    /\ saveDue \in BOOLEAN
    /\ guard \in BOOLEAN /\ saveFailed \in BOOLEAN
    /\ reloadDue \in BOOLEAN
    /\ ownEvents \in Nat
    /\ events \in Nat
    /\ cli \in [saving : BOOLEAN, config : Settings]
    /\ chosen \in Settings
    /\ foreign \in BOOLEAN
    /\ changes \in 0..MaxChanges

\* What the user sets in the settings window stays set while nobody else writes the
\* file: the application never takes the event of its own save for somebody's edit and
\* reloads over a change that is not saved yet (_save_guard_until).
ChoicesStay == ~foreign => app = chosen

\* A change of config.json that the monitor reports under that name while no save is fresh
\* (the guard) is taken over, repaired where it is invalid, or a later save from the settings
\* window replaces it: application and file agree again, whatever waits, fires and is written
\* meanwhile.  Not so if that save fails, for it puts the guard up all the same, or if the file
\* goes away.
EditArrives ==
    (events > 0 /\ ~guard /\ file \in Written)
        ~> (app = Loaded \/ saveFailed \/ file \notin Written)

\* Reloading does not feed on itself: when nobody changes anything any more, the events
\* and reloads come to an end, although loading writes a missing file and moves a
\* broken one away, and both are noticed.
Settles == <>[](ownEvents = 0 /\ events = 0 /\ ~reloadDue)
================================================================================
