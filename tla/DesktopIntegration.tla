--------------------------- MODULE DesktopIntegration ---------------------------
(***************************************************************************)
(* install.py, the command line in front of it and the part of shortcut.py *)
(* that brings GNOME's shortcut daemon (gsd-media-keys) up to date.  One   *)
(* command at a time puts files in place, registers the shortcut and makes *)
(* the daemon load it, or takes it all away again; each step may fail and  *)
(* the command may be killed between two of them, while the daemon dies,   *)
(* comes back, and the user logs in again or changes "start at login".     *)
(*                                                                         *)
(* Registering is one step here, ShortcutRegistry has its calls.           *)
(***************************************************************************)
EXTENDS Integers, CommandLine

CONSTANT WaitAttempts  \* how often _wait_for_media_keys looks

ASSUME DesktopAssumption == WaitAttempts \in Nat \ {0}

VARIABLES
    there,      \* icon, entry, autostart, v1 (entries of version 1): the files on the disk
    autoStart,  \* Config.auto_start
    listed,     \* our shortcut is in GNOME's list
    alive,      \* gsd-media-keys runs
    knows,      \* it answers to our shortcut as it is registered now
    waking,     \* D-Bus or we have started it, it is not up yet
    job,        \* the command that runs
    outcome     \* how the last command ended

vars == <<there, autoStart, listed, alive, knows, waking, job, outcome>>

\* todo: the steps it has left; clean: nothing has failed and nobody has interfered;
\* misjudged: it took a daemon that runs for a dead one; tries: of the wait
Idle == [command |-> "none", todo |-> {}, clean |-> TRUE, misjudged |-> FALSE, tries |-> 0]
NoOutcome == [command |-> "none", clean |-> FALSE, misjudged |-> FALSE, reload |-> "none"]

Init ==
    /\ there \in {{}, {"v1"}}
    /\ autoStart \in BOOLEAN
    /\ listed = FALSE /\ alive = TRUE /\ knows = FALSE /\ waking = FALSE
    /\ job = Idle /\ outcome = NoOutcome

\* In which order a command takes the steps it has, whichever command it is; no_f removes f
StepNumber ==
    [no_shortcut |-> 1, no_autostart |-> 2, no_entry |-> 3, no_icon |-> 4,
     icon |-> 5, entry |-> 6, autostart |-> 7, no_v1 |-> 8, purge |-> 9,
     shortcut |-> 10, reload |-> 11, restart |-> 12, drop |-> 13, full |-> 14,
     wake |-> 15, wait |-> 16, spawn |-> 17, wait_again |-> 18]

Doing(step) ==
    step \in job.todo /\ \A other \in job.todo : StepNumber[step] <= StepNumber[other]

\* the command goes on with these steps; fine: the step it was at did what it should
Then(todo, fine) == job' = [job EXCEPT !.todo = todo, !.clean = @ /\ fine, !.tries = 0]
Past(step, fine) == Then(job.todo \ {step}, fine)

\* the command returns
End(reload, fine) ==
    /\ job' = Idle
    /\ outcome' = [command |-> job.command, clean |-> job.clean /\ fine,
                   misjudged |-> job.misjudged, reload |-> reload]

--------------------------------------------------------------------------------
(* Starting a command *)

\* what an earlier installation left behind is left where it is
InstallSteps_KeepsV1 ==
    {"icon", "entry", "shortcut"} \cup (IF autoStart THEN {"autostart"} ELSE {})

InstallSteps ==
    {"icon", "entry", "no_v1", "shortcut"} \cup (IF autoStart THEN {"autostart"} ELSE {})

UninstallSteps(args) ==
    {"no_shortcut", "no_autostart", "no_entry", "no_icon", "no_v1"}
    \cup (IF "purge" \in args THEN {"purge"} ELSE {})

Steps(command, args) ==
    CASE command = "install" -> InstallSteps
      [] command = "uninstall" -> UninstallSteps(args)
      [] command = "install_shortcut" -> {"shortcut"}
      [] command = "remove_shortcut" -> {"no_shortcut"}

\* the invocations that get past validate_args and end in one of these commands; bound: two options
Invocations ==
    {args \in {{first, second} : first, second \in Options} :
        Accepted(args) /\ Chosen(args) \in ACTION_GROUPS.integration \ {"setup_paste"}}

Invoke ==
    /\ job = Idle
    /\ \E args \in Invocations :
          job' = [command |-> Chosen(args), todo |-> Steps(Chosen(args), args),
                  clean |-> TRUE, misjudged |-> FALSE, tries |-> 0]
    /\ outcome' = NoOutcome
    /\ UNCHANGED <<there, autoStart, listed, alive, knows, waking>>

--------------------------------------------------------------------------------
(* Files *)

\* install_icon, install_desktop_entry, enable_autostart; an error ends the command
Put(f) ==
    /\ Doing(f)
    /\ \/ there' = there \cup {f} /\ Past(f, TRUE) /\ UNCHANGED outcome
       \/ f = "icon" /\ Past(f, FALSE) /\ UNCHANGED <<there, outcome>>
       \/ there' \in {there, there \cup {f}} /\ End("none", FALSE)
    /\ UNCHANGED <<autoStart, listed, alive, knows, waking>>

\* disable_autostart, remove_legacy_files and the unlinks of uninstall_all: errors are passed over
Drop(step, f) ==
    /\ Doing(step)
    /\ \/ there' = there \ {f} /\ Past(step, TRUE)
       \/ f \in there /\ UNCHANGED there /\ Past(step, FALSE)
    /\ UNCHANGED <<autoStart, listed, alive, knows, waking, outcome>>

Removals ==
    {[step |-> "no_icon", file |-> "icon"], [step |-> "no_entry", file |-> "entry"],
     [step |-> "no_autostart", file |-> "autostart"], [step |-> "no_v1", file |-> "v1"]}

\* uninstall --purge: without a configuration "start at login" is on; HistoryFiles has the history
PurgeConfig ==
    /\ Doing("purge")
    /\ \/ autoStart' = TRUE /\ Past("purge", TRUE)
       \/ UNCHANGED autoStart /\ Past("purge", FALSE)
    /\ UNCHANGED <<there, listed, alive, knows, waking, outcome>>

--------------------------------------------------------------------------------
(* The shortcut and the daemon that answers to it *)

\* install() of shortcut.py: the daemon listens to the list alone, so the keys of a slot that is
\* listed already may change behind its back.  Refused: an error is reported, the call may have
\* been late; without gsettings nothing happens at all.
Register ==
    /\ Doing("shortcut")
    /\ \/ /\ listed' = TRUE
          /\ knows' \in IF listed THEN {knows, FALSE} ELSE {alive}
          /\ Then({"reload"}, TRUE)
          /\ UNCHANGED outcome
       \/ /\ \/ listed' = TRUE /\ knows' \in {knows, FALSE}
             \/ UNCHANGED <<listed, knows>>
          /\ End("none", FALSE)
    /\ UNCHANGED <<there, autoStart, alive, waking>>

\* uninstall() of shortcut.py
Unregister ==
    /\ Doing("no_shortcut")
    /\ \/ listed' = FALSE /\ knows' = FALSE /\ Past("no_shortcut", TRUE)
       \/ listed /\ UNCHANGED <<listed, knows>> /\ Past("no_shortcut", FALSE)
    /\ UNCHANGED <<there, autoStart, alive, waking, outcome>>

\* refresh_media_keys: a pgrep that fails counts as a dead daemon
Reload ==
    /\ Doing("reload")
    /\ \/ alive /\ Then({"restart"}, TRUE)
       \/ job' = [job EXCEPT !.todo = {"wake"}, !.clean = @ /\ ~alive, !.misjudged = alive]
    /\ UNCHANGED <<there, autoStart, listed, alive, knows, waking, outcome>>

\* systemctl restart, which Ubuntu refuses and which may not be there
Restart ==
    /\ Doing("restart")
    /\ \/ alive' = TRUE /\ knows' = listed /\ End("reloaded", TRUE)
       \/ UNCHANGED <<alive, knows, outcome>> /\ Then({"drop"}, TRUE)
    /\ UNCHANGED <<there, autoStart, listed, waking>>

\* _touch_keybindings: the list without our path and then with it; without the first there is no
\* second, and nothing to do for a list that cannot be read
TouchDrop ==
    /\ Doing("drop")
    /\ \/ listed' = FALSE /\ knows' = FALSE /\ Then({"full"}, TRUE) /\ UNCHANGED outcome
       \/ /\ listed' \in {listed, FALSE} /\ knows' = (knows /\ listed')
          /\ End("not reloaded", FALSE)
    /\ UNCHANGED <<there, autoStart, alive, waking>>

TouchFull ==
    /\ Doing("full")
    /\ \/ listed' = TRUE /\ knows' = alive /\ End("asked", TRUE)
       \/ /\ listed' \in {TRUE, listed} /\ knows' = (alive /\ listed')
          /\ End("not reloaded", FALSE)
    /\ UNCHANGED <<there, autoStart, alive, waking>>

\* _wake_media_keys: D-Bus activation, if gdbus is there and D-Bus does it
Wake ==
    /\ Doing("wake")
    /\ waking' \in {waking, TRUE}
    /\ Then({"wait", "spawn", "wait_again"}, TRUE)
    /\ UNCHANGED <<there, autoStart, listed, alive, knows, outcome>>

Waits == {"wait", "wait_again"}

\* the last wait is given up without a look
Wait_Trusting(step) ==
    /\ Doing(step)
    /\ \/ alive /\ End("started", TRUE)
       \/ /\ job.tries = WaitAttempts
          /\ IF step = "wait" THEN Past(step, TRUE) /\ UNCHANGED outcome
                              ELSE End("started", TRUE)
       \/ /\ ~alive /\ job.tries < WaitAttempts
          /\ job' = [job EXCEPT !.tries = @ + 1]
          /\ UNCHANGED outcome
    /\ UNCHANGED <<there, autoStart, listed, alive, knows, waking>>

\* until the daemon runs
Wait_Patient(step) ==
    /\ Doing(step)
    /\ \/ alive /\ End("started", TRUE)
       \/ UNCHANGED <<job, outcome>>
    /\ UNCHANGED <<there, autoStart, listed, alive, knows, waking>>

\* _wait_for_media_keys
Wait(step) ==
    /\ Doing(step)
    /\ \/ alive /\ End("started", TRUE)
       \/ /\ job.tries = WaitAttempts
          /\ IF step = "wait" THEN Past(step, TRUE) /\ UNCHANGED outcome
                              ELSE End("not running", TRUE)
       \/ /\ job.tries < WaitAttempts
          /\ job' = [job EXCEPT !.tries = @ + 1]
          /\ UNCHANGED outcome
    /\ UNCHANGED <<there, autoStart, listed, alive, knows, waking>>

\* _spawn_media_keys
Spawn ==
    /\ Doing("spawn")
    /\ \/ waking' = TRUE /\ Past("spawn", TRUE) /\ UNCHANGED outcome
       \/ UNCHANGED waking /\ End("not running", TRUE)
    /\ UNCHANGED <<there, autoStart, listed, alive, knows>>

\* nothing is left to do
Finish ==
    /\ job # Idle /\ job.todo = {}
    /\ End("none", TRUE)
    /\ UNCHANGED <<there, autoStart, listed, alive, knows, waking>>

--------------------------------------------------------------------------------
(* Everything else *)

Kill ==
    /\ job # Idle
    /\ job' = Idle /\ UNCHANGED outcome
    /\ UNCHANGED <<there, autoStart, listed, alive, knows, waking>>

Disturbed == job' = [job EXCEPT !.clean = job = Idle]

\* the daemon reads the list when it starts; a second one leaves at once
PluginStarts ==
    /\ waking
    /\ waking' = FALSE /\ alive' = TRUE
    /\ knows' = IF alive THEN knows ELSE listed
    /\ UNCHANGED <<there, autoStart, listed, job, outcome>>

PluginDies ==
    /\ alive
    /\ alive' = FALSE /\ knows' = FALSE
    /\ Disturbed
    /\ UNCHANGED <<there, autoStart, listed, waking, outcome>>

\* "start at login" in the settings window, and in the file or by a reset
SetAutoStart ==
    /\ autoStart' = ~autoStart
    /\ there' \in {there, IF autoStart' THEN there \cup {"autostart"} ELSE there \ {"autostart"}}
    /\ Disturbed
    /\ UNCHANGED <<listed, alive, knows, waking, outcome>>

Command ==
    \/ \E f \in {"icon", "entry", "autostart"} : Put(f)
    \/ \E removal \in Removals : Drop(removal.step, removal.file)
    \/ PurgeConfig \/ Register \/ Unregister
    \/ Reload \/ Restart \/ TouchDrop \/ TouchFull \/ Wake \/ Spawn \/ Finish
    \/ \E step \in Waits : Wait(step)

Next ==
    \/ Invoke \/ Command \/ Kill \/ PluginStarts \/ PluginDies \/ SetAutoStart

Spec == Init /\ [][Next]_vars

FairSpec == Spec /\ WF_vars(Command)

--------------------------------------------------------------------------------
(* Properties *)

\* A command that ended without a failure has done all it is for, whatever earlier commands that
\* failed or were killed half-way have left: after an installation our files are in place and
\* none of version 1; after a removal nothing is, not even what was installed under another
\* setting of "start at login".
CleanRunsComplete ==
    [][outcome' # outcome /\ outcome'.clean =>
         /\ outcome'.command = "install" =>
              {"icon", "entry"} \subseteq there' /\ "v1" \notin there' /\ listed'
              /\ (autoStart' => "autostart" \in there')
         /\ outcome'.command = "uninstall" => there' = {} /\ ~listed']_vars

\* "The result is verified": reloaded, asked or started again is said only of a daemon that
\* answers to the shortcut as it is now, whatever failed and died before.  Two cases are left
\* out, for the code has them: a daemon that has died when it is asked through the list, and
\* one that pgrep did not find although it ran, which is "started again" without a reload.
ReloadIsVerified ==
    [][outcome' # outcome /\ outcome'.reload \in {"reloaded", "asked", "started"} =>
         \/ knows'
         \/ outcome'.reload = "asked" /\ ~alive'
         \/ outcome'.reload = "started" /\ outcome'.misjudged]_vars

\* Every command ends, however long the daemon takes.
CommandsEnd == [](job # Idle => <>(job = Idle))

================================================================================
