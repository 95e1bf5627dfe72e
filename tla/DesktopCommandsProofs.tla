------------------------- MODULE DesktopCommandsProofs -------------------------
(***************************************************************************)
(* The commands that change the desktop, for every host and for any number *)
(* of looks at the shortcut daemon: DesktopIntegration (--install and      *)
(* --uninstall, with or without the shortcut alone), PasteSetup            *)
(* (--setup-paste, --test-paste) and KeyboardLayouts (the keys that an     *)
(* install asks for).  The first two run a list of steps that the host may *)
(* fail and that other programs work against; the argument is the same for *)
(* both: what a step should achieve is there already, or the step is still *)
(* on the list, or it has failed and the failure is remembered.            *)
(***************************************************************************)
EXTENDS DesktopIntegration, PasteSetup, KeyboardLayouts, TLAPS

(***************************************************************************)
(* --install and --uninstall.  JobShape says which steps can be left of a  *)
(* command; FilesFollow and ShortcutFollows are the argument above.        *)
(***************************************************************************)
PutSteps == {"icon", "entry", "autostart", "no_v1"}
RemovalSteps == {"no_shortcut", "no_autostart", "no_entry", "no_icon", "no_v1", "purge"}

\* what refresh_media_keys can have left, the last four for a daemon that was not found alive
WakeTails == {{"wake"}, {"wait", "spawn", "wait_again"}, {"spawn", "wait_again"}, {"wait_again"}}
DaemonTails == {{"reload"}, {"restart"}, {"drop"}, {"full"}} \cup WakeTails

JobShape ==
    /\ job.command = "install" =>
          job.todo \subseteq PutSteps \cup {"shortcut"} \/ job.todo \in DaemonTails
    /\ job.command = "install_shortcut" => job.todo \in {{"shortcut"}} \cup DaemonTails
    /\ job.command = "uninstall" => job.todo \subseteq RemovalSteps
    /\ job.command = "remove_shortcut" => job.todo \subseteq {"no_shortcut"}
    /\ job.command = "none" => job = Idle

Jobs == [command : {"none", "install", "install_shortcut", "uninstall", "remove_shortcut"},
         todo : SUBSET DOMAIN StepNumber, clean : BOOLEAN, misjudged : BOOLEAN, tries : Nat]

TypeOK ==
    /\ there \subseteq {"icon", "entry", "autostart", "v1"}
    /\ autoStart \in BOOLEAN /\ listed \in BOOLEAN /\ alive \in BOOLEAN
    /\ knows \in BOOLEAN /\ waking \in BOOLEAN
    /\ job \in Jobs
    /\ JobShape

\* the files of a command that nothing has disturbed
FilesFollow ==
    /\ job.command = "install" =>
         /\ \A f \in {"icon", "entry"} : f \in there \cup job.todo
         /\ autoStart => "autostart" \in there \cup job.todo
         /\ "v1" \notin there \/ "no_v1" \in job.todo
    /\ job.command = "uninstall" =>
         \A removal \in Removals : removal.file \notin there \/ removal.step \in job.todo

\* the shortcut of a command that nothing has disturbed
ShortcutFollows ==
    /\ job.command \in {"install", "install_shortcut"} =>
         listed \/ job.todo \cap {"shortcut", "full"} # {}
    /\ job.command = "uninstall" => ~listed \/ "no_shortcut" \in job.todo

IInv == TypeOK /\ (job.clean => FilesFollow /\ ShortcutFollows)

Refreshing == job.command \in {"install", "install_shortcut"} /\ job.todo \in DaemonTails

\* while the daemon is brought up to date, whatever has failed or interfered: the shortcut is in
\* the list, unless it is being taken out and put back, and a daemon that came up after it was
\* found dead has read the list
DaemonFollows ==
    Refreshing =>
        /\ listed \/ job.todo = {"full"}
        /\ job.todo \in WakeTails /\ alive /\ ~job.misjudged => knows

--------------------------------------------------------------------------------
(* Steps of the job *)

\* The types of everything but the job
PlainTypes ==
    /\ there \subseteq {"icon", "entry", "autostart", "v1"}
    /\ autoStart \in BOOLEAN /\ listed \in BOOLEAN /\ alive \in BOOLEAN
    /\ knows \in BOOLEAN /\ waking \in BOOLEAN

\* No command is under way after a command has ended, failed or been killed.
LEMMA IdleIsFine ==
    ASSUME PlainTypes', job' = Idle
    PROVE  IInv'
<1>1. Idle \in Jobs /\ Idle.command = "none"
  BY DEF Idle, Jobs
<1> QED
  BY <1>1 DEF IInv, TypeOK, PlainTypes, JobShape, FilesFollow, ShortcutFollows, Jobs

\* What "the command goes on" makes of the job.
LEMMA ThenJob ==
    ASSUME TypeOK, NEW left \in SUBSET DOMAIN StepNumber, NEW fine \in BOOLEAN,
           Then(left, fine)
    PROVE  /\ job' \in Jobs /\ job'.command = job.command /\ job'.todo = left
           /\ job'.clean = (job.clean /\ fine) /\ job'.misjudged = job.misjudged
  BY DEF TypeOK, Jobs, Then

\* A step that is taken is the first of those that are left.
LEMMA FirstLeft ==
    ASSUME TypeOK
    PROVE  /\ Doing("shortcut") =>
                /\ job.command \in {"install", "install_shortcut"}
                /\ job.todo = {"shortcut"}
           /\ \A f \in {"icon", "entry", "autostart"} : Doing(f) => job.command = "install"
           /\ \A step \in {"no_shortcut", "no_autostart", "no_entry", "no_icon", "purge"} :
                Doing(step) => job.command \in {"uninstall", "remove_shortcut"}
           /\ \A step \in {"reload", "restart", "drop", "full", "wake"} :
                Doing(step) => /\ job.command \in {"install", "install_shortcut"}
                               /\ job.todo = {step}
           /\ Doing("wait") => /\ job.command \in {"install", "install_shortcut"}
                               /\ job.todo = {"wait", "spawn", "wait_again"}
           /\ Doing("spawn") => /\ job.command \in {"install", "install_shortcut"}
                                /\ job.todo = {"spawn", "wait_again"}
           /\ Doing("wait_again") => /\ job.command \in {"install", "install_shortcut"}
                                     /\ job.todo = {"wait_again"}
<1> DEFINE T == job.todo
           c == job.command
<1>1. /\ c \in {"none", "install", "install_shortcut", "uninstall", "remove_shortcut"}
      /\ c = "none" => T = {}
      /\ c = "install" => T \subseteq PutSteps \cup {"shortcut"} \/ T \in DaemonTails
      /\ c = "install_shortcut" => T = {"shortcut"} \/ T \in DaemonTails
      /\ c \in {"uninstall", "remove_shortcut"} => T \subseteq RemovalSteps
  BY DEF TypeOK, Jobs, JobShape, Idle, RemovalSteps
<1>2. \A step : Doing(step) <=> step \in T /\ \A s \in T : StepNumber[step] <= StepNumber[s]
  BY DEF Doing
<1>3. /\ \A s \in PutSteps : StepNumber[s] < 10
      /\ StepNumber["shortcut"] = 10 /\ StepNumber["wait"] = 16
      /\ StepNumber["spawn"] = 17 /\ StepNumber["wait_again"] = 18
  BY DEF StepNumber, PutSteps
<1>4. T \in DaemonTails =>
        \/ \E step \in {"reload", "restart", "drop", "full", "wake", "wait_again"} : T = {step}
        \/ T = {"wait", "spawn", "wait_again"}
        \/ T = {"spawn", "wait_again"}
  BY DEF DaemonTails, WakeTails
<1>5. \A s \in PutSteps : StepNumber[s] \in Nat
  BY DEF StepNumber, PutSteps
<1> HIDE DEF T, c
<1>6. Doing("shortcut") => c \in {"install", "install_shortcut"} /\ T = {"shortcut"}
  <2> SUFFICES ASSUME Doing("shortcut")
               PROVE  c \in {"install", "install_shortcut"} /\ T = {"shortcut"}
    OBVIOUS
  <2>1. c \in {"install", "install_shortcut"}
    BY <1>1, <1>2 DEF RemovalSteps
  <2>2. T \subseteq PutSteps \cup {"shortcut"}
    BY <1>1, <1>2, <1>4, <2>1
  <2>3. T \cap PutSteps = {}
    BY <1>2, <1>3, <1>5
  <2> QED
    BY <1>2, <2>1, <2>2, <2>3
<1>7. \A f \in {"icon", "entry", "autostart"} : Doing(f) => c = "install"
  BY <1>1, <1>2, <1>4 DEF RemovalSteps
<1>8. \A step \in {"no_shortcut", "no_autostart", "no_entry", "no_icon", "purge"} :
        Doing(step) => c \in {"uninstall", "remove_shortcut"}
  BY <1>1, <1>2, <1>4 DEF PutSteps
<1>9. ASSUME NEW step \in {"reload", "restart", "drop", "full", "wake", "wait", "spawn",
                           "wait_again"}, Doing(step)
      PROVE  c \in {"install", "install_shortcut"} /\ T \in DaemonTails
  BY <1>1, <1>2, <1>9 DEF PutSteps, RemovalSteps
<1>10. \A step \in {"reload", "restart", "drop", "full", "wake"} :
        Doing(step) => c \in {"install", "install_shortcut"} /\ T = {step}
  <2> SUFFICES ASSUME NEW step \in {"reload", "restart", "drop", "full", "wake"}, Doing(step)
               PROVE  T = {step}
    BY <1>9
  <2> QED
    BY <1>2, <1>4, <1>9
<1>11. ASSUME Doing("wait") PROVE T = {"wait", "spawn", "wait_again"}
  BY <1>2, <1>4, <1>9, <1>11
<1>12. ASSUME Doing("spawn") PROVE T = {"spawn", "wait_again"}
  <2>1. "wait" \notin T
    BY <1>2, <1>3, <1>12
  <2> QED
    BY <1>2, <1>4, <1>9, <1>12, <2>1
<1>13. ASSUME Doing("wait_again") PROVE T = {"wait_again"}
  <2>1. "wait" \notin T /\ "spawn" \notin T
    BY <1>2, <1>3, <1>13
  <2> QED
    BY <1>2, <1>4, <1>9, <1>13, <2>1
<1> QED
  BY <1>6, <1>7, <1>8, <1>9, <1>10, <1>11, <1>12, <1>13 DEF T, c

--------------------------------------------------------------------------------
(* Every step preserves the invariant *)

\* A fresh session has no command under way.
LEMMA InitIInv == Init => IInv
<1>1. Idle \in Jobs /\ Idle.command = "none"
  BY DEF Idle, Jobs
<1> QED
  BY <1>1 DEF Init, IInv, TypeOK, JobShape, FilesFollow, ShortcutFollows

\* A command starts with all of its steps, so nothing has to be in place yet.
LEMMA InvokeKeeps ==
    ASSUME IInv, Invoke
    PROVE  IInv'
<1>1. PICK args \in Invocations :
          job' = [command |-> Chosen(args), todo |-> Steps(Chosen(args), args),
                  clean |-> TRUE, misjudged |-> FALSE, tries |-> 0]
  BY DEF Invoke
<1> DEFINE c == Chosen(args)
           t == Steps(c, args)
<1>2. c \in {"install", "uninstall", "install_shortcut", "remove_shortcut"}
  BY DEF Invocations, ACTION_GROUPS
<1>3. PlainTypes /\ UNCHANGED <<there, autoStart, listed, alive, knows, waking>>
  BY DEF Invoke, IInv, TypeOK, PlainTypes
<1>4. /\ c = "install" => t = {"icon", "entry", "no_v1", "shortcut"}
                                 \cup (IF autoStart THEN {"autostart"} ELSE {})
      /\ c = "uninstall" => /\ t \subseteq RemovalSteps
                            /\ RemovalSteps \ {"purge"} \subseteq t
      /\ c = "install_shortcut" => t = {"shortcut"}
      /\ c = "remove_shortcut" => t = {"no_shortcut"}
  <2> HIDE DEF c
  <2> QED
    BY DEF Steps, InstallSteps, UninstallSteps, RemovalSteps
<1>5. job' = [command |-> c, todo |-> t, clean |-> TRUE, misjudged |-> FALSE, tries |-> 0]
  BY <1>1
<1> HIDE DEF c, t
<1>6. t \subseteq DOMAIN StepNumber
  BY <1>2, <1>4 DEF StepNumber, RemovalSteps
<1>7. job' \in Jobs /\ job'.command = c /\ job'.todo = t
  BY <1>2, <1>5, <1>6 DEF Jobs
<1>8. TypeOK'
  BY <1>2, <1>3, <1>4, <1>7 DEF TypeOK, PlainTypes, JobShape, PutSteps
<1>9. FilesFollow'
  BY <1>2, <1>3, <1>4, <1>7 DEF FilesFollow, Removals, RemovalSteps
<1>10. ShortcutFollows'
  BY <1>2, <1>3, <1>4, <1>7 DEF ShortcutFollows, WakeTails, RemovalSteps
<1> QED
  BY <1>8, <1>9, <1>10 DEF IInv

\* Putting a file in place: its step leaves the list as the file appears, or the command ends.
LEMMA PutKeeps ==
    ASSUME IInv, NEW f \in {"icon", "entry", "autostart"}, Put(f)
    PROVE  IInv'
<1>1. job.command = "install" /\ PlainTypes
  BY FirstLeft DEF Put, IInv, TypeOK, PlainTypes
<1>2. PlainTypes'
  BY <1>1 DEF Put, PlainTypes
<1>3. CASE job' = Idle
  BY <1>2, <1>3, IdleIsFine
<1>4. ASSUME NEW fine \in BOOLEAN, Past(f, fine), fine => there' = there \cup {f}
      PROVE  IInv'
  <2>1. /\ job' \in Jobs /\ job'.command = "install" /\ job'.todo = job.todo \ {f}
        /\ job'.clean = (job.clean /\ fine)
    BY <1>1, <1>4, ThenJob DEF Past, IInv, TypeOK, Jobs
  <2>2. job.todo \subseteq PutSteps \cup {"shortcut"}
    BY <1>1 DEF Put, Doing, IInv, TypeOK, JobShape, DaemonTails, WakeTails
  <2>3. TypeOK'
    BY <1>1, <1>2, <2>1, <2>2 DEF TypeOK, PlainTypes, JobShape
  <2>4. f # "shortcut" /\ f # "full" /\ f # "no_v1"
    OBVIOUS
  <2>5. ASSUME job'.clean PROVE FilesFollow' /\ ShortcutFollows'
    <3>1. FilesFollow /\ ShortcutFollows /\ there' = there \cup {f}
      BY <1>4, <2>1, <2>5 DEF IInv
    <3>2. FilesFollow'
      BY <1>1, <2>1, <2>4, <3>1 DEF FilesFollow, Put
    <3>3. job'.todo \notin WakeTails \cup {{"restart"}, {"drop"}, {"full"}}
      BY <2>1, <2>2 DEF WakeTails, PutSteps
    <3>4. ShortcutFollows'
      BY <1>1, <2>1, <2>4, <3>1, <3>3 DEF ShortcutFollows, Put
    <3> QED
      BY <3>2, <3>4
  <2> QED
    BY <2>3, <2>5 DEF IInv
<1> QED
  BY <1>3, <1>4 DEF Put, End

\* Removing a file: its step leaves the list as the file goes, or the failure is noted.
LEMMA DropKeeps ==
    ASSUME IInv, NEW removal \in Removals, Drop(removal.step, removal.file)
    PROVE  IInv'
<1> DEFINE step == removal.step
           f == removal.file
<1>1. /\ <<step, f>> \in {<<"no_icon", "icon">>, <<"no_entry", "entry">>,
                          <<"no_autostart", "autostart">>, <<"no_v1", "v1">>}
      /\ step = "no_v1" <=> f = "v1"
      /\ \A other \in Removals : other.step = step <=> other.file = f
      /\ step \notin {"shortcut", "full", "icon", "entry", "autostart", "no_shortcut"}
  BY DEF Removals
<1>2. /\ PlainTypes /\ job \in Jobs
      /\ step = "no_v1" => job.command \in {"install", "uninstall", "remove_shortcut"}
      /\ step # "no_v1" => job.command \in {"uninstall", "remove_shortcut"}
  <2>1. PlainTypes /\ job \in Jobs
    BY DEF IInv, TypeOK, PlainTypes
  <2>2. step = "no_v1" => job.command \in {"install", "uninstall", "remove_shortcut"}
    BY <2>1 DEF Drop, Doing, IInv, TypeOK, JobShape, DaemonTails, WakeTails, Jobs, Idle
  <2>3. step # "no_v1" => job.command \in {"uninstall", "remove_shortcut"}
    BY <1>1, FirstLeft DEF Drop, IInv
  <2> QED
    BY <2>1, <2>2, <2>3
<1>3. PICK fine \in BOOLEAN : /\ Then(job.todo \ {step}, fine)
                              /\ fine => there' = there \ {f}
                              /\ there' \in {there, there \ {f}}
                              /\ step \in job.todo
                              /\ UNCHANGED <<autoStart, listed, alive, knows, waking>>
  BY DEF Drop, Past, Doing
<1> HIDE DEF step, f
<1>4. /\ job' \in Jobs /\ job'.command = job.command /\ job'.todo = job.todo \ {step}
      /\ job'.clean = (job.clean /\ fine)
  BY <1>2, <1>3, ThenJob DEF IInv, Jobs
<1>5. PlainTypes'
  BY <1>2, <1>3 DEF PlainTypes
<1>6. job.command = "install" =>
        step = "no_v1" /\ f = "v1" /\ job.todo \subseteq PutSteps \cup {"shortcut"}
  BY <1>1, <1>2, <1>3 DEF IInv, TypeOK, JobShape, DaemonTails, WakeTails
<1>7. JobShape'
  BY <1>2, <1>4, <1>6 DEF JobShape, IInv, TypeOK
<1>8. ASSUME job'.clean PROVE FilesFollow' /\ ShortcutFollows'
  <2>1. FilesFollow /\ ShortcutFollows /\ there' = there \ {f}
    BY <1>3, <1>4, <1>8 DEF IInv
  <2>2. FilesFollow'
    <3>1. ASSUME job.command = "install" PROVE FilesFollow'
      BY <1>3, <1>4, <1>6, <2>1, <3>1 DEF FilesFollow
    <3>2. ASSUME job.command = "uninstall" PROVE FilesFollow'
      <4>1. \A other \in Removals : other.file \notin there' \/ other.step \in job'.todo
        BY <1>1, <1>4, <2>1, <3>2 DEF FilesFollow
      <4> QED
        BY <1>4, <3>2, <4>1 DEF FilesFollow
    <3>3. ASSUME job.command \notin {"install", "uninstall"} PROVE FilesFollow'
      BY <1>4, <3>3 DEF FilesFollow
    <3> QED
      BY <3>1, <3>2, <3>3
  <2>3. job.command = "install" =>
          job'.todo \notin WakeTails \cup {{"restart"}, {"drop"}, {"full"}}
    BY <1>4, <1>6 DEF WakeTails, PutSteps
  <2>4. ShortcutFollows'
    BY <1>1, <1>2, <1>3, <1>4, <2>1, <2>3 DEF ShortcutFollows
  <2> QED
    BY <2>2, <2>4
<1> QED
  BY <1>4, <1>5, <1>7, <1>8 DEF IInv, TypeOK, PlainTypes

\* Dropping the configuration touches no file and no shortcut.
LEMMA PurgeKeeps ==
    ASSUME IInv, PurgeConfig
    PROVE  IInv'
<1>1. /\ job.command \in {"uninstall", "remove_shortcut"} /\ PlainTypes /\ job \in Jobs
      /\ "purge" \in job.todo
  BY FirstLeft DEF PurgeConfig, IInv, TypeOK, PlainTypes, Doing
<1>2. PICK fine \in BOOLEAN : Then(job.todo \ {"purge"}, fine)
  BY DEF PurgeConfig, Past
<1>3. /\ job' \in Jobs /\ job'.command = job.command /\ job'.todo = job.todo \ {"purge"}
      /\ job'.clean = (job.clean /\ fine)
  BY <1>1, <1>2, ThenJob DEF IInv, Jobs
<1>4. TypeOK'
  BY <1>1, <1>3 DEF PurgeConfig, IInv, TypeOK, PlainTypes, JobShape
<1>5. \A removal \in Removals : removal.step # "purge"
  BY DEF Removals
<1>6. job'.clean => FilesFollow' /\ ShortcutFollows'
  BY <1>1, <1>3, <1>5 DEF PurgeConfig, IInv, FilesFollow, ShortcutFollows
<1> QED
  BY <1>4, <1>6 DEF IInv

\* The shortcut is in the list when its step is done.
LEMMA RegisterKeeps ==
    ASSUME IInv, Register
    PROVE  IInv'
<1>1. /\ job.command \in {"install", "install_shortcut"} /\ job.todo = {"shortcut"}
      /\ PlainTypes /\ job \in Jobs
  BY FirstLeft DEF Register, IInv, TypeOK, PlainTypes
<1>2. PlainTypes'
  BY <1>1 DEF Register, PlainTypes
<1>3. CASE job' = Idle
  BY <1>2, <1>3, IdleIsFine
<1>4. CASE listed' = TRUE /\ Then({"reload"}, TRUE)
  <2>1. {"reload"} \subseteq DOMAIN StepNumber
    BY DEF StepNumber
  <2>2. /\ job' \in Jobs /\ job'.command = job.command /\ job'.todo = {"reload"}
        /\ job'.clean = job.clean
    BY <1>1, <1>4, <2>1, ThenJob DEF IInv, Jobs
  <2>3. TypeOK'
    BY <1>1, <1>2, <2>2 DEF TypeOK, PlainTypes, JobShape, DaemonTails
  <2>4. job'.clean => FilesFollow'
    BY <1>1, <2>2 DEF Register, IInv, FilesFollow
  <2>5. ShortcutFollows'
    BY <1>1, <1>4, <2>2 DEF ShortcutFollows, WakeTails
  <2> QED
    BY <2>3, <2>4, <2>5 DEF IInv
<1> QED
  BY <1>3, <1>4 DEF Register, End

\* The shortcut is out of the list when its step is done, or the failure is noted.
LEMMA UnregisterKeeps ==
    ASSUME IInv, Unregister
    PROVE  IInv'
<1>1. /\ job.command \in {"uninstall", "remove_shortcut"} /\ PlainTypes /\ job \in Jobs
      /\ "no_shortcut" \in job.todo
  BY FirstLeft DEF Unregister, IInv, TypeOK, PlainTypes, Doing
<1>2. PICK fine \in BOOLEAN : /\ Then(job.todo \ {"no_shortcut"}, fine)
                              /\ fine => listed' = FALSE
  BY DEF Unregister, Past
<1>3. /\ job' \in Jobs /\ job'.command = job.command /\ job'.todo = job.todo \ {"no_shortcut"}
      /\ job'.clean = (job.clean /\ fine)
  BY <1>1, <1>2, ThenJob DEF IInv, Jobs
<1>4. TypeOK'
  BY <1>1, <1>3 DEF Unregister, IInv, TypeOK, PlainTypes, JobShape
<1>5. \A removal \in Removals : removal.step # "no_shortcut"
  BY DEF Removals
<1>6. job'.clean => FilesFollow' /\ ShortcutFollows'
  BY <1>1, <1>2, <1>3, <1>5 DEF Unregister, IInv, FilesFollow, ShortcutFollows
<1> QED
  BY <1>4, <1>6 DEF IInv

\* A step of refresh_media_keys leaves the files alone; what it owes to the list is the last
\* hypothesis.
LEMMA DaemonStep ==
    ASSUME IInv, NEW tail \in DaemonTails, NEW fine \in BOOLEAN,
           \/ Then(tail, fine)
           \/ job' = [job EXCEPT !.todo = tail, !.clean = @ /\ fine, !.misjudged = alive],
           Refreshing, UNCHANGED <<there, autoStart>>, PlainTypes',
           job.clean /\ ShortcutFollows => listed' \/ tail = {"full"}
    PROVE  IInv'
<1>1. tail \subseteq DOMAIN StepNumber /\ "full" \in {"full"}
  BY DEF DaemonTails, WakeTails, StepNumber
<1>2. /\ job' \in Jobs /\ job'.command = job.command /\ job'.todo = tail
      /\ job'.clean = (job.clean /\ fine)
  <2>1. CASE Then(tail, fine)
    BY <1>1, <2>1, ThenJob DEF IInv
  <2>2. CASE job' = [job EXCEPT !.todo = tail, !.clean = @ /\ fine, !.misjudged = alive]
    BY <1>1, <2>2 DEF IInv, TypeOK, Jobs
  <2> QED
    BY <2>1, <2>2
<1>3. TypeOK'
  BY <1>2 DEF TypeOK, PlainTypes, JobShape, Refreshing
<1>4. job.todo \cap (PutSteps \cup RemovalSteps) = {}
  BY DEF DaemonTails, WakeTails, PutSteps, RemovalSteps, Refreshing
<1>5. ASSUME job'.clean PROVE FilesFollow' /\ ShortcutFollows'
  <2>1. FilesFollow /\ ShortcutFollows /\ job.clean /\ fine
    BY <1>2, <1>5 DEF IInv
  <2>2. FilesFollow'
    BY <1>2, <1>4, <2>1 DEF FilesFollow, PutSteps, Refreshing
  <2>3. ShortcutFollows'
    BY <1>1, <1>2, <2>1 DEF ShortcutFollows, Refreshing
  <2> QED
    BY <2>2, <2>3
<1> QED
  BY <1>3, <1>5 DEF IInv

\* The steps of refresh_media_keys, each from the one list of steps it can be at.
LEMMA RefreshKeeps ==
    ASSUME IInv,
           \/ Reload \/ Restart \/ TouchDrop \/ TouchFull \/ Wake \/ Spawn
           \/ \E step \in Waits : Wait(step)
    PROVE  IInv'
<1>1. PlainTypes /\ PlainTypes' /\ TypeOK /\ job \in Jobs
  BY DEF IInv, TypeOK, PlainTypes, Reload, Restart, TouchDrop, TouchFull, Wake, Wait, Spawn
<1>2. CASE job' = Idle
  BY <1>1, <1>2, IdleIsFine
<1>3. \A tail \in DaemonTails : "shortcut" \notin tail
  BY DEF DaemonTails, WakeTails
<1>4. CASE Reload
  <2>1. job.todo = {"reload"} /\ job.command \in {"install", "install_shortcut"}
    BY <1>1, <1>4, FirstLeft DEF Reload
  <2>2. {{"reload"}, {"restart"}, {"wake"}} \subseteq DaemonTails
    BY DEF DaemonTails, WakeTails
  <2>3. ShortcutFollows => listed
    BY <2>1 DEF ShortcutFollows
  <2>4. CASE alive /\ Then({"restart"}, TRUE)
    BY <1>1, <1>4, <2>1, <2>2, <2>3, <2>4, DaemonStep DEF Reload, Refreshing
  <2>5. CASE job' = [job EXCEPT !.todo = {"wake"}, !.clean = @ /\ ~alive, !.misjudged = alive]
    <3>1. PICK fine \in BOOLEAN :
            job' = [job EXCEPT !.todo = {"wake"}, !.clean = @ /\ fine, !.misjudged = alive]
      <4>1. CASE alive
        BY <2>5, <4>1
      <4>2. CASE ~alive
        BY <2>5, <4>2
      <4> QED
        BY <4>1, <4>2
    <3> QED
      BY <1>1, <1>4, <2>1, <2>2, <2>3, <3>1, DaemonStep DEF Reload, Refreshing
  <2> QED
    BY <1>4, <2>4, <2>5 DEF Reload
<1>5. CASE Restart /\ ~(job' = Idle)
  <2>1. job.todo = {"restart"} /\ job.command \in {"install", "install_shortcut"}
    BY <1>1, <1>5, FirstLeft DEF Restart
  <2>2. {{"restart"}, {"drop"}} \subseteq DaemonTails
    BY DEF DaemonTails
  <2>3. ShortcutFollows => listed
    BY <2>1 DEF ShortcutFollows
  <2>4. Then({"drop"}, TRUE) /\ UNCHANGED <<there, autoStart, listed, alive>>
    BY <1>5 DEF Restart, End
  <2> QED
    BY <1>1, <2>1, <2>2, <2>3, <2>4, DaemonStep DEF Refreshing
<1>6. CASE TouchDrop /\ ~(job' = Idle)
  <2>1. job.todo = {"drop"} /\ job.command \in {"install", "install_shortcut"}
    BY <1>1, <1>6, FirstLeft DEF TouchDrop
  <2>2. {{"full"}, {"drop"}} \subseteq DaemonTails
    BY DEF DaemonTails
  <2>3. Then({"full"}, TRUE) /\ UNCHANGED <<there, autoStart, alive>>
    BY <1>6 DEF TouchDrop, End
  <2> QED
    BY <1>1, <2>1, <2>2, <2>3, DaemonStep DEF Refreshing
<1>7. CASE TouchFull
  BY <1>2, <1>7 DEF TouchFull, End
<1>8. CASE Wake
  <2>1. job.todo = {"wake"} /\ job.command \in {"install", "install_shortcut"}
    BY <1>1, <1>8, FirstLeft DEF Wake
  <2>2. {{"wake"}, {"wait", "spawn", "wait_again"}} \subseteq WakeTails
        /\ WakeTails \subseteq DaemonTails
    BY DEF DaemonTails, WakeTails
  <2>3. ShortcutFollows => listed
    BY <2>1 DEF ShortcutFollows
  <2>4. Then({"wait", "spawn", "wait_again"}, TRUE)
        /\ UNCHANGED <<there, autoStart, listed, alive, knows>>
    BY <1>8 DEF Wake
  <2> QED
    BY <1>1, <2>1, <2>2, <2>3, <2>4, DaemonStep DEF Refreshing
<1>9. CASE Spawn /\ ~(job' = Idle)
  <2>1. job.todo = {"spawn", "wait_again"} /\ job.command \in {"install", "install_shortcut"}
    BY <1>1, <1>9, FirstLeft DEF Spawn
  <2>2. {{"spawn", "wait_again"}, {"wait_again"}} \subseteq WakeTails
        /\ WakeTails \subseteq DaemonTails
    BY DEF DaemonTails, WakeTails
  <2>3. ShortcutFollows => listed
    BY <2>1 DEF ShortcutFollows
  <2>4. job.todo \ {"spawn"} = {"wait_again"}
    BY <2>1
  <2>5. Then({"wait_again"}, TRUE) /\ UNCHANGED <<there, autoStart, listed, alive, knows>>
    BY <1>9, <2>4 DEF Spawn, End, Past
  <2> QED
    BY <1>1, <2>1, <2>2, <2>3, <2>5, DaemonStep DEF Refreshing
<1>10. ASSUME NEW step \in Waits, Wait(step), job' # Idle PROVE IInv'
  <2>1. /\ job.command \in {"install", "install_shortcut"}
        /\ step = "wait" => job.todo = {"wait", "spawn", "wait_again"}
        /\ step = "wait_again" => job.todo = {"wait_again"}
        /\ step \in {"wait", "wait_again"}
    BY <1>1, <1>10, FirstLeft DEF Wait, Waits
  <2>2. {{"wait", "spawn", "wait_again"}, {"spawn", "wait_again"}, {"wait_again"}}
            \subseteq WakeTails
        /\ WakeTails \subseteq DaemonTails
    BY DEF DaemonTails, WakeTails
  <2>3. ShortcutFollows => listed
    BY <2>1 DEF ShortcutFollows
  <2>4. CASE step = "wait" /\ Past(step, TRUE)
    <3>1. job.todo \ {"wait"} = {"spawn", "wait_again"}
      BY <2>1, <2>4
    <3>2. Then({"spawn", "wait_again"}, TRUE) /\ UNCHANGED <<there, autoStart, listed, alive, knows>>
      BY <1>10, <2>4, <3>1 DEF Wait, Past
    <3> QED
      BY <1>1, <2>1, <2>2, <2>3, <2>4, <3>2, DaemonStep DEF Refreshing
  <2>5. CASE job' = [job EXCEPT !.tries = @ + 1]
    <3>1. /\ job' \in Jobs /\ job'.command = job.command /\ job'.todo = job.todo
          /\ job'.clean = job.clean /\ job.command # "none"
      BY <1>1, <2>1, <2>5 DEF Jobs
    <3>2. UNCHANGED <<there, autoStart, listed, alive, knows, waking>>
      BY <1>10 DEF Wait
    <3>3. TypeOK'
      BY <1>1, <3>1, <3>2 DEF TypeOK, JobShape
    <3>4. job'.clean => FilesFollow' /\ ShortcutFollows'
      BY <3>1, <3>2 DEF IInv, FilesFollow, ShortcutFollows
    <3> QED
      BY <3>3, <3>4 DEF IInv
  <2> QED
    BY <1>10, <2>4, <2>5 DEF Wait, End
<1> QED
  BY <1>2, <1>4, <1>5, <1>6, <1>7, <1>8, <1>9, <1>10

\* The command is killed, the daemon comes and goes, "start at login" is switched: a command
\* under way is no longer undisturbed, or nothing it relies on has changed.
LEMMA HostKeeps ==
    ASSUME IInv, Kill \/ PluginStarts \/ PluginDies \/ SetAutoStart \/ Finish
    PROVE  IInv'
<1>1. PlainTypes /\ PlainTypes' /\ TypeOK /\ job \in Jobs
  BY DEF IInv, TypeOK, PlainTypes, Kill, PluginStarts, PluginDies, SetAutoStart, Finish
<1>2. CASE job' = Idle
  BY <1>1, <1>2, IdleIsFine
<1>3. CASE PluginStarts
  <2>1. /\ UNCHANGED <<there, autoStart, listed, job>> /\ alive' = TRUE
        /\ knows' = IF alive THEN knows ELSE listed
    BY <1>3 DEF PluginStarts
  <2>2. TypeOK'
    BY <1>1, <2>1 DEF TypeOK, PlainTypes, JobShape
  <2>3. FilesFollow => FilesFollow'
    BY <2>1 DEF FilesFollow
  <2>4. ShortcutFollows => ShortcutFollows'
    BY <2>1 DEF ShortcutFollows
  <2> QED
    BY <2>1, <2>2, <2>3, <2>4 DEF IInv
<1>4. CASE (PluginDies \/ SetAutoStart) /\ job # Idle
  <2>1. /\ job' \in Jobs /\ job'.command = job.command /\ job'.todo = job.todo
        /\ job'.clean = FALSE /\ job.command # "none"
    BY <1>1, <1>4 DEF PluginDies, SetAutoStart, Disturbed, Jobs, TypeOK, JobShape
  <2>2. TypeOK'
    BY <1>1, <2>1 DEF TypeOK, PlainTypes, JobShape
  <2> QED
    BY <2>1, <2>2 DEF IInv
<1>5. CASE (PluginDies \/ SetAutoStart) /\ job = Idle
  <2>1. job' = Idle
    BY <1>5 DEF PluginDies, SetAutoStart, Disturbed, Idle
  <2> QED
    BY <1>2, <2>1
<1> QED
  BY <1>2, <1>3, <1>4, <1>5 DEF Kill, Finish, End

\* Every step preserves the invariant.
LEMMA NextIInv == IInv /\ [Next]_vars => IInv'
<1> SUFFICES ASSUME IInv, [Next]_vars PROVE IInv'
  OBVIOUS
<1>1. CASE UNCHANGED vars
  BY <1>1 DEF vars, IInv, TypeOK, JobShape, FilesFollow, ShortcutFollows
<1>2. CASE Command
  BY <1>2, PutKeeps, DropKeeps, PurgeKeeps, RegisterKeeps, UnregisterKeeps, RefreshKeeps,
     HostKeeps DEF Command
<1> QED
  BY <1>1, <1>2, InvokeKeeps, HostKeeps DEF Next

\* At every step: a list of steps that belongs to the command, and, while nothing has failed or
\* interfered, every effect in place whose step is done.
THEOREM Invariance == Spec => []IInv
<1> QED
  BY InitIInv, NextIInv, PTL DEF Spec

--------------------------------------------------------------------------------
(* What a clean end promises *)

\* An undisturbed end of a command is where its last step is done.
LEMMA EndIsComplete ==
    ASSUME IInv, Next, outcome' # outcome, outcome'.clean
    PROVE  /\ outcome'.command = "install" =>
                {"icon", "entry"} \subseteq there' /\ "v1" \notin there' /\ listed'
                /\ (autoStart => "autostart" \in there')
           /\ outcome'.command = "uninstall" => there' = {} /\ ~listed'
<1>0. /\ \A reload : End(reload, FALSE) => outcome'.clean = FALSE
      /\ \A reload : End(reload, TRUE) =>
            outcome'.clean = job.clean /\ outcome'.reload = reload
      /\ \A reload, fine : End(reload, fine) => outcome'.command = job.command
  <2>1. job.clean \in BOOLEAN
    BY DEF IInv, TypeOK, Jobs
  <2>2. ASSUME NEW reload, End(reload, FALSE) PROVE outcome'.clean = FALSE
    BY <2>2 DEF End
  <2>3. ASSUME NEW reload, End(reload, TRUE)
        PROVE  outcome'.clean = job.clean /\ outcome'.reload = reload
    BY <2>1, <2>3 DEF End
  <2>4. ASSUME NEW reload, NEW fine, End(reload, fine) PROVE outcome'.command = job.command
    BY <2>4 DEF End
  <2> QED
    BY <2>2, <2>3, <2>4
<1>1. /\ ~Invoke /\ ~Kill /\ ~PluginStarts /\ ~PluginDies /\ ~SetAutoStart /\ ~Wake /\ ~Reload
      /\ ~PurgeConfig /\ ~Unregister /\ ~Register
      /\ \A removal \in Removals : ~Drop(removal.step, removal.file)
      /\ \A f \in {"icon", "entry", "autostart"} : ~Put(f)
  <2>1. ~Invoke /\ ~Kill /\ ~PluginStarts /\ ~PluginDies /\ ~SetAutoStart /\ ~Wake /\ ~Reload
    <3>1. NoOutcome.clean = FALSE
      BY DEF NoOutcome
    <3> QED
      BY <3>1 DEF Invoke, Kill, PluginStarts, PluginDies, SetAutoStart, Wake, Reload
  <2>2. ~PurgeConfig /\ ~Unregister /\ \A removal \in Removals : ~Drop(removal.step, removal.file)
    BY DEF PurgeConfig, Unregister, Drop
  <2>3. ~Register /\ \A f \in {"icon", "entry", "autostart"} : ~Put(f)
    BY <1>0 DEF Register, Put
  <2> QED
    BY <2>1, <2>2, <2>3
<1>2. CASE Finish
  <2>1. /\ job.todo = {} /\ job # Idle /\ outcome'.command = job.command /\ job.clean
        /\ UNCHANGED <<there, listed>> /\ outcome'.reload = "none"
    BY <1>2 DEF Finish, End
  <2>2. FilesFollow /\ ShortcutFollows /\ TypeOK
    BY <2>1 DEF IInv
  <2>3. ASSUME job.command = "uninstall" PROVE there = {} /\ ~listed
    <3>1. /\ [step |-> "no_icon", file |-> "icon"] \in Removals
          /\ [step |-> "no_entry", file |-> "entry"] \in Removals
          /\ [step |-> "no_autostart", file |-> "autostart"] \in Removals
          /\ [step |-> "no_v1", file |-> "v1"] \in Removals
      BY DEF Removals
    <3>2. "icon" \notin there /\ "entry" \notin there /\ "autostart" \notin there /\ "v1" \notin there
      BY <2>1, <2>2, <2>3, <3>1 DEF FilesFollow
    <3> QED
      BY <2>1, <2>2, <2>3, <3>2 DEF ShortcutFollows, TypeOK
  <2>4. ASSUME job.command = "install"
        PROVE  {"icon", "entry"} \subseteq there /\ "v1" \notin there /\ listed
               /\ (autoStart => "autostart" \in there)
    BY <2>1, <2>2, <2>4 DEF FilesFollow, ShortcutFollows
  <2> QED
    BY <2>1, <2>3, <2>4
<1>3. ASSUME job.command \in {"install", "install_shortcut"}, job.todo \in DaemonTails,
             job.clean, UNCHANGED <<there, autoStart>>, listed', outcome'.command = job.command
      PROVE  /\ outcome'.command = "install" =>
                  {"icon", "entry"} \subseteq there' /\ "v1" \notin there' /\ listed'
                  /\ (autoStart => "autostart" \in there')
             /\ outcome'.command = "uninstall" => there' = {} /\ ~listed'
  <2>1. job.todo \cap PutSteps = {}
    BY <1>3 DEF DaemonTails, WakeTails, PutSteps
  <2>2. FilesFollow
    BY <1>3 DEF IInv
  <2> QED
    BY <1>3, <2>1, <2>2 DEF FilesFollow, PutSteps
<1>4. CASE Restart
  <2>1. /\ job.todo = {"restart"} /\ job.command \in {"install", "install_shortcut"}
        /\ End("reloaded", TRUE) /\ knows' = listed
        /\ UNCHANGED <<there, autoStart, listed>>
    BY <1>4, FirstLeft DEF Restart, IInv
  <2>2. job.clean /\ outcome'.command = job.command
    BY <2>1 DEF End
  <2>3. listed
    BY <2>1, <2>2 DEF IInv, ShortcutFollows
  <2>4. job.todo \in DaemonTails
    BY <2>1 DEF DaemonTails
  <2> QED
    BY <1>3, <2>1, <2>2, <2>3, <2>4
<1>5. CASE TouchDrop
  BY <1>0, <1>5 DEF TouchDrop
<1>6. CASE TouchFull
  <2>1. /\ job.todo = {"full"} /\ job.command \in {"install", "install_shortcut"}
        /\ UNCHANGED <<there, autoStart>> /\ listed' = TRUE
        /\ job.clean /\ outcome'.command = job.command
    BY <1>0, <1>6, FirstLeft DEF TouchFull, IInv
  <2>2. job.todo \in DaemonTails
    BY <2>1 DEF DaemonTails
  <2> QED
    BY <1>3, <2>1, <2>2
<1>7. CASE Spawn
  <2>1. /\ job.todo = {"spawn", "wait_again"} /\ job.command \in {"install", "install_shortcut"}
        /\ UNCHANGED <<there, autoStart, listed>>
        /\ job.clean /\ outcome'.command = job.command
    BY <1>0, <1>7, FirstLeft DEF Spawn, IInv
  <2>2. listed
    BY <2>1 DEF IInv, ShortcutFollows
  <2>3. job.todo \in DaemonTails
    BY <2>1 DEF DaemonTails, WakeTails
  <2> QED
    BY <1>3, <2>1, <2>2, <2>3
<1>8. ASSUME NEW step \in Waits, Wait(step)
      PROVE  /\ outcome'.command = "install" =>
                  {"icon", "entry"} \subseteq there' /\ "v1" \notin there' /\ listed'
                  /\ (autoStart => "autostart" \in there')
             /\ outcome'.command = "uninstall" => there' = {} /\ ~listed'
  <2>1. /\ job.command \in {"install", "install_shortcut"}
        /\ job.todo \in {{"wait", "spawn", "wait_again"}, {"wait_again"}}
        /\ UNCHANGED <<there, autoStart, listed>>
        /\ job.clean /\ outcome'.command = job.command
    BY <1>0, <1>8, FirstLeft DEF Wait, Waits, IInv
  <2>2. job.todo \in WakeTails /\ job.todo \cap {"shortcut", "full"} = {}
    BY <2>1 DEF WakeTails
  <2>3. listed
    BY <2>1, <2>2 DEF IInv, ShortcutFollows
  <2>4. job.todo \in DaemonTails
    BY <2>2 DEF DaemonTails
  <2> QED
    BY <1>3, <2>1, <2>3, <2>4
<1> QED
  BY <1>1, <1>2, <1>4, <1>5, <1>6, <1>7, <1>8 DEF Next, Command

\* An --install or --uninstall that nothing failed or disturbed has done all it is for, whatever
\* earlier commands have left.
THEOREM CleanRunsAreComplete == Spec => CleanRunsComplete
<1>1. IInv /\ [Next]_vars =>
        [outcome' # outcome /\ outcome'.clean =>
           /\ outcome'.command = "install" =>
                {"icon", "entry"} \subseteq there' /\ "v1" \notin there' /\ listed'
                /\ (autoStart' => "autostart" \in there')
           /\ outcome'.command = "uninstall" => there' = {} /\ ~listed']_vars
  <2> SUFFICES ASSUME IInv, Next, outcome' # outcome, outcome'.clean
               PROVE  /\ outcome'.command = "install" =>
                           {"icon", "entry"} \subseteq there' /\ "v1" \notin there' /\ listed'
                           /\ (autoStart' => "autostart" \in there')
                      /\ outcome'.command = "uninstall" => there' = {} /\ ~listed'
    BY DEF vars
  <2>1. ~PurgeConfig /\ ~SetAutoStart
    BY DEF PurgeConfig, SetAutoStart
  <2>2. autoStart' = autoStart
    BY <2>1 DEF Next, Command, Invoke, Put, Drop, Register, Unregister, Reload, Restart,
                TouchDrop, TouchFull, Wake, Wait, Spawn, Finish, Kill, PluginStarts, PluginDies
  <2> QED
    BY <2>2, EndIsComplete
<1> QED
  BY <1>1, Invariance, PTL DEF Spec, CleanRunsComplete

\* Every step keeps what is known of the daemon, also of a command that was disturbed.
LEMMA NextDaemon == IInv /\ DaemonFollows /\ [Next]_vars => DaemonFollows'
<1> SUFFICES ASSUME IInv, DaemonFollows, [Next]_vars, Refreshing' PROVE DaemonFollows'
  BY DEF DaemonFollows
<1>1. TypeOK /\ job \in Jobs /\ job' # Idle /\ alive \in BOOLEAN /\ knows \in BOOLEAN
  BY DEF IInv, TypeOK, Refreshing, Idle
<1>2. /\ \A tail \in DaemonTails : tail # {} /\ tail \subseteq DOMAIN StepNumber
      /\ \A tail \in DaemonTails : tail \cap (PutSteps \cup RemovalSteps \cup {"shortcut"}) = {}
      /\ \A tail \in WakeTails : tail # {"full"}
      /\ \A step \in {"reload", "restart", "drop", "full"} : {step} \notin WakeTails
  BY DEF DaemonTails, WakeTails, PutSteps, RemovalSteps, StepNumber
<1>3. CASE UNCHANGED vars
  BY <1>3 DEF vars, DaemonFollows, Refreshing
<1>4. ~Kill /\ ~Finish
  BY <1>1 DEF Kill, Finish, End
<1>5. ~Invoke
  <2> SUFFICES ASSUME Invoke PROVE FALSE
    OBVIOUS
  <2>1. PICK args \in Invocations :
          job' = [command |-> Chosen(args), todo |-> Steps(Chosen(args), args),
                  clean |-> TRUE, misjudged |-> FALSE, tries |-> 0]
    BY DEF Invoke
  <2> DEFINE c == Chosen(args)
  <2>2. c \in {"install", "install_shortcut"} /\ job'.todo = Steps(c, args)
    BY <2>1 DEF Refreshing
  <2> HIDE DEF c
  <2>3. "shortcut" \in Steps(c, args)
    BY <2>2 DEF Steps, InstallSteps
  <2> QED
    BY <1>2, <2>2, <2>3 DEF Refreshing
<1>6. ASSUME NEW step \in PutSteps \cup RemovalSteps, Doing(step), NEW fine \in BOOLEAN,
             Past(step, fine)
      PROVE  FALSE
  <2>1. job'.todo = job.todo \ {step} /\ job'.command = job.command /\ step \in job.todo
    BY <1>1, <1>6, ThenJob DEF Past, Doing, Jobs
  <2>2. job.command \in {"install", "install_shortcut"}
    BY <2>1 DEF Refreshing
  <2>3. job.todo \notin DaemonTails
    BY <1>2, <2>1
  <2>4. job.todo \subseteq PutSteps \cup {"shortcut"}
    BY <1>1, <2>2, <2>3 DEF TypeOK, JobShape
  <2>5. job'.todo \cap (PutSteps \cup {"shortcut"}) = {} /\ job'.todo # {}
    BY <1>2 DEF Refreshing
  <2> QED
    BY <2>1, <2>4, <2>5
<1>7. /\ \A f \in {"icon", "entry", "autostart"} : ~Put(f)
      /\ \A removal \in Removals : ~Drop(removal.step, removal.file)
      /\ ~PurgeConfig /\ ~Unregister
  <2>1. ASSUME NEW f \in {"icon", "entry", "autostart"}, Put(f) PROVE FALSE
    BY <1>1, <1>6, <2>1 DEF Put, End, PutSteps
  <2>2. ASSUME NEW removal \in Removals, Drop(removal.step, removal.file) PROVE FALSE
    <3>1. removal.step \in RemovalSteps
      BY DEF Removals, RemovalSteps
    <3> QED
      BY <1>6, <2>2, <3>1 DEF Drop
  <2>3. ~PurgeConfig /\ ~Unregister
    BY <1>6 DEF PurgeConfig, Unregister, RemovalSteps
  <2> QED
    BY <2>1, <2>2, <2>3
<1>8. CASE Register
  <2>1. listed' = TRUE /\ Then({"reload"}, TRUE)
    BY <1>1, <1>8 DEF Register, End
  <2>2. job'.todo = {"reload"}
    BY <2>1 DEF Then
  <2> QED
    BY <1>2, <2>1, <2>2 DEF DaemonFollows
<1>9. ASSUME NEW step \in {"reload", "restart", "drop", "full", "wake"}, Doing(step)
      PROVE  Refreshing /\ job.todo = {step} /\ (listed \/ step = "full")
  <2>1. job.command \in {"install", "install_shortcut"} /\ job.todo = {step}
    BY <1>1, <1>9, FirstLeft
  <2>2. job.todo \in DaemonTails
    BY <2>1 DEF DaemonTails, WakeTails
  <2> QED
    BY <2>1, <2>2 DEF DaemonFollows, Refreshing
<1>10. CASE Reload
  <2>1. listed' = listed /\ listed /\ alive' = alive
    BY <1>9, <1>10 DEF Reload
  <2>2. CASE alive /\ Then({"restart"}, TRUE)
    <3>1. job'.todo = {"restart"}
      BY <1>1, <2>2 DEF Then, Jobs
    <3> QED
      BY <1>2, <2>1, <3>1 DEF DaemonFollows
  <2>3. CASE job' = [job EXCEPT !.todo = {"wake"}, !.clean = @ /\ ~alive, !.misjudged = alive]
    <3>1. job'.misjudged = alive
      BY <1>1, <2>3 DEF Jobs
    <3> QED
      BY <2>1, <3>1 DEF DaemonFollows
  <2> QED
    BY <1>10, <2>2, <2>3 DEF Reload
<1>11. CASE Restart
  <2>1. listed' = listed /\ listed /\ Then({"drop"}, TRUE)
    BY <1>1, <1>9, <1>11 DEF Restart, End
  <2>2. job'.todo = {"drop"}
    BY <1>1, <2>1 DEF Then, Jobs
  <2> QED
    BY <1>2, <2>1, <2>2 DEF DaemonFollows
<1>12. CASE TouchDrop
  <2>1. Then({"full"}, TRUE)
    BY <1>1, <1>12 DEF TouchDrop, End
  <2>2. job'.todo = {"full"}
    BY <1>1, <2>1 DEF Then, Jobs
  <2> QED
    BY <1>2, <2>2 DEF DaemonFollows
<1>13. ~TouchFull
  BY <1>1 DEF TouchFull, End
<1>14. ASSUME Refreshing, job.todo \in WakeTails, job'.misjudged = job.misjudged,
              UNCHANGED <<listed, alive, knows>>
       PROVE  DaemonFollows'
  BY <1>2, <1>14 DEF DaemonFollows
<1>15. CASE Wake
  <2>1. Refreshing /\ job.todo = {"wake"} /\ UNCHANGED <<listed, alive, knows>>
    BY <1>9, <1>15 DEF Wake
  <2>2. job'.misjudged = job.misjudged
    BY <1>1, <1>15 DEF Wake, Then, Jobs
  <2> QED
    BY <1>14, <2>1, <2>2 DEF WakeTails
<1>16. ASSUME Spawn \/ \E step \in Waits : Wait(step) PROVE DaemonFollows'
  <2>1. /\ job.command \in {"install", "install_shortcut"} /\ job.todo \in WakeTails
        /\ UNCHANGED <<listed, alive, knows>>
    BY <1>1, <1>16, FirstLeft DEF Spawn, Wait, Waits, WakeTails
  <2>2. job'.misjudged = job.misjudged
    BY <1>1, <1>16 DEF Spawn, Wait, Past, Then, End, Jobs
  <2> QED
    BY <1>14, <2>1, <2>2 DEF Refreshing, DaemonTails
<1>17. CASE PluginStarts
  <2>1. UNCHANGED <<listed, job>> /\ (IF alive THEN knows' = knows ELSE knows' = listed)
    BY <1>17 DEF PluginStarts
  <2>2. Refreshing /\ (listed \/ job.todo = {"full"})
    BY <2>1 DEF DaemonFollows, Refreshing
  <2> QED
    BY <1>2, <2>1, <2>2 DEF DaemonFollows
<1>18. CASE PluginDies \/ SetAutoStart
  <2>1. /\ job'.command = job.command /\ job'.todo = job.todo
        /\ job'.misjudged = job.misjudged /\ listed' = listed
        /\ ~alive' \/ UNCHANGED <<alive, knows>>
    BY <1>1, <1>18 DEF PluginDies, SetAutoStart, Disturbed, Jobs
  <2> QED
    BY <2>1 DEF DaemonFollows, Refreshing
<1> QED
  BY <1>3, <1>4, <1>5, <1>7, <1>8, <1>10, <1>11, <1>12, <1>13, <1>15, <1>16, <1>17, <1>18
  DEF Next, Command

\* "reloaded", "asked" and "started" are said of a daemon that answers to the shortcut as it is
\* now, also by a command that was disturbed or had failures; the exceptions are those that
\* ReloadIsVerified names, a daemon that died before it was asked and one that runs although
\* pgrep did not find it.
THEOREM ReloadsAreVerified == Spec => ReloadIsVerified
<1>1. Init => DaemonFollows
  BY DEF Init, Idle, DaemonFollows, Refreshing
<1>2. IInv /\ DaemonFollows /\ [Next]_vars =>
        [outcome' # outcome /\ outcome'.reload \in {"reloaded", "asked", "started"} =>
           \/ knows'
           \/ outcome'.reload = "asked" /\ ~alive'
           \/ outcome'.reload = "started" /\ outcome'.misjudged]_vars
  <2> SUFFICES ASSUME IInv, DaemonFollows, Next, outcome' # outcome,
                      outcome'.reload \in {"reloaded", "asked", "started"}
               PROVE  \/ knows'
                      \/ outcome'.reload = "asked" /\ ~alive'
                      \/ outcome'.reload = "started" /\ outcome'.misjudged
    BY DEF vars
  <2>1. /\ \A reload, fine : End(reload, fine) =>
             outcome'.reload = reload /\ outcome'.misjudged = job.misjudged
        /\ NoOutcome.reload = "none"
        /\ ~End("none", TRUE) /\ ~End("none", FALSE)
        /\ ~End("not reloaded", FALSE) /\ ~End("not running", TRUE)
    <3>1. ASSUME NEW reload, NEW fine, End(reload, fine)
          PROVE  outcome'.reload = reload /\ outcome'.misjudged = job.misjudged
      BY <3>1 DEF End
    <3>2. NoOutcome.reload = "none"
      BY DEF NoOutcome
    <3>3. \A reload \in {"none", "not reloaded", "not running"} : outcome'.reload # reload
      OBVIOUS
    <3> QED
      BY <3>1, <3>2, <3>3
  <2>2. Restart \/ TouchFull \/ \E step \in Waits : Wait(step)
    <3>1. ~Invoke /\ ~Kill /\ ~PluginStarts /\ ~PluginDies /\ ~SetAutoStart /\ ~Finish
      BY <2>1 DEF Invoke, Kill, PluginStarts, PluginDies, SetAutoStart, Finish
    <3>2. /\ ~Register /\ ~Unregister /\ ~PurgeConfig
          /\ \A f \in {"icon", "entry", "autostart"} : ~Put(f)
          /\ \A removal \in Removals : ~Drop(removal.step, removal.file)
      BY <2>1 DEF Register, Unregister, PurgeConfig, Put, Drop
    <3>3. ~Reload /\ ~TouchDrop /\ ~Wake /\ ~Spawn
      BY <2>1 DEF Reload, TouchDrop, Wake, Spawn
    <3> QED
      BY <3>1, <3>2, <3>3 DEF Next, Command
  <2>3. CASE Restart
    <3>1. job.command \in {"install", "install_shortcut"} /\ job.todo = {"restart"}
      BY <2>3, FirstLeft DEF Restart, IInv
    <3>2. listed
      BY <3>1 DEF DaemonFollows, Refreshing, DaemonTails
    <3> QED
      BY <2>3, <3>2 DEF Restart
  <2>4. CASE TouchFull
    <3>1. End("asked", TRUE) /\ knows' = alive /\ alive' = alive
      BY <2>1, <2>4 DEF TouchFull
    <3>2. outcome'.reload = "asked"
      BY <2>1, <3>1
    <3> QED
      BY <3>1, <3>2
  <2>5. ASSUME NEW step \in Waits, Wait(step)
        PROVE  knows' \/ (outcome'.reload = "started" /\ outcome'.misjudged)
    <3>1. /\ job.command \in {"install", "install_shortcut"} /\ job.todo \in WakeTails
          /\ alive /\ knows' = knows
          /\ outcome'.reload = "started" /\ outcome'.misjudged = job.misjudged
      BY <2>1, <2>5, FirstLeft DEF Wait, Waits, WakeTails, IInv
    <3> QED
      BY <3>1 DEF DaemonFollows, Refreshing, DaemonTails
  <2> QED
    BY <2>2, <2>3, <2>4, <2>5
<1> QED
  BY <1>1, <1>2, InitIInv, NextIInv, NextDaemon, PTL DEF Spec, ReloadIsVerified

--------------------------------------------------------------------------------
(***************************************************************************)
(* --setup-paste and --test-paste.  What the setup should achieve is there *)
(* already, its step is still to run, or the step is among the failed ones *)
(* (SetupFollows); a verdict that was given keeps its reason (SaidOfLogin).*)
(* The setup works its steps out a second time after the answer; what runs *)
(* as root can join them meanwhile only to bring back what was taken away, *)
(* and that is remembered in lost (ShownInTime).                           *)
(***************************************************************************)
SetupTypes ==
    /\ host \in HostFacts
    /\ installed \subseteq Packages
    /\ member \in BOOLEAN /\ writable \in BOOLEAN /\ opened \in BOOLEAN
    /\ daemon \in BOOLEAN /\ socket \in BOOLEAN /\ enabled \in BOOLEAN
    /\ unit \in {"none", "other", "ours"}
    /\ pc \in {"idle", "asking", "setup", "send"}
    /\ verdict \in {"none", "nothing", "declined", "done", "failed", "log in again", "cannot",
                    "pressed", "not pressed"}
    /\ shown \subseteq AllSteps /\ todo \subseteq AllSteps /\ failed \subseteq AllSteps
    /\ lost \subseteq Sudo
    /\ presses \in Nat /\ late \in BOOLEAN

ShownInTime ==
    /\ pc = "asking" => SetupSteps \cap Sudo \subseteq shown \cup lost
    /\ pc = "setup" => todo \cap Sudo \subseteq shown \cup lost

SetupFollows ==
    pc = "setup" =>
        /\ "ydotool" \in installed \cup todo \cup failed \cup lost
        /\ host.named /\ host.usermod /\ ~writable =>
              member \/ "usermod" \in todo \cup failed \cup lost

SaidOfLogin ==
    verdict = "log in again" =>
        /\ "ydotool" \in installed \cup lost
        /\ host.named /\ host.usermod => member \/ "usermod" \in lost

NotPressedYet == pc = "send" /\ ~late => presses = 0

SetupInv ==
    /\ SetupTypes /\ ShownInTime /\ SetupFollows /\ SaidOfLogin /\ NotPressedYet
    /\ PressedOnce

\* The types of the host and those of the commands, separately
HostTypes ==
    /\ host \in HostFacts
    /\ installed \subseteq Packages
    /\ member \in BOOLEAN /\ writable \in BOOLEAN /\ opened \in BOOLEAN
    /\ daemon \in BOOLEAN /\ socket \in BOOLEAN /\ enabled \in BOOLEAN
    /\ unit \in {"none", "other", "ours"}

\* Before the first command the invariant holds.
LEMMA SetupInit == PasteInit => SetupInv
<1> SUFFICES ASSUME PasteInit PROVE SetupInv
  OBVIOUS
<1>1. HostTypes
  BY HostsAssumption DEF PasteInit, HostTypes, Packages
<1>2. /\ pc = "idle" /\ verdict = "none" /\ shown = {} /\ todo = {} /\ failed = {}
      /\ presses = 0 /\ late = FALSE /\ lost = {}
  BY DEF PasteInit
<1>3. ShownInTime /\ SetupFollows /\ SaidOfLogin /\ NotPressedYet /\ PressedOnce
  BY <1>2 DEF ShownInTime, SetupFollows, SaidOfLogin, NotPressedYet, PressedOnce
<1>4. SetupTypes
  BY <1>1, <1>2 DEF SetupTypes, HostTypes
<1> QED
  BY <1>3, <1>4 DEF SetupInv

\* The steps that use sudo grow only by those that bring back what has gone.
LEMMA StepsShrink ==
    ASSUME host' = host, NEW gone, installed \subseteq installed' \cup gone,
           "usermod" \notin gone => (member => member') /\ (writable => writable')
    PROVE  SetupSteps' \cap Sudo \subseteq (SetupSteps \cap Sudo) \cup gone
  BY DEF SetupSteps, Sudo, Packages, AllSteps

\* The question and its answer.
LEMMA AskKeeps ==
    ASSUME SetupInv, Plan \/ Decline \/ Accept
    PROVE  SetupInv'
<1>1. SetupSteps \subseteq AllSteps
  BY DEF SetupSteps
<1>2. /\ HostTypes /\ presses \in Nat /\ late \in BOOLEAN /\ PressedOnce /\ SaidOfLogin
      /\ todo \subseteq AllSteps /\ failed \subseteq AllSteps /\ shown \subseteq AllSteps
      /\ lost \subseteq Sudo
      /\ verdict = "log in again" \/ verdict # "log in again"
  BY DEF SetupInv, SetupTypes, HostTypes
<1>3. CASE Plan
  <2>1. /\ UNCHANGED hostVars /\ UNCHANGED <<todo, failed>> /\ presses' = 0 /\ late' = FALSE /\ lost' = {}
        /\ \/ pc' = "idle" /\ shown' = shown
           \/ pc' = "asking" /\ shown' = SetupSteps
        /\ \/ verdict' = "nothing"
           \/ verdict' = "none"
    BY <1>3 DEF Plan, Shown
  <2>2. HostTypes' /\ SetupSteps' = SetupSteps
    BY <1>2, <2>1 DEF HostTypes, hostVars, SetupSteps, DaemonSeen
  <2>3. SetupTypes'
    BY <1>1, <1>2, <2>1, <2>2 DEF SetupTypes, HostTypes
  <2>4. ShownInTime' /\ SetupFollows' /\ SaidOfLogin' /\ NotPressedYet'
    BY <2>1, <2>2 DEF ShownInTime, SetupFollows, SaidOfLogin, NotPressedYet
  <2>5. PressedOnce'
    BY <2>1 DEF PressedOnce
  <2> QED
    BY <2>3, <2>4, <2>5 DEF SetupInv
<1>4. CASE Decline
  <2>1. /\ UNCHANGED hostVars /\ UNCHANGED <<todo, failed, lost, presses, late>>
        /\ pc' = "idle" /\ verdict' = "declined" /\ shown' = {}
    BY <1>4 DEF Decline, sendVars
  <2>2. HostTypes'
    BY <1>2, <2>1 DEF HostTypes, hostVars
  <2>3. SetupTypes'
    BY <1>2, <2>1, <2>2 DEF SetupTypes, HostTypes
  <2>4. ShownInTime' /\ SetupFollows' /\ SaidOfLogin' /\ NotPressedYet'
    BY <2>1 DEF ShownInTime, SetupFollows, SaidOfLogin, NotPressedYet
  <2>5. PressedOnce'
    BY <1>2, <2>1 DEF PressedOnce
  <2> QED
    BY <2>3, <2>4, <2>5 DEF SetupInv
<1>5. CASE Accept
  <2>1. /\ pc = "asking" /\ pc' = "setup" /\ todo' = SetupSteps /\ failed' = {}
        /\ unit' = unit \/ unit' = "ours"
        /\ UNCHANGED <<host, installed, member, writable, opened, daemon, socket, enabled, shown,
                       lost, verdict, presses, late>>
    BY <1>5 DEF Accept, sendVars
  <2>2. HostTypes'
    BY <1>2, <2>1 DEF HostTypes
  <2>3. verdict' = verdict /\ SetupTypes'
    BY <1>1, <1>2, <2>1, <2>2 DEF SetupTypes, HostTypes, SetupInv
  <2>4. ShownInTime'
    BY <2>1 DEF ShownInTime, SetupInv
  <2>5. "ydotool" \in installed \cup SetupSteps
    BY DEF SetupSteps, AllSteps, SetupOrder, Packages
  <2>6. host.named /\ host.usermod /\ ~writable => member \/ "usermod" \in SetupSteps
    BY DEF SetupSteps, AllSteps, SetupOrder
  <2>7. SetupFollows' /\ SaidOfLogin' /\ NotPressedYet'
    BY <1>2, <2>1, <2>5, <2>6 DEF SetupFollows, SaidOfLogin, NotPressedYet
  <2>8. PressedOnce'
    BY <1>2, <2>1 DEF PressedOnce
  <2> QED
    BY <2>3, <2>4, <2>7, <2>8 DEF SetupInv
<1> QED
  BY <1>3, <1>4, <1>5

\* A step leaves the list as its effect appears or as it joins the failed ones.
LEMMA RunStepKeeps ==
    ASSUME SetupInv, RunStep
    PROVE  SetupInv'
<1>1. PICK step \in todo :
          /\ todo' = todo \ {step}
          /\ \/ Effect(step) /\ failed' = failed
             \/ (Effect(step) \/ UNCHANGED hostVars) /\ failed' = failed \cup {step}
  BY DEF RunStep
<1>2. pc = "setup" /\ UNCHANGED <<pc, shown, lost, verdict, presses, late>>
  BY DEF RunStep, sendVars
<1>3. HostTypes /\ SetupTypes /\ step \in AllSteps
  BY DEF SetupInv, SetupTypes, HostTypes
<1>4. /\ host' = host /\ writable' = writable /\ installed \subseteq installed'
      /\ member => member'
  <2>1. CASE Effect(step)
    BY <2>1 DEF Effect
  <2>2. CASE UNCHANGED hostVars
    BY <2>2 DEF hostVars
  <2> QED
    BY <1>1, <2>1, <2>2
<1>5. HostTypes'
  <2>1. CASE Effect(step)
    BY <1>3, <2>1 DEF Effect, HostTypes
  <2>2. CASE UNCHANGED hostVars
    BY <1>3, <2>2 DEF hostVars, HostTypes
  <2> QED
    BY <1>1, <2>1, <2>2
<1>6. SetupTypes'
  <2>1. todo' \subseteq AllSteps /\ failed' \subseteq AllSteps
    BY <1>1, <1>3 DEF SetupTypes
  <2> QED
    BY <1>2, <1>3, <1>5, <2>1 DEF SetupTypes, HostTypes
<1>7. SetupFollows'
  <2>0. SetupFollows
    BY DEF SetupInv
  <2>1. "ydotool" \in installed' \cup todo' \cup failed' \cup lost'
    <3>1. step = "ydotool" /\ step \notin failed' => step \in installed'
      BY <1>1 DEF Effect, Packages
    <3> QED
      BY <1>1, <1>2, <1>4, <2>0, <3>1 DEF SetupFollows
  <2>2. host.named /\ host.usermod /\ ~writable =>
            member' \/ "usermod" \in todo' \cup failed' \cup lost'
    <3>1. step = "usermod" /\ step \notin failed' => member'
      BY <1>1 DEF Effect
    <3> QED
      BY <1>1, <1>2, <1>4, <2>0, <3>1 DEF SetupFollows
  <2> QED
    BY <1>2, <1>4, <2>1, <2>2 DEF SetupFollows
<1>8. ShownInTime' /\ SaidOfLogin' /\ NotPressedYet'
  BY <1>1, <1>2, <1>4 DEF SetupInv, ShownInTime, SaidOfLogin, NotPressedYet
<1>9. PressedOnce'
  BY <1>2 DEF SetupInv, PressedOnce
<1> QED
  BY <1>6, <1>7, <1>8, <1>9 DEF SetupInv

\* A verdict that sends the user to the next login comes after every step that may not fail.
LEMMA ReportKeeps ==
    ASSUME SetupInv, Report
    PROVE  SetupInv'
<1>1. /\ pc = "setup" /\ todo = {} /\ pc' = "idle" /\ shown' = {} /\ failed' = {}
      /\ UNCHANGED hostVars /\ UNCHANGED <<todo, lost, presses, late>>
      /\ verdict' \in {"failed", "done", "log in again"}
      /\ verdict' = "log in again" => failed \subseteq Optional /\ ~writable
  BY DEF Report, sendVars
<1>2. HostTypes /\ SetupTypes
  BY DEF SetupInv, SetupTypes, HostTypes
<1>3. HostTypes'
  BY <1>1, <1>2 DEF HostTypes, hostVars
<1>4. SetupTypes'
  BY <1>1, <1>2, <1>3 DEF SetupTypes, HostTypes
<1>5. SaidOfLogin'
  BY <1>1 DEF SetupInv, SetupFollows, SaidOfLogin, hostVars, Optional
<1>6. ShownInTime' /\ SetupFollows' /\ NotPressedYet'
  BY <1>1 DEF ShownInTime, SetupFollows, NotPressedYet
<1>7. PressedOnce'
  BY <1>1 DEF SetupInv, PressedOnce
<1> QED
  BY <1>4, <1>5, <1>6, <1>7 DEF SetupInv

\* The key is pressed by the command that ends the test, or by one that is killed late.
LEMMA TestKeeps ==
    ASSUME SetupInv, TestPaste \/ Try \/ GiveUp
    PROVE  SetupInv'
<1>1. /\ UNCHANGED hostVars /\ UNCHANGED <<shown, todo, failed>>
      /\ \/ lost' = lost
         \/ lost' = {} /\ verdict' \in {"cannot", "none"}
      /\ pc' \in {"idle", "send"} /\ pc # "setup"
  BY DEF TestPaste, Try, GiveUp, setupVars
<1>2. verdict' = verdict \/ verdict' \in {"cannot", "none", "pressed", "not pressed"}
  BY DEF TestPaste, Try, GiveUp
<1>3. /\ HostTypes /\ SetupTypes /\ presses \in Nat /\ late \in BOOLEAN
      /\ NotPressedYet /\ PressedOnce
  BY DEF SetupInv, SetupTypes, HostTypes
<1>4. presses' \in Nat /\ late' \in BOOLEAN /\ NotPressedYet' /\ PressedOnce'
  <2>1. CASE presses' = 0 /\ late' = FALSE
    <3>1. presses' \in Nat /\ late' \in BOOLEAN
      BY <2>1
    <3>2. NotPressedYet'
      BY <2>1 DEF NotPressedYet
    <3>3. PressedOnce'
      BY <2>1 DEF PressedOnce
    <3> QED
      BY <3>1, <3>2, <3>3
  <2>2. CASE presses' = presses /\ late' = late /\ pc' = pc
    BY <1>3, <2>2 DEF NotPressedYet, PressedOnce
  <2>3. CASE presses' = presses /\ late' = late /\ pc' = "idle"
    BY <1>3, <2>3 DEF NotPressedYet, PressedOnce
  <2>4. CASE pc = "send" /\ pc' = "idle" /\ late' = late
             /\ (presses' = presses \/ presses' = presses + 1)
    BY <1>3, <2>4 DEF NotPressedYet, PressedOnce
  <2>5. CASE late' = TRUE /\ (presses' = presses \/ presses' = presses + 1)
    BY <1>3, <2>5 DEF NotPressedYet, PressedOnce
  <2>6. CASE TestPaste
    BY <2>1, <2>6 DEF TestPaste
  <2>7. CASE GiveUp
    BY <2>3, <2>7 DEF GiveUp, sendVars
  <2>8. CASE Try
    <3> DEFINE more == presses + (IF Presses(Head(tries)) THEN 1 ELSE 0)
    <3>1. more = presses \/ more = presses + 1
      BY <1>3
    <3>2. \/ pc = "send" /\ pc' = "idle" /\ late' = late /\ presses' = more
          \/ pc' = pc /\ late' = late /\ presses' = presses
          \/ late' = TRUE /\ (presses' = presses \/ presses' = more)
      BY <2>8 DEF Try
    <3> HIDE DEF more
    <3> QED
      BY <3>1, <3>2, <2>2, <2>4, <2>5
  <2> QED
    BY <2>6, <2>7, <2>8
<1>5. HostTypes'
  BY <1>1, <1>3 DEF HostTypes, hostVars
<1>6. SetupTypes'
  BY <1>1, <1>2, <1>3, <1>4, <1>5 DEF SetupTypes, HostTypes
<1>7. SetupSteps' = SetupSteps
  BY <1>1 DEF hostVars, SetupSteps, DaemonSeen
<1>8. ShownInTime' /\ SetupFollows'
  BY <1>1 DEF ShownInTime, SetupFollows
<1>9. SaidOfLogin'
  BY <1>1, <1>2 DEF SetupInv, SaidOfLogin, hostVars
<1> QED
  BY <1>4, <1>6, <1>8, <1>9 DEF SetupInv

\* What happens to the host meanwhile, and the next login, which ends every command.
LEMMA HostMovesOn ==
    ASSUME SetupInv, Meanwhile \/ Login
    PROVE  SetupInv'
<1>1. HostTypes /\ SetupTypes
  BY DEF SetupInv, SetupTypes, HostTypes
<1>2. CASE Meanwhile
  <2>1. /\ UNCHANGED <<host, unit, enabled, pc, verdict, shown, todo, failed, presses, late>>
        /\ lost \subseteq lost' /\ lost' \subseteq Sudo
        /\ installed \subseteq installed' \cup lost'
        /\ "usermod" \notin lost' => (member => member') /\ (writable => writable')
    <3>1. CASE Gain
      BY <1>1, <3>1 DEF Gain, setupVars, sendVars, SetupTypes
    <3>2. CASE Loss
      <4>1. PICK step \in Sudo :
              /\ lost' = lost \cup {step}
              /\ \/ installed' = installed \ {step} /\ UNCHANGED <<member, writable>>
                 \/ step = "usermod" /\ UNCHANGED installed
        BY <3>2 DEF Loss
      <4>2. UNCHANGED <<host, unit, enabled, pc, verdict, shown, todo, failed, presses, late>>
        BY <3>2 DEF Loss, sendVars
      <4>3. lost \subseteq lost' /\ lost' \subseteq Sudo /\ step \in lost'
        BY <1>1, <4>1 DEF SetupTypes
      <4>4. installed \subseteq installed' \cup lost'
        BY <4>1, <4>3
      <4>5. "usermod" \notin lost' => (member => member') /\ (writable => writable')
        BY <4>1, <4>3
      <4> QED
        BY <4>2, <4>3, <4>4, <4>5
    <3> QED
      BY <1>2, <3>1, <3>2 DEF Meanwhile
  <2>2. HostTypes'
    <3>1. CASE Gain
      BY <1>1, <3>1 DEF Gain, HostTypes
    <3>2. CASE Loss
      BY <1>1, <3>2 DEF Loss, HostTypes
    <3> QED
      BY <1>2, <3>1, <3>2 DEF Meanwhile
  <2>3. SetupTypes'
    BY <1>1, <2>1, <2>2 DEF SetupTypes, HostTypes
  <2>4. SetupSteps' \cap Sudo \subseteq (SetupSteps \cap Sudo) \cup lost'
    BY <2>1, StepsShrink
  <2>5. ShownInTime'
    BY <2>1, <2>4 DEF SetupInv, ShownInTime
  <2>6. SetupFollows'
    BY <2>1 DEF SetupInv, SetupFollows
  <2>7. SaidOfLogin'
    BY <2>1 DEF SetupInv, SaidOfLogin
  <2>8. NotPressedYet'
    BY <2>1 DEF SetupInv, NotPressedYet
  <2>9. PressedOnce'
    BY <2>1 DEF SetupInv, PressedOnce
  <2> QED
    BY <2>3, <2>5, <2>6, <2>7, <2>8, <2>9 DEF SetupInv
<1>3. CASE Login
  <2>1. /\ UNCHANGED <<host, installed, member, unit, enabled, verdict>>
        /\ pc' = "idle" /\ shown' = {} /\ todo' = {} /\ failed' = {} /\ lost' = lost
        /\ presses' = 0 /\ late' = FALSE
    BY <1>3 DEF Login
  <2>2. opened' \in BOOLEAN /\ writable' \in BOOLEAN /\ daemon' \in BOOLEAN /\ socket' \in BOOLEAN
    BY <1>1, <1>3 DEF Login, HostTypes
  <2>3. HostTypes'
    BY <1>1, <2>1, <2>2 DEF HostTypes
  <2>4. SetupTypes'
    BY <1>1, <2>1, <2>3 DEF SetupTypes, HostTypes
  <2>5. ShownInTime' /\ SetupFollows' /\ SaidOfLogin' /\ NotPressedYet'
    BY <2>1 DEF SetupInv, ShownInTime, SetupFollows, SaidOfLogin, NotPressedYet
  <2>6. PressedOnce'
    BY <2>1 DEF PressedOnce
  <2> QED
    BY <2>4, <2>5, <2>6 DEF SetupInv
<1> QED
  BY <1>2, <1>3

\* Every step of a command, of other programs and of the session preserves the invariant.
LEMMA SetupNextInv == SetupInv /\ [PasteNext]_pasteVars => SetupInv'
<1> SUFFICES ASSUME SetupInv, [PasteNext]_pasteVars PROVE SetupInv'
  OBVIOUS
<1>1. CASE UNCHANGED pasteVars
  <2>1. UNCHANGED <<host, installed, member, writable, opened, daemon, socket, unit, enabled,
                    pc, verdict, shown, todo, failed, lost, presses, late>>
    BY <1>1 DEF pasteVars, hostVars, setupVars, sendVars
  <2>2. SetupSteps' = SetupSteps
    BY <2>1 DEF SetupSteps, DaemonSeen
  <2>3. SetupTypes'
    <3>1. HostTypes /\ SetupTypes
      BY DEF SetupInv, SetupTypes, HostTypes
    <3>2. HostTypes'
      BY <2>1, <3>1 DEF HostTypes
    <3> QED
      BY <2>1, <3>1, <3>2 DEF SetupTypes, HostTypes
  <2>4. ShownInTime' /\ SetupFollows' /\ SaidOfLogin' /\ NotPressedYet'
    BY <2>1, <2>2 DEF SetupInv, ShownInTime, SetupFollows, SaidOfLogin, NotPressedYet
  <2>5. PressedOnce'
    BY <2>1 DEF SetupInv, PressedOnce
  <2> QED
    BY <2>3, <2>4, <2>5 DEF SetupInv
<1> QED
  BY <1>1, AskKeeps, RunStepKeeps, ReportKeeps, TestKeeps, HostMovesOn DEF PasteNext

\* The invariant of the two commands, for any hosts.
LEMMA SetupInvariance == PasteSpec => []SetupInv
<1> QED
  BY SetupInit, SetupNextInv, PTL DEF PasteSpec

\* Nothing runs as root that the user was not shown, but what brings back something that was
\* taken away after the question was put.
THEOREM NothingUnshownAsRoot == PasteSpec => []RootStepsWereShown
<1>1. SetupInv => RootStepsWereShown
  BY DEF SetupInv, ShownInTime, RootStepsWereShown
<1> QED
  BY <1>1, SetupInvariance, PTL

\* Ctrl+V is pressed once, unless a command was killed after it had pressed the key.
THEOREM OneCtrlV == PasteSpec => []PressedOnce
<1>1. SetupInv => PressedOnce
  BY DEF SetupInv
<1> QED
  BY <1>1, SetupInvariance, PTL

\* After "log out and back in once", the next login has a ydotool that works, unless the
\* program or the permission was taken away meanwhile.
THEOREM NextLoginPastes == PasteSpec => LoginCompletesSetup
<1>1. SetupInv /\ [PasteNext]_pasteVars =>
        [Login /\ verdict = "log in again" /\ host.named /\ host.usermod
            /\ lost \cap {"ydotool", "usermod"} = {} =>
           "ydotool" \in installed' /\ Reaches("ydotool")']_pasteVars
  BY DEF SetupInv, SaidOfLogin, Login, Reaches, SetupTypes
<1> QED
  BY <1>1, SetupInvariance, PTL DEF PasteSpec, LoginCompletesSetup

\* "done" and "nothing to do" are said only when ydotool works at that moment, unless it was
\* removed while the commands ran.
THEOREM SetupIsHonest == PasteSpec => SetupSaysTrue
<1>1. ASSUME SetupInv, PasteNext, verdict' # verdict,
             \/ verdict' = "done" /\ "ydotool" \notin lost
             \/ verdict' = "nothing" /\ host.systemctl /\ host.pgrep
      PROVE  "ydotool" \in installed /\ Reaches("ydotool")
  <2>1. CASE verdict' = "done" /\ "ydotool" \notin lost
    <3>1. pc = "setup" /\ todo = {} /\ failed \subseteq Optional /\ writable
      BY <1>1, <2>1 DEF PasteNext, Plan, Decline, Accept, RunStep, Report, TestPaste, Try, GiveUp,
                        Meanwhile, Gain, Loss, Login
    <3> QED
      BY <1>1, <2>1, <3>1 DEF SetupInv, SetupFollows, Optional, Reaches
  <2>2. CASE verdict' = "nothing" /\ host.systemctl /\ host.pgrep
    <3>1. SetupSteps = {}
      BY <1>1, <2>2 DEF PasteNext, Plan, Decline, Accept, RunStep, Report, TestPaste, Try, GiveUp,
                        Meanwhile, Gain, Loss, Login
    <3>2. {"ydotool", "reload"} \subseteq AllSteps
      BY DEF AllSteps, SetupOrder
    <3>3. "ydotool" \in installed
      BY <3>1, <3>2 DEF SetupSteps, Packages
    <3>4. DaemonSeen = "yes"
      BY <2>2, <3>1, <3>2 DEF SetupSteps
    <3> QED
      BY <2>2, <3>3, <3>4 DEF DaemonSeen, Reaches
  <2> QED
    BY <1>1, <2>1, <2>2
<1>2. SetupInv /\ [PasteNext]_pasteVars =>
        [verdict' # verdict
            /\ (\/ verdict' = "done" /\ "ydotool" \notin lost
                \/ verdict' = "nothing" /\ host.systemctl /\ host.pgrep) =>
           "ydotool" \in installed /\ Reaches("ydotool")]_pasteVars
  BY <1>1
<1> QED
  BY <1>2, SetupInvariance, PTL DEF PasteSpec, SetupSaysTrue

--------------------------------------------------------------------------------
(***************************************************************************)
(* The plan of keyboard layouts.  At every point of the loop the plan has  *)
(* every way to write what the layouts before this one send, nothing else  *)
(* and nothing twice.                                                      *)
(***************************************************************************)
Spelled == Keys \cup {sym.name : sym \in Syms} \cup {sym.char : sym \in Syms}

LayoutTypes ==
    /\ keymap \in [Layouts -> [Keycodes -> Syms \cup {NoSym}]]
    /\ madeFor \in Seq(Layouts) /\ turn \in Nat
    /\ plan \in Seq(Spelled)

\* the plan begins with the key that was asked for, and no key is in it twice
WellMade(list, key) == Len(list) >= 1 /\ list[1] = key /\ IsInjective(list)

\* the plan has every way to write a keysym
Covers(list, sym) ==
    sym # NoSym =>
        /\ sym.name # NoKey => sym.name \in ToSet(list)
        /\ Typed(sym) /\ sym.char # NoKey => sym.char \in ToSet(list)

MidLoop ==
    turn # 0 =>
        /\ turn <= Len(madeFor) + 1
        /\ WellMade(plan, wanted)
        /\ \A i \in 1 .. turn - 1 : \A k \in KeycodeFor(madeFor, wanted) :
              Covers(plan, keymap[madeFor[i]][k])

PlanInv == LayoutTypes /\ MidLoop /\ PlansFit /\ EveryLayoutOpens /\ NoOtherKeyTaken

\* What joining a plan does to it: its beginning and its members stay, what is new is the
\* spelling, and nothing is there twice.
LEMMA AddKeeps ==
    ASSUME NEW S, NEW list \in Seq(S), NEW e \in S
    PROVE  /\ Add(list, e) \in Seq(S)
           /\ ToSet(list) \subseteq ToSet(Add(list, e))
           /\ ToSet(Add(list, e)) \subseteq ToSet(list) \cup {e}
           /\ e # NoKey => e \in ToSet(Add(list, e))
           /\ \A key : WellMade(list, key) => WellMade(Add(list, e), key)
<1>1. CASE e \in ToSet(list) \cup {NoKey}
  BY <1>1 DEF Add
<1>2. CASE e \notin ToSet(list) \cup {NoKey}
  <2>1. Add(list, e) = Append(list, e)
    BY <1>2 DEF Add
  <2> DEFINE longer == Append(list, e)
  <2>2. /\ longer \in Seq(S) /\ Len(longer) = Len(list) + 1
        /\ \A i \in 1 .. Len(list) : longer[i] = list[i]
        /\ longer[Len(list) + 1] = e
        /\ DOMAIN list = 1 .. Len(list) /\ DOMAIN longer = 1 .. Len(list) + 1 /\ Len(list) \in Nat
    OBVIOUS
  <2> HIDE DEF longer
  <2>3. ToSet(longer) = ToSet(list) \cup {e}
    <3>1. \A i \in DOMAIN longer : longer[i] \in ToSet(list) \cup {e}
      BY <2>2 DEF ToSet
    <3>2. \A x \in ToSet(list) : x \in ToSet(longer)
      BY <2>2 DEF ToSet
    <3>3. e \in ToSet(longer)
      BY <2>2 DEF ToSet
    <3> QED
      BY <3>1, <3>2, <3>3 DEF ToSet
  <2>4. ASSUME NEW key, WellMade(list, key) PROVE WellMade(longer, key)
    <3>1. \A i \in 1 .. Len(list) : list[i] # e
      BY <1>2, <2>2 DEF ToSet
    <3>2. \A i, j \in 1 .. Len(list) : list[i] = list[j] => i = j
      BY <2>2, <2>4 DEF WellMade, IsInjective
    <3>3. ASSUME NEW i \in 1 .. Len(list) + 1, NEW j \in 1 .. Len(list) + 1, longer[i] = longer[j]
          PROVE  i = j
      BY <2>2, <3>1, <3>2, <3>3
    <3>4. IsInjective(longer)
      BY <2>2, <3>3 DEF IsInjective
    <3> QED
      BY <2>2, <2>4, <3>4 DEF WellMade
  <2> QED
    BY <2>1, <2>2, <2>3, <2>4 DEF longer
<1> QED
  BY <1>1, <1>2

\* The same for the one or two ways to write a keysym.
LEMMA WithSymKeeps ==
    ASSUME NEW list \in Seq(Spelled), NEW sym \in Syms \cup {NoSym}
    PROVE  /\ WithSym(list, sym) \in Seq(Spelled)
           /\ ToSet(list) \subseteq ToSet(WithSym(list, sym))
           /\ sym # NoSym => ToSet(WithSym(list, sym)) \subseteq ToSet(list) \cup {sym.name, sym.char}
           /\ sym = NoSym => WithSym(list, sym) = list
           /\ Covers(WithSym(list, sym), sym)
           /\ \A key : WellMade(list, key) => WellMade(WithSym(list, sym), key)
<1>1. CASE sym = NoSym
  BY <1>1 DEF WithSym, Covers
<1>2. CASE sym # NoSym
  <2> DEFINE named == Add(list, sym.name)
             typed == Add(named, sym.char)
  <2>1. sym.name \in Spelled /\ sym.char \in Spelled
    BY <1>2 DEF Spelled
  <2>2. /\ named \in Seq(Spelled)
        /\ ToSet(list) \subseteq ToSet(named) /\ ToSet(named) \subseteq ToSet(list) \cup {sym.name}
        /\ sym.name # NoKey => sym.name \in ToSet(named)
        /\ \A key : WellMade(list, key) => WellMade(named, key)
    BY <2>1, AddKeeps
  <2> HIDE DEF named
  <2>3. /\ typed \in Seq(Spelled)
        /\ ToSet(named) \subseteq ToSet(typed) /\ ToSet(typed) \subseteq ToSet(named) \cup {sym.char}
        /\ sym.char # NoKey => sym.char \in ToSet(typed)
        /\ \A key : WellMade(named, key) => WellMade(typed, key)
    BY <2>1, <2>2, AddKeeps
  <2> HIDE DEF typed
  <2>4. CASE Typed(sym)
    <3>1. WithSym(list, sym) = typed
      BY <1>2, <2>4 DEF WithSym, named, typed
    <3> QED
      BY <1>2, <2>2, <2>3, <3>1 DEF Covers
  <2>5. CASE ~Typed(sym)
    <3>1. WithSym(list, sym) = named
      BY <1>2, <2>5 DEF WithSym, named
    <3> QED
      BY <1>2, <2>2, <2>5, <3>1 DEF Covers
  <2> QED
    BY <2>4, <2>5
<1> QED
  BY <1>1, <1>2

LEMMA Constants ==
    /\ MaxExtraSlots \in Nat /\ MaxSources \in Nat
    /\ Keycodes \subseteq Nat /\ V_KEYCODE \in Keycodes
  BY LayoutsAssumption DEF LayoutsAssumption

\* The physical key that is found is one of the keyboard's.
LEMMA KeycodeIsKey == \A layouts, key : KeycodeFor(layouts, key) \subseteq Keycodes
  BY Constants DEF KeycodeFor

\* What the layouts send depends on nothing but the keymap, the key and the layouts.
LEMMA SentStays ==
    ASSUME UNCHANGED <<keymap, madeFor, wanted>>
    PROVE  Sent' = Sent /\ KeycodeFor(madeFor, wanted)' = KeycodeFor(madeFor, wanted)
  BY DEF Sent, KeycodeFor, Matches

\* A fresh request: the plan is the key that was asked for.
LEMMA RequestKeeps ==
    ASSUME PlanInv, NEW key \in Keys, BindingPlan(key)
    PROVE  PlanInv'
<1>1. /\ keymap' = keymap /\ library' = library /\ wanted' = key /\ plan' = <<key>>
      /\ turn' \in {0, 1}
      /\ madeFor' \in ConfiguredLayouts \cup {<<>>}
      /\ turn' = 0 => madeFor' = <<>> \/ ~library \/ KeycodeFor(madeFor', key) = {}
  BY DEF BindingPlan
<1>2. madeFor' \in Seq(Layouts)
  <2>1. CASE madeFor' \in ConfiguredLayouts
    <3>1. PICK n \in 0 .. MaxSources : madeFor' \in [1 .. n -> Layouts]
      BY <2>1 DEF ConfiguredLayouts, BoundedSeq, SeqOf
    <3>2. n \in Nat
      BY <3>1, Constants
    <3> QED
      BY <3>1, <3>2
  <2>2. CASE madeFor' = <<>>
    BY <2>2
  <2> QED
    BY <1>1, <2>1, <2>2
<1>3. /\ plan' \in Seq(Spelled) /\ Len(plan') = 1 /\ plan'[1] = key /\ ToSet(plan') = {key}
      /\ DOMAIN plan' = {1}
  <2>1. key \in Spelled
    BY DEF Spelled
  <2> QED
    BY <1>1, <2>1 DEF ToSet
<1>4. LayoutTypes'
  BY <1>1, <1>2, <1>3 DEF PlanInv, LayoutTypes
<1>5. WellMade(plan', wanted')
  BY <1>1, <1>3 DEF WellMade, IsInjective
<1>6. MidLoop'
  <2>1. turn' # 0 => turn' = 1 /\ \A i \in 1 .. turn' - 1 : FALSE
    <3>1. CASE turn' = 0
      BY <3>1
    <3>2. CASE turn' = 1
      <4>1. \A i \in 1 .. 1 - 1 : FALSE
        OBVIOUS
      <4> QED
        BY <3>2, <4>1
    <3> QED
      BY <1>1, <3>1, <3>2
  <2>2. 1 <= Len(madeFor') + 1
    BY <1>2
  <2> QED
    BY <1>5, <2>1, <2>2 DEF MidLoop
<1>7. PlansFit'
  <2>1. Len(plan') \in 1 .. MaxExtraSlots + 1
    BY <1>3, Constants
  <2> QED
    BY <1>5, <2>1 DEF PlansFit, WellMade
<1>8. EveryLayoutOpens'
  <2>1. turn' = 0 /\ library' => Sent' = {}
    <3>1. KeycodeFor(madeFor, wanted)' = KeycodeFor(madeFor', key)
      BY <1>1 DEF KeycodeFor, Matches
    <3> QED
      BY <1>1, <3>1 DEF Sent, ToSet
  <2> QED
    BY <2>1 DEF EveryLayoutOpens, Planned
<1>9. NoOtherKeyTaken'
  BY <1>1, <1>3 DEF NoOtherKeyTaken
<1> QED
  BY <1>4, <1>6, <1>7, <1>8, <1>9 DEF PlanInv

\* One layout: what its key sends joins the plan.
LEMMA LookUpKeeps ==
    ASSUME PlanInv, LookUp
    PROVE  PlanInv'
<1>1. /\ turn \in DOMAIN madeFor /\ turn' = turn + 1
      /\ UNCHANGED <<keymap, library, wanted, madeFor>>
  BY DEF LookUp
<1>2. PICK k \in KeycodeFor(madeFor, wanted) : plan' = WithSym(plan, keymap[madeFor[turn]][k])
  BY DEF LookUp
<1>3. LayoutTypes /\ MidLoop /\ NoOtherKeyTaken
  BY DEF PlanInv
<1>4. turn \in 1 .. Len(madeFor) /\ Len(madeFor) \in Nat /\ madeFor[turn] \in Layouts
  BY <1>1, <1>3 DEF LayoutTypes
<1> DEFINE sym == keymap[madeFor[turn]][k]
<1>5. sym \in Syms \cup {NoSym}
  BY <1>2, <1>3, <1>4, KeycodeIsKey DEF LayoutTypes
<1>6. plan' = WithSym(plan, sym)
  BY <1>2
<1>7. sym # NoSym => sym \in Sent
  BY <1>1, <1>2 DEF Sent, ToSet
<1>8. \A l \in KeycodeFor(madeFor, wanted) : l = k
  <2>1. \A p, q \in (DOMAIN madeFor) \X Keycodes :
           /\ p[1] < q[1] \/ (p[1] = q[1] /\ p[2] <= q[2])
           /\ q[1] < p[1] \/ (q[1] = p[1] /\ q[2] <= p[2])
           => p[2] = q[2]
    <3>1. \A p \in (DOMAIN madeFor) \X Keycodes : p[1] \in Nat /\ p[2] \in Nat
      <4>1. DOMAIN madeFor \subseteq Nat
        BY <1>3 DEF LayoutTypes
      <4> QED
        BY <4>1, Constants
    <3> QED
      BY <3>1
  <2> QED
    BY <1>2, <2>1 DEF KeycodeFor
<1> HIDE DEF sym
<1>9. /\ plan' \in Seq(Spelled) /\ ToSet(plan) \subseteq ToSet(plan')
      /\ sym # NoSym => ToSet(plan') \subseteq ToSet(plan) \cup {sym.name, sym.char}
      /\ sym = NoSym => plan' = plan
      /\ Covers(plan', sym)
      /\ \A key : WellMade(plan, key) => WellMade(plan', key)
  BY <1>3, <1>5, <1>6, WithSymKeeps DEF LayoutTypes
<1>10. LayoutTypes'
  BY <1>1, <1>3, <1>9 DEF LayoutTypes
<1>11. KeycodeFor(madeFor, wanted)' = KeycodeFor(madeFor, wanted) /\ Sent' = Sent
  BY <1>1, SentStays
<1>12. MidLoop'
  <2>1. turn # 0 /\ turn' - 1 = turn /\ turn' <= Len(madeFor') + 1 /\ WellMade(plan', wanted')
    BY <1>1, <1>3, <1>4, <1>9 DEF MidLoop
  <2>2. ASSUME NEW i \in 1 .. turn, NEW l \in KeycodeFor(madeFor, wanted)
        PROVE  Covers(plan', keymap[madeFor[i]][l])
    <3>1. CASE i = turn
      BY <1>8, <1>9, <3>1 DEF sym
    <3>2. CASE i # turn
      <4>1. i \in 1 .. turn - 1
        BY <1>4, <3>2
      <4>2. Covers(plan, keymap[madeFor[i]][l])
        BY <1>3, <2>1, <4>1 DEF MidLoop
      <4> QED
        BY <1>9, <4>2 DEF Covers
    <3> QED
      BY <3>1, <3>2
  <2>3. \A i \in 1 .. turn' - 1 : \A l \in KeycodeFor(madeFor, wanted)' :
           Covers(plan', keymap'[madeFor'[i]][l])
    BY <1>1, <1>11, <2>1, <2>2
  <2> QED
    BY <2>1, <2>3 DEF MidLoop, Covers
<1>13. PlansFit' /\ EveryLayoutOpens'
  BY <1>1, <1>4 DEF PlansFit, EveryLayoutOpens, Planned
<1>14. NoOtherKeyTaken'
  BY <1>1, <1>3, <1>7, <1>9, <1>11 DEF NoOtherKeyTaken
<1> QED
  BY <1>10, <1>12, <1>13, <1>14 DEF PlanInv

\* A plan that is cut to the slots keeps its beginning; one that fits is not cut.
LEMMA CutKeeps ==
    ASSUME PlanInv, Cut
    PROVE  PlanInv'
<1> DEFINE n == IF Len(plan) <= MaxExtraSlots THEN Len(plan) ELSE MaxExtraSlots + 1
<1>1. /\ turn > Len(madeFor) /\ turn' = 0 /\ plan' = SubSeq(plan, 1, n)
      /\ UNCHANGED <<keymap, library, wanted, madeFor>>
  BY DEF Cut
<1>2. LayoutTypes /\ MidLoop /\ NoOtherKeyTaken
  BY DEF PlanInv
<1>3. /\ plan \in Seq(Spelled) /\ Len(plan) \in Nat /\ Len(madeFor) \in Nat /\ turn \in Nat
      /\ MaxExtraSlots \in Nat /\ madeFor \in Seq(Layouts)
  BY <1>2, Constants DEF LayoutTypes
<1>4. turn = Len(madeFor) + 1 /\ WellMade(plan, wanted)
  BY <1>1, <1>2, <1>3 DEF MidLoop
<1>5. n \in 1 .. Len(plan) /\ n <= MaxExtraSlots + 1 /\ (n <= MaxExtraSlots => n = Len(plan))
  BY <1>3, <1>4 DEF WellMade
<1> HIDE DEF n
<1>6. /\ plan' \in Seq(Spelled) /\ Len(plan') = n /\ DOMAIN plan' = 1 .. n
      /\ \A i \in 1 .. n : plan'[i] = plan[i]
  BY <1>1, <1>3, <1>5
<1>7. LayoutTypes'
  BY <1>1, <1>2, <1>6 DEF LayoutTypes
<1>8. MidLoop'
  BY <1>1 DEF MidLoop
<1>9. PlansFit'
  <2>1. \A i, j \in 1 .. n : plan[i] = plan[j] => i = j
    BY <1>3, <1>4, <1>5 DEF WellMade, IsInjective
  <2>2. IsInjective(plan')
    BY <1>6, <2>1 DEF IsInjective
  <2>3. Len(plan') \in 1 .. MaxExtraSlots + 1 /\ plan'[1] = wanted'
    BY <1>1, <1>3, <1>4, <1>5, <1>6 DEF WellMade
  <2> QED
    BY <2>2, <2>3 DEF PlansFit
<1>10. Sent' = Sent
  BY <1>1, SentStays
<1>11. EveryLayoutOpens'
  <2> SUFFICES ASSUME Len(plan') <= MaxExtraSlots, NEW s \in Sent
               PROVE  /\ s.name # NoKey => s.name \in ToSet(plan')
                      /\ Typed(s) /\ s.char # NoKey => s.char \in ToSet(plan')
    BY <1>10 DEF EveryLayoutOpens
  <2>1. plan' = plan
    BY <1>3, <1>5, <1>6
  <2>2. PICK i \in DOMAIN madeFor, k \in KeycodeFor(madeFor, wanted) :
           s = keymap[madeFor[i]][k] /\ s # NoSym
    BY DEF Sent, ToSet
  <2>3. i \in 1 .. turn - 1 /\ turn # 0
    BY <1>3, <1>4
  <2>4. Covers(plan, s)
    BY <1>2, <2>2, <2>3 DEF MidLoop
  <2> QED
    BY <2>1, <2>2, <2>4 DEF Covers
<1>12. NoOtherKeyTaken'
  <2>1. ToSet(plan') \subseteq ToSet(plan)
    BY <1>3, <1>5, <1>6 DEF ToSet
  <2> QED
    BY <1>1, <1>2, <1>10, <2>1 DEF NoOtherKeyTaken
<1> QED
  BY <1>7, <1>8, <1>9, <1>11, <1>12 DEF PlanInv

\* A surprise leaves the key that was asked for.
LEMMA SurpriseKeeps ==
    ASSUME PlanInv, Surprise
    PROVE  PlanInv'
<1>1. /\ turn # 0 /\ turn' = 0 /\ madeFor' = <<>> /\ plan' = <<wanted>>
      /\ UNCHANGED <<keymap, library, wanted>>
  BY DEF Surprise
<1>2. LayoutTypes /\ MidLoop
  BY DEF PlanInv
<1>3. wanted \in Spelled
  BY <1>1, <1>2 DEF LayoutTypes, MidLoop, WellMade
<1>4. /\ plan' \in Seq(Spelled) /\ Len(plan') = 1 /\ plan'[1] = wanted /\ ToSet(plan') = {wanted}
      /\ DOMAIN plan' = {1} /\ madeFor' \in Seq(Layouts)
  BY <1>1, <1>3 DEF ToSet
<1>5. LayoutTypes'
  BY <1>1, <1>2, <1>4 DEF LayoutTypes
<1>6. MidLoop'
  BY <1>1 DEF MidLoop
<1>7. PlansFit'
  <2>1. Len(plan') \in 1 .. MaxExtraSlots + 1
    BY <1>4, Constants
  <2>2. IsInjective(plan')
    BY <1>4 DEF IsInjective
  <2> QED
    BY <1>1, <1>4, <2>1, <2>2 DEF PlansFit
<1>8. EveryLayoutOpens'
  <2>1. Sent' = {}
    BY <1>1 DEF Sent, ToSet
  <2> QED
    BY <2>1 DEF EveryLayoutOpens
<1>9. NoOtherKeyTaken'
  BY <1>1, <1>4 DEF NoOtherKeyTaken
<1> QED
  BY <1>5, <1>6, <1>7, <1>8, <1>9 DEF PlanInv

\* Before the first request, and along every step.
LEMMA PlanInit == LayoutInit => PlanInv
<1> SUFFICES ASSUME LayoutInit PROVE PlanInv
  OBVIOUS
<1>1. /\ madeFor = <<>> /\ turn = 0 /\ plan = <<>> /\ wanted = NoKey
  BY DEF LayoutInit
<1>2. LayoutTypes
  BY <1>1 DEF LayoutInit, LayoutTypes
<1>3. ToSet(plan) = {}
  BY <1>1 DEF ToSet
<1> QED
  BY <1>1, <1>2, <1>3 DEF PlanInv, MidLoop, PlansFit, EveryLayoutOpens, NoOtherKeyTaken, Planned

LEMMA PlanNext == PlanInv /\ [LayoutNext]_layoutVars => PlanInv'
<1> SUFFICES ASSUME PlanInv, [LayoutNext]_layoutVars PROVE PlanInv'
  OBVIOUS
<1>1. CASE UNCHANGED <<keymap, library, wanted, madeFor, turn, plan>>
  <2>1. Sent' = Sent /\ KeycodeFor(madeFor, wanted)' = KeycodeFor(madeFor, wanted)
    BY <1>1, SentStays
  <2>2. LayoutTypes' /\ MidLoop'
    BY <1>1, <2>1 DEF PlanInv, LayoutTypes, MidLoop, Covers
  <2>3. PlansFit' /\ EveryLayoutOpens' /\ NoOtherKeyTaken'
    BY <1>1, <2>1 DEF PlanInv, PlansFit, EveryLayoutOpens, NoOtherKeyTaken, Planned
  <2> QED
    BY <2>2, <2>3 DEF PlanInv
<1> QED
  BY <1>1, RequestKeeps, LookUpKeeps, CutKeeps, SurpriseKeeps DEF LayoutNext, SetSources, layoutVars

LEMMA PlanInvariance == LayoutSpec => []PlanInv
<1> QED
  BY PlanInit, PlanNext, PTL DEF LayoutSpec

\* For every keymap and every list of layouts the plan is one that install() can carry out.
THEOREM PlansAlwaysFit == LayoutSpec => []PlansFit
<1>1. PlanInv => PlansFit
  BY DEF PlanInv
<1> QED
  BY <1>1, PlanInvariance, PTL

\* The key opens the window in every layout, whatever the layouts and their keysyms are.
THEOREM LayoutsAllOpen == LayoutSpec => []EveryLayoutOpens
<1>1. PlanInv => EveryLayoutOpens
  BY DEF PlanInv
<1> QED
  BY <1>1, PlanInvariance, PTL

\* No key is taken that this place on the keyboard does not send.
THEOREM OtherKeysStay == LayoutSpec => []NoOtherKeyTaken
<1>1. PlanInv => NoOtherKeyTaken
  BY DEF PlanInv
<1> QED
  BY <1>1, PlanInvariance, PTL
================================================================================
