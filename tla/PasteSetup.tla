------------------------------- MODULE PasteSetup ------------------------------
(***************************************************************************)
(* paste.py and cli.py: which helper can press Ctrl+V, what --status says  *)
(* about it, --setup-paste and --test-paste.  The helpers, the group, the  *)
(* permission on /dev/uinput, the daemon and its unit file are the host's  *)
(* and change behind the program's back; it only sees them through probes. *)
(* The setup lists its commands, waits for an answer, works the list out   *)
(* again and runs it; what it changed about the group is felt only by the  *)
(* next login.                                                             *)
(***************************************************************************)
EXTENDS Integers, FiniteSets, Sequences

CONSTANTS
    Hosts,   \* the hosts it runs on, in what stays as it is
    MaxLost  \* bound: kinds of things taken away during one command and until the next

HostFacts ==
    [session : {"wayland", "x11", "unknown"},  \* what detect_session answers
     named : BOOLEAN,                          \* USER or LOGNAME is set
     usermod : BOOLEAN, systemctl : BOOLEAN,   \* programs that are there
     pgrep : BOOLEAN,                          \* it is there and answers
     wtype : {"absent", "works", "refused"},   \* by the compositor
     keycodes : BOOLEAN]                       \* ydotool is 1.0 or later

ASSUME HostsAssumption == Hosts \subseteq HostFacts /\ MaxLost \in Nat

VARIABLES
    host,       \* one of Hosts
    installed,  \* the packages that are there
    member,     \* the user is in the input group, in /etc/group
    writable,   \* this session may write to /dev/uinput
    opened,     \* by chmod 666, until the next boot
    daemon,     \* ydotoold is running
    socket,     \* a socket file of ydotoold, which outlives it
    unit,       \* ydotoold.service of the user: none, other, ours
    enabled,    \* the unit is started at every login
    pc,         \* what the one command that runs is doing
    shown,      \* the steps the user was shown
    todo,       \* the steps run_setup has left
    failed,     \* the steps that failed
    lost,       \* the root steps that would bring back what was taken away since the last
                \* command began
    verdict,    \* how the last command ended
    tries,      \* the commands send_paste has left
    presses,    \* how often it has pressed Ctrl+V
    late        \* one of its commands ran into the timeout

hostVars == <<host, installed, member, writable, opened, daemon, socket, unit, enabled>>
setupVars == <<shown, todo, failed, lost>>
sendVars == <<tries, presses, late>>
pasteVars == <<hostVars, setupVars, sendVars, pc, verdict>>

Packages == {"ydotool", "ydotoold", "xdotool"}

PasteInit ==
    /\ host \in Hosts
    /\ installed \in {{}, {"ydotool"}, Packages}
    /\ member \in BOOLEAN /\ writable = FALSE /\ opened = FALSE
    /\ daemon = FALSE /\ socket \in BOOLEAN
    /\ unit \in {"none", "other"} /\ enabled = FALSE
    /\ pc = "idle" /\ verdict = "none"
    /\ shown = {} /\ todo = {} /\ failed = {} /\ lost = {}
    /\ tries = <<>> /\ presses = 0 /\ late = FALSE

--------------------------------------------------------------------------------
(* Probing *)

Tools == {"ydotool", "wtype", "xdotool"}

\* paste_tools: those that are there
PasteTools ==
    {tool \in Tools : IF tool = "wtype" THEN host.wtype # "absent" ELSE tool \in installed}

\* and the most promising first
ToolOrder ==
    IF host.session = "wayland" THEN <<"ydotool", "wtype", "xdotool">>
                                ELSE <<"xdotool", "ydotool", "wtype">>

\* ydotoold_running: pgrep knows; without an answer from it, a socket file is believed
DaemonSeen ==
    CASE "ydotool" \notin installed -> "unknown"
      [] "ydotool" \in installed /\ host.pgrep -> IF daemon THEN "yes" ELSE "no"
      [] OTHER -> IF socket THEN "yes" ELSE "unknown"

\* usable_tools
UsableTools ==
    {tool \in PasteTools :
        /\ ~(tool = "xdotool" /\ host.session = "wayland")
        /\ ~(tool = "wtype" /\ host.wtype = "refused")
        /\ ~(tool = "ydotool" /\ DaemonSeen = "no" /\ ~writable)}

--------------------------------------------------------------------------------
(* --setup-paste *)

\* the steps a setup can have, in the order in which it runs them
SetupOrder == [ydotool |-> 1, ydotoold |-> 2, xdotool |-> 3, usermod |-> 4, reload |-> 5,
               enable |-> 6]
AllSteps == DOMAIN SetupOrder
Sudo == Packages \cup {"usermod"}

\* joining the group may fail like a package that this release lacks
Optional_Group == {"ydotoold", "xdotool", "usermod"}

Optional == {"ydotoold", "xdotool"}

\* setup_steps
SetupSteps ==
    {step \in AllSteps :
        \/ step \in Packages \ installed
        \/ step = "usermod" /\ host.named /\ ~writable /\ ~member /\ host.usermod
        \/ step \in {"reload", "enable"} /\ host.systemctl /\ DaemonSeen # "yes"}

\* the list leaves out what may fail
Shown_Required == SetupSteps \ Optional

Shown == SetupSteps

\* cmd_setup_paste up to its question
Plan ==
    /\ pc = "idle"
    /\ IF SetupSteps = {} THEN pc' = "idle" /\ verdict' = "nothing" /\ UNCHANGED shown
                            ELSE pc' = "asking" /\ verdict' = "none" /\ shown' = Shown
    /\ presses' = 0 /\ late' = FALSE /\ lost' = {}
    /\ UNCHANGED <<hostVars, tries, todo, failed>>

\* no terminal, end of input, or anything but yes
Decline ==
    /\ pc = "asking"
    /\ pc' = "idle" /\ verdict' = "declined" /\ shown' = {}
    /\ UNCHANGED <<hostVars, todo, failed, lost, sendVars>>

\* run_setup: the unit file, which need not succeed, and the steps once more
Accept ==
    /\ pc = "asking"
    /\ pc' = "setup"
    /\ unit' \in {unit, "ours"}
    /\ todo' = SetupSteps /\ failed' = {}
    /\ UNCHANGED <<host, installed, member, writable, opened, daemon, socket, enabled, shown,
                   lost, verdict, sendVars>>

\* what a command does to the host; a daemon that cannot open /dev/uinput dies
Effect(step) ==
    /\ installed' = installed \cup ({step} \cap Packages)
    /\ member' = (member \/ step = "usermod")
    /\ enabled' = (enabled \/ step = "enable")
    /\ daemon' = (daemon \/ (step = "enable" /\ unit = "ours" /\ "ydotoold" \in installed /\ writable))
    /\ socket' = (socket \/ daemon')
    /\ UNCHANGED <<host, writable, opened, unit>>

\* a step that ran into its timeout counts as failed and may have done its work all the same
RunStep ==
    /\ pc = "setup"
    /\ \E step \in todo :
        /\ \A other \in todo : SetupOrder[step] <= SetupOrder[other]
        /\ todo' = todo \ {step}
        /\ \/ /\ step = "enable" => unit # "none"
              /\ Effect(step) /\ UNCHANGED failed
           \/ /\ Effect(step) \/ UNCHANGED hostVars
              /\ failed' = failed \cup {step}
    /\ UNCHANGED <<pc, shown, lost, verdict, sendVars>>

\* nothing is said of the group that has to take effect
Report_Unchecked ==
    /\ pc = "setup" /\ todo = {}
    /\ pc' = "idle" /\ shown' = {} /\ failed' = {}
    /\ verdict' = IF failed \ Optional # {} THEN "failed" ELSE "done"
    /\ UNCHANGED <<hostVars, todo, lost, sendVars>>

\* cmd_setup_paste after run_setup
Report ==
    /\ pc = "setup" /\ todo = {}
    /\ pc' = "idle" /\ shown' = {} /\ failed' = {}
    /\ verdict' = IF failed \ Optional # {} THEN "failed" ELSE IF writable THEN "done" ELSE "log in again"
    /\ UNCHANGED <<hostVars, todo, lost, sendVars>>

--------------------------------------------------------------------------------
(* --test-paste *)

\* ydotool_uses_keycodes: 1.x does; what cannot be found out counts as 0.1, which takes names
UsesKeycodes == {host.keycodes, FALSE}

\* paste_candidates
Candidates(tool, asCodes) ==
    CASE tool \notin PasteTools -> <<>>
      [] tool \in PasteTools \ {"ydotool"} -> <<[tool |-> tool, codes |-> FALSE]>>
      [] OTHER -> <<[tool |-> tool, codes |-> asCodes], [tool |-> tool, codes |-> ~asCodes]>>

\* cmd_test_paste up to send_paste
TestPaste ==
    /\ pc = "idle"
    /\ presses' = 0 /\ late' = FALSE /\ lost' = {}
    /\ IF UsableTools = {}
       THEN pc' = "idle" /\ verdict' = "cannot" /\ UNCHANGED tries
       ELSE /\ pc' = "send" /\ verdict' = "none"
            /\ \E asCodes \in UsesKeycodes :
                  tries' = Candidates(ToolOrder[1], asCodes) \o Candidates(ToolOrder[2], asCodes)
                             \o Candidates(ToolOrder[3], asCodes)
    /\ UNCHANGED <<hostVars, shown, todo, failed>>

Reaches(tool) ==
    CASE tool = "xdotool" -> host.session # "wayland"
      [] tool = "wtype" -> host.wtype = "works"
      [] OTHER -> daemon \/ writable

\* the command can press the key: the wrong form does nothing and says that all is well
Presses(try) == Reaches(try.tool) /\ (try.tool = "ydotool" => try.codes = host.keycodes)

\* all the commands are tried
Try_All ==
    /\ pc = "send" /\ tries # <<>>
    /\ tries' = Tail(tries)
    /\ presses' = presses + (IF Presses(Head(tries)) THEN 1 ELSE 0)
    /\ UNCHANGED <<hostVars, setupVars, pc, verdict, late>>

\* send_paste, one command: it ends well, ends badly, or is killed after the timeout.
\* ydotool and, through XWayland, xdotool also end well when nothing was pressed.
Try ==
    /\ pc = "send" /\ tries # <<>>
    /\ \/ /\ Presses(Head(tries)) \/ Head(tries).tool # "wtype"
          /\ presses' = presses + (IF Presses(Head(tries)) THEN 1 ELSE 0)
          /\ pc' = "idle" /\ verdict' = "pressed" /\ tries' = <<>>
          /\ UNCHANGED late
       \/ /\ tries' = Tail(tries)
          /\ UNCHANGED <<pc, verdict>>
          /\ \/ UNCHANGED <<presses, late>>
             \/ /\ presses' \in {presses, presses + (IF Presses(Head(tries)) THEN 1 ELSE 0)}
                /\ late' = TRUE
    /\ UNCHANGED <<hostVars, setupVars>>

GiveUp ==
    /\ pc = "send" /\ tries = <<>>
    /\ pc' = "idle" /\ verdict' = "not pressed"
    /\ UNCHANGED <<hostVars, setupVars, sendVars>>

--------------------------------------------------------------------------------
(* The host *)

\* a program installed in another terminal, a daemon started or killed, the chmod that
\* paste_notes advises
Gain ==
    /\ \/ /\ \E p \in Packages \ installed : installed' = installed \cup {p}
          /\ UNCHANGED <<daemon, socket, writable, opened>>
       \/ /\ "ydotoold" \in installed /\ ~daemon
          /\ daemon' = TRUE /\ socket' = TRUE
          /\ UNCHANGED <<installed, writable, opened>>
       \/ /\ daemon /\ daemon' = FALSE
          /\ UNCHANGED <<installed, socket, writable, opened>>
       \/ /\ writable' = TRUE /\ opened' = TRUE
          /\ UNCHANGED <<installed, daemon, socket>>
    /\ UNCHANGED <<host, member, unit, enabled, pc, verdict, setupVars, sendVars>>

\* a program removed, the user taken out of the group, the permission withdrawn
Loss ==
    /\ \E step \in Sudo :
        /\ lost' = lost \cup {step} /\ Cardinality(lost') <= MaxLost
        /\ \/ /\ step \in installed /\ installed' = installed \ {step}
              /\ UNCHANGED <<member, writable, opened>>
           \/ /\ step = "usermod" /\ member /\ member' = FALSE
              /\ UNCHANGED <<installed, writable, opened>>
           \/ /\ step = "usermod" /\ writable /\ writable' = FALSE /\ opened' = FALSE
              /\ UNCHANGED <<installed, member>>
    /\ UNCHANGED <<host, daemon, socket, unit, enabled, pc, verdict, shown, todo, failed,
                   sendVars>>

Meanwhile == Gain \/ Loss

\* logging in again, after a boot or not: the commands of the old session are gone
Login ==
    /\ opened' \in {opened, FALSE}
    /\ writable' = (member \/ opened')
    /\ daemon' = (enabled /\ unit = "ours" /\ "ydotoold" \in installed /\ writable')
    /\ socket' = daemon'
    /\ pc' = "idle" /\ shown' = {} /\ todo' = {} /\ failed' = {}
    /\ tries' = <<>> /\ presses' = 0 /\ late' = FALSE
    /\ UNCHANGED <<host, installed, member, unit, enabled, verdict, lost>>

PasteNext == Plan \/ Decline \/ Accept \/ RunStep \/ Report \/ TestPaste \/ Try \/ GiveUp
             \/ Meanwhile \/ Login

PasteSpec == PasteInit /\ [][PasteNext]_pasteVars

--------------------------------------------------------------------------------
(* Properties *)

\* The setup works its steps out twice, before the question and after it.  Of what it then
\* runs as root the user was shown every step, but those that put back what was taken away
\* in between: run_setup does not ask again.
RootStepsWereShown == pc = "setup" => todo \cap Sudo \subseteq shown \cup lost

\* "log out and back in once, then Win+V pastes": after a setup that ended so, the next login
\* has a ydotool that works; where the user has a name, there is a usermod, and neither the
\* program nor the permission was taken away since the setup began.
LoginCompletesSetup ==
    [][Login /\ verdict = "log in again" /\ host.named /\ host.usermod
          /\ lost \cap {"ydotool", "usermod"} = {} =>
         "ydotool" \in installed' /\ Reaches("ydotool")']_pasteVars

\* "done - Win+V now pastes" and "nothing to do - pasting already works" are said only when
\* ydotool works, whatever was installed, started, stopped or withdrawn while the user was
\* asked and the commands ran; the first one unless ydotool itself was removed behind them,
\* the second one where systemctl and pgrep can tell.
SetupSaysTrue ==
    [][verdict' # verdict
          /\ (\/ verdict' = "done" /\ "ydotool" \notin lost
              \/ verdict' = "nothing" /\ host.systemctl /\ host.pgrep) =>
         "ydotool" \in installed /\ Reaches("ydotool")]_pasteVars

\* Ctrl+V is pressed once, unless a command was killed after it had pressed the key.
PressedOnce == presses <= 1 \/ late

================================================================================
