------------------------------- MODULE CommandLine ------------------------------
(***************************************************************************)
(* cli.py: which command an invocation runs.  The arguments are the set of *)
(* options that were given; the values of --binding, --delay and --item do *)
(* not decide.  --list 0 and --logs 0 are left out: validate_args takes    *)
(* the number for an option that was not given.                            *)
(***************************************************************************)
EXTENDS FiniteSets, Sequences, SequencesExt

\* APP_COMMANDS, in their order
APP_COMMANDS == <<"toggle", "show", "hide", "settings", "quit", "background">>

ACTION_GROUPS ==
    [window |-> ToSet(APP_COMMANDS),
     history |-> {"list", "clear"},
     integration |-> {"install", "uninstall", "install_shortcut", "remove_shortcut", "setup_paste"},
     diagnostics |-> {"status", "logs", "clear_logs", "collect_logs", "diagnose", "test_paste"}]

\* options that only make sense together with one of others; delay: another one than 5 seconds
Together ==
    [clear_all |-> {"clear"}, purge |-> {"uninstall"}, yes |-> {"setup_paste"},
     take_binding |-> {"install", "install_shortcut"}, binding |-> {"install", "install_shortcut"},
     delay |-> {"test_paste"}, item |-> {"test_paste"}]

Actions == UNION {ACTION_GROUPS[group] : group \in DOMAIN ACTION_GROUPS}
Options == Actions \cup DOMAIN Together \cup {"version", "debug"}

SelectedGroups(args) == {group \in DOMAIN ACTION_GROUPS : ACTION_GROUPS[group] \cap args # {}}

\* validate_args
Accepted(args) ==
    /\ Cardinality(SelectedGroups(args)) <= 1
    /\ \A option \in args \cap DOMAIN Together : Together[option] \cap args # {}
    /\ "setup_paste" \in args => args \cap ACTION_GROUPS.integration = {"setup_paste"}

\* _main: the first of them that was given
Precedence ==
    <<"version", "install_shortcut", "remove_shortcut", "setup_paste", "install", "uninstall",
      "clear_logs", "logs", "diagnose", "test_paste", "status", "collect_logs", "list", "clear">>
    \o APP_COMMANDS

Chosen(args) ==
    IF args \cap ToSet(Precedence) = {} THEN "toggle"
    ELSE Head(SelectSeq(Precedence, LAMBDA command : command \in args))

================================================================================
