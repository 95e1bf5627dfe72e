--------------------------- MODULE ShortcutRegistry ----------------------------
(***************************************************************************)
(* shortcut.py: install() and uninstall() of the GNOME shortcut.  GNOME    *)
(* keeps a list of shortcut paths and, per path, a command and a key; the  *)
(* program rewrites both with "gsettings get" and "gsettings set", one     *)
(* process per value, while the user edits the same list in Settings.      *)
(* Every get or set may fail; a set that timed out may have been applied.  *)
(* The whole run may be killed between two of them.                        *)
(*                                                                         *)
(* The list is a set: only membership matters to the properties.  A path   *)
(* of ours is the number of its slot; the name of a shortcut, which is     *)
(* only displayed, is left out (its failing write is a failing command).   *)
(***************************************************************************)
EXTENDS Integers, Sequences, FiniteSets

CONSTANTS
    UserPaths,       \* paths of the shortcuts made by hand in Settings
    MaxExtraSlots,   \* MAX_EXTRA_SLOTS
    Bindings,        \* accelerators
    DefaultBinding,  \* <Super>v, the key GNOME's tray shortcut comes with
    NoBinding,       \* an empty accelerator
    Within,          \* <<b, c>>: the text of b occurs in that of c
    Plans            \* the bindings install() may be asked to register, main one first

Slots == 0 .. MaxExtraSlots

RegistryAssumption ==
    /\ MaxExtraSlots \in Nat
    /\ UserPaths \cap Nat = {}
    /\ DefaultBinding \in Bindings
    /\ NoBinding \notin Bindings
    /\ Within \subseteq Bindings \X Bindings /\ \A b \in Bindings : <<b, b>> \in Within
    /\ \A plan \in Plans : plan \in Seq(Bindings) /\ Len(plan) \in 1 .. MaxExtraSlots + 1
    /\ \A plan \in Plans : \A i \in 2 .. Len(plan) : plan[i] # plan[1]

ASSUME RegistryAssumption

Paths == UserPaths \cup Slots
KEY_PATH == 0

\* command: does it run this program, something else, or is it unset
Keys == [command : {"ours", "theirs", "none"}, binding : Bindings \cup {NoBinding}]
NoKeys == [command |-> "none", binding |-> NoBinding]

VARIABLES
    list,  \* custom-keybindings: the paths GNOME listens to
    keys,  \* keys[p]: command and binding of path p, listed or not
    tray,  \* the key of GNOME's tray shortcut (toggle-message-tray)
    job    \* the install() or uninstall() under way, or the last one

vars == <<list, keys, tray, job>>

\* at: the slot being written; failed: some slot write failed; paths: the list
\* as it was read; todo: paths to take off; clean: no call has failed; alone:
\* nobody else has edited anything since the start; start: the list at the start
\* of a run nobody interferes with
Pcs == {"idle", "command", "binding", "read", "classify", "write", "conflict",
        "forget", "foreign", "takeread", "takewrite", "reload", "touchread",
        "touchdrop", "touchfull", "trayread", "trayback"}

Job == [op : {"none", "install", "uninstall"}, pc : Pcs,
        plan : Plans \cup {<<>>}, take : BOOLEAN, at : Slots, failed : BOOLEAN,
        paths : SUBSET Paths, todo : SUBSET Paths, ok : BOOLEAN,
        clean : BOOLEAN, alone : BOOLEAN, start : SUBSET Paths]

NoJob == [op |-> "none", pc |-> "idle", plan |-> <<>>, take |-> FALSE, at |-> 0,
          failed |-> FALSE, paths |-> {}, todo |-> {}, ok |-> FALSE,
          clean |-> FALSE, alone |-> FALSE, start |-> {}]

TypeOK ==
    /\ list \subseteq Paths
    /\ keys \in [Paths -> Keys]
    /\ tray \in Bindings \cup {NoBinding}
    /\ job \in Job

\* a fresh GNOME session: no shortcut of ours, the tray has its default key
Init ==
    /\ list = {}
    /\ keys = [p \in Paths |-> NoKeys]
    /\ tray = DefaultBinding
    /\ job = NoJob

-----------------------------------------------------------------------------
(* gsettings: how a call may end, and what it leaves.                      *)

Outcomes == {"done", "refused", "late"}  \* late: timed out, and applied
Applied(o) == o # "refused"

At(pc) == job.pc = pc

\* the run goes on with fields f; a failure ends its being clean
Goto(pc, j, o) == job' = [j EXCEPT !.pc = pc, !.clean = @ /\ o = "done"]

\* the run returns
Return(ok, o) ==
    job' = [NoJob EXCEPT !.op = job.op, !.plan = job.plan, !.take = job.take,
                         !.ok = ok, !.start = job.start,
                         !.alone = job.alone, !.clean = job.clean /\ o = "done"]

\* parse_list(get_value(...)): a failed read is an empty list
ListRead(o) == IF o = "done" THEN list ELSE {}

SetList(new, o) ==
    list' = IF Applied(o) THEN new ELSE list

Ours == {i \in Slots : i < Len(job.plan)}

\* owns_binding on every path read, where the paths in unread did not answer
Owned(unread) == {p \in job.paths \ unread : keys[p].command = "ours"}

\* duplicates are found by slot name only, as the slots of this plan are
Duplicates_SlotsOnly(unread) ==
    IF job.op = "install" THEN (Owned(unread) \cap Slots) \ Ours
    ELSE Owned(unread) \cup (job.paths \cap {KEY_PATH})

\* the owned paths that are not part of this plan
Duplicates(unread) ==
    IF job.op = "install" THEN Owned(unread) \ Ours
    ELSE Owned(unread) \cup (job.paths \cap {KEY_PATH})

\* foreign_bindings: other listed paths that answer to the main binding
Foreign(unread) ==
    {p \in list \ (unread \cup {KEY_PATH}) : keys[p].binding = job.plan[1]}

-----------------------------------------------------------------------------
(* install(): the slots first, then the list.                              *)

Install(plan, take) ==
    /\ At("idle")
    /\ job' = [NoJob EXCEPT !.op = "install", !.pc = "command", !.plan = plan,
                            !.take = take, !.clean = TRUE, !.alone = TRUE, !.start = list]
    /\ UNCHANGED <<list, keys, tray>>

WriteCommand(o) ==
    /\ At("command")
    /\ keys' = IF Applied(o) THEN [keys EXCEPT ![job.at].command = "ours"] ELSE keys
    /\ Goto("binding", [job EXCEPT !.failed = @ \/ o # "done"], o)
    /\ UNCHANGED <<list, tray>>

\* the list is written although a slot was rejected
WriteBinding_Unchecked(o) ==
    /\ At("binding")
    /\ keys' = IF Applied(o)
               THEN [keys EXCEPT ![job.at].binding = job.plan[job.at + 1]] ELSE keys
    /\ IF job.at + 1 = Len(job.plan) THEN Goto("read", job, o)
       ELSE Goto("command", [job EXCEPT !.at = @ + 1], o)
    /\ UNCHANGED <<list, tray>>

\* the slot after this one, or the list; a rejected value stops before the list
WriteBinding(o) ==
    /\ At("binding")
    /\ keys' = IF Applied(o)
               THEN [keys EXCEPT ![job.at].binding = job.plan[job.at + 1]] ELSE keys
    /\ LET failed == job.failed \/ o # "done"
           last == job.at + 1 = Len(job.plan)
       IN  \/ /\ ~last
              /\ Goto("command", [job EXCEPT !.failed = failed, !.at = @ + 1], o)
           \/ /\ last /\ failed
              /\ Return(FALSE, o)
           \/ /\ last /\ ~failed
              /\ Goto("read", job, o)
    /\ UNCHANGED <<list, tray>>

-----------------------------------------------------------------------------
(* Both: read the list, take our duplicates off it, write it.              *)

Uninstall ==
    /\ At("idle")
    /\ job' = [NoJob EXCEPT !.op = "uninstall", !.pc = "read",
                            !.clean = TRUE, !.alone = TRUE, !.start = list]
    /\ UNCHANGED <<list, keys, tray>>

ReadList(o) ==
    /\ At("read")
    /\ Goto("classify", [job EXCEPT !.paths = ListRead(o)], o)
    /\ UNCHANGED <<list, keys, tray>>

Classify(unread) ==
    /\ At("classify")
    /\ unread \subseteq job.paths
    /\ Goto("write", [job EXCEPT !.todo = Duplicates(unread)],
            IF unread = {} THEN "done" ELSE "refused")
    /\ UNCHANGED <<list, keys, tray>>

\* uninstall() that knows the main slot only
Kept_MainSlotOnly ==
    IF job.op = "install" THEN (job.paths \ job.todo) \cup Ours
    ELSE job.paths \ {KEY_PATH}

Kept == (job.paths \ job.todo) \cup (IF job.op = "install" THEN Ours ELSE {})

AfterList == IF job.op = "install" THEN "conflict" ELSE "forget"

\* install() writes a list whose order alone differs, too
WriteList(o) ==
    /\ At("write")
    /\ job.op = "install" \/ Kept # job.paths
    /\ SetList(Kept, o)
    /\ IF o = "done" THEN Goto(AfterList, job, o) ELSE Return(FALSE, o)
    /\ UNCHANGED <<keys, tray>>

SkipList ==
    /\ At("write")
    /\ Kept = job.paths
    /\ Goto(AfterList, job, "done")
    /\ UNCHANGED <<list, keys, tray>>

\* forget_slots without is_our_slot
ForgetKeys_AnyPath(p, o, left) ==
    IF o = "done" \/ left = "none" THEN [keys EXCEPT ![p] = NoKeys]
    ELSE IF left = "binding" THEN [keys EXCEPT ![p].command = "none"] ELSE keys

\* forget_slots, one path: name, command and binding are reset while that works
ForgetKeys(p, o, left) ==
    IF p \notin Slots THEN keys
    ELSE [keys EXCEPT ![p] = CASE o = "done" -> NoKeys
                               [] o # "done" /\ left = "both" -> @
                               [] o # "done" /\ left = "binding" -> [@ EXCEPT !.command = "none"]
                               [] OTHER -> NoKeys]

Forget(p, o, left) ==
    /\ At("forget")
    /\ p \in job.todo
    /\ keys' = ForgetKeys(p, o, left)
    /\ Goto("forget", [job EXCEPT !.todo = @ \ {p}], o)
    /\ UNCHANGED <<list, tray>>

Forgotten ==
    /\ At("forget")
    /\ job.todo = {}
    /\ Goto(IF job.op = "install" THEN "foreign" ELSE "trayread", job, "done")
    /\ UNCHANGED <<list, keys, tray>>

-----------------------------------------------------------------------------
(* install(): GNOME's own shortcut, the user's, and the daemon.            *)

\* conflicts(), which looks for the text of the key, and _disable_shell_conflict
Conflict(readOutcome, o) ==
    /\ At("conflict")
    /\ LET clash == readOutcome = "done" /\ <<job.plan[1], tray>> \in Within
       IN  /\ tray' = IF clash /\ Applied(o) THEN NoBinding ELSE tray
           /\ Goto("forget", job,
                   IF readOutcome # "done" THEN readOutcome
                   ELSE IF clash THEN o ELSE "done")
    /\ UNCHANGED <<list, keys>>

\* the user's shortcuts on our key are reported, or taken off on request
FindForeign(o, unread) ==
    /\ At("foreign")
    /\ LET foreign == IF o = "done" THEN Foreign(unread) ELSE {}
       IN  Goto(IF job.take /\ foreign # {} THEN "takeread" ELSE "reload",
                [job EXCEPT !.todo = foreign], IF unread = {} THEN o ELSE "refused")
    /\ UNCHANGED <<list, keys, tray>>

TakeRead(o) ==
    /\ At("takeread")
    /\ Goto("takewrite", [job EXCEPT !.paths = ListRead(o)], o)
    /\ UNCHANGED <<list, keys, tray>>

\* remove_paths; a failure is logged and the run goes on
TakeWrite(o) ==
    /\ At("takewrite")
    /\ IF job.paths \cap job.todo = {} THEN UNCHANGED list
       ELSE SetList(job.paths \ job.todo, o)
    /\ Goto("reload", job, o)
    /\ UNCHANGED <<keys, tray>>

\* refresh_media_keys: systemd reloads the daemon, or the daemon is dead and
\* gets woken; otherwise the list is touched.  report.ok is already TRUE.
Reload ==
    /\ At("reload")
    /\ \/ Return(TRUE, "done")
       \/ Goto("touchread", job, "done")
    /\ UNCHANGED <<list, keys, tray>>

\* _touch_keybindings: without our path, then with it
TouchRead(o) ==
    /\ At("touchread")
    /\ LET paths == ListRead(o)
       IN  IF paths = {} THEN Return(TRUE, o)
           ELSE Goto(IF KEY_PATH \in paths THEN "touchdrop" ELSE "touchfull",
                     [job EXCEPT !.paths = paths], o)
    /\ UNCHANGED <<list, keys, tray>>

TouchDrop(o) ==
    /\ At("touchdrop")
    /\ SetList(job.paths \ {KEY_PATH}, o)
    /\ IF o = "done" THEN Goto("touchfull", job, o) ELSE Return(TRUE, o)
    /\ UNCHANGED <<keys, tray>>

TouchFull(o) ==
    /\ At("touchfull")
    /\ SetList(job.paths, o)
    /\ Return(TRUE, o)
    /\ UNCHANGED <<keys, tray>>

-----------------------------------------------------------------------------
(* uninstall(): GNOME's tray shortcut is given back when it is empty.      *)

TrayRead(o) ==
    /\ At("trayread")
    /\ IF o = "done" /\ tray = NoBinding THEN Goto("trayback", job, o) ELSE Return(TRUE, o)
    /\ UNCHANGED <<list, keys, tray>>

TrayBack(o) ==
    /\ At("trayback")
    /\ tray' = IF Applied(o) THEN DefaultBinding ELSE tray
    /\ Return(TRUE, o)
    /\ UNCHANGED <<list, keys>>

-----------------------------------------------------------------------------
(* The environment: the user in Settings, who edits shortcuts made by hand *)
(* and the tray's key; a run that is killed.                               *)

Disturbed == job' = [job EXCEPT !.alone = FALSE, !.start = {}]

AddShortcut(u, k) ==
    /\ u \notin list
    /\ list' = list \cup {u}
    /\ keys' = [keys EXCEPT ![u] = k]
    /\ Disturbed
    /\ UNCHANGED tray

DeleteShortcut(u) ==
    /\ u \in list
    /\ list' = list \ {u}
    /\ keys' = [keys EXCEPT ![u] = NoKeys]
    /\ Disturbed
    /\ UNCHANGED tray

ChooseTrayKey(b) ==
    /\ tray' = b
    /\ Disturbed
    /\ UNCHANGED <<list, keys>>

Killed ==
    /\ ~At("idle")
    /\ job' = NoJob
    /\ UNCHANGED <<list, keys, tray>>

User ==
    \/ \E u \in UserPaths :
          \/ \E c \in {"ours", "theirs"}, b \in Bindings :
                AddShortcut(u, [command |-> c, binding |-> b])
          \/ DeleteShortcut(u)
    \/ \E b \in Bindings \cup {NoBinding} : ChooseTrayKey(b)

Next ==
    \/ \E plan \in Plans, take \in BOOLEAN : Install(plan, take)
    \/ Uninstall
    \/ \E o \in Outcomes :
          \/ WriteCommand(o)
          \/ WriteBinding(o)
          \/ ReadList(o)
          \/ WriteList(o)
          \/ TakeRead(o)
          \/ TakeWrite(o)
          \/ TouchRead(o)
          \/ TouchDrop(o)
          \/ TouchFull(o)
          \/ TrayRead(o)
          \/ TrayBack(o)
          \/ \E r \in Outcomes : Conflict(r, o)
          \/ \E unread \in SUBSET Paths : FindForeign(o, unread)
          \/ \E p \in Paths, left \in {"both", "binding", "none"} : Forget(p, o, left)
    \/ \E unread \in SUBSET Paths : Classify(unread)
    \/ SkipList
    \/ Forgotten
    \/ Reload
    \/ User
    \/ Killed

Spec == Init /\ [][Next]_vars

-----------------------------------------------------------------------------
(* Properties                                                              *)

\* Whatever fails, whoever edits and wherever the run is killed: a listed
\* slot of ours has a command that runs us and a binding.  The daemon reads
\* both when the list changes, so a slot listed too early, or emptied before
\* it is off the list, is a registered shortcut that does nothing
\* (shortcut.py:601-605).
ListedSlotsAnswer ==
    \A s \in list \cap Slots : keys[s].command = "ours" /\ keys[s].binding # NoBinding

\* A shortcut made by hand is never emptied, not even one that runs our
\* command (shortcut.py:193-199, CHANGELOG.md:28-30): its keys change only in
\* a step that puts it on the list or takes it off, which is the user's.
HandMadeKeysStay ==
    [][\A u \in UserPaths : keys'[u] # keys[u] => (u \in list) # (u \in list')]_vars

\* An install() that met no failure and no other editor leaves on the list
\* exactly the slots of its plan and the user's other shortcuts: no duplicate
\* that runs us, no slot of an older plan, nothing of the user's lost - also
\* when the list was touched to make the daemon reload.
QuietInstallConverges ==
    (At("idle") /\ job.op = "install" /\ job.ok /\ job.clean /\ job.alone) =>
        list = Ours \cup
               {u \in job.start \cap UserPaths :
                    /\ keys[u].command # "ours"
                    /\ job.take => keys[u].binding # job.plan[1]}

\* An uninstall() that met no failure and no other editor leaves nothing of
\* ours: no path that runs us is listed and the slots that were listed are empty (README.md:155-156).
QuietUninstallLeavesNothing ==
    (At("idle") /\ job.op = "uninstall" /\ job.ok /\ job.clean /\ job.alone) =>
        /\ list = {u \in job.start \cap UserPaths : keys[u].command # "ours"}
        /\ \A s \in job.start \cap Slots : keys[s] = NoKeys
        /\ tray # NoBinding
================================================================================
