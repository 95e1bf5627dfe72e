# Ubuntu Clipboard in TLA+

A formal model of Ubuntu Clipboard: what it does between two lines of code when
processes, threads, timers, GTK signals, `gsettings` calls and people interleave. The
modules are translated from the sources under `src/ubuntu_clipboard/`; TLC checks them
on small instances and TLAPS proves the most important properties for every instance.

## 1. The system

Ubuntu Clipboard is a clipboard history for GNOME. A background GTK application
watches the clipboard, records what is copied in an SQLite file, shows the history in a
popup opened with Super+V, puts a chosen item back on the clipboard and presses Ctrl+V
in the window the user came from. A command line (`ubuntu-clipboard --...`) works on the
same database, configuration file and GNOME shortcut from processes of its own.

| Component | Source | State | Operations |
| --- | --- | --- | --- |
| History store | `storage.py`, `models.py` | table `items`, `sqlite_sequence`, the write lock, an open transaction | `add_text/add_image/add_files`, `toggle_pin`, `touch`, `delete`, `clear`, `set_config`; the move of version 1's file, `_initialize`, `_upgrade`, connections per thread |
| Clipboard monitor | `monitor.py` | `_timeout_id`, `_suppress`, `_suppress_until`, `_token`, reads under way | `attach`, `detach`, `suppress`, `_on_changed`, `_read_now`, `_finish_*` |
| Choosing and pasting | `app.py`, `paste.py` | `_paste_token`, `_expected_text`, `_previous_window`, a timer and a thread per paste | `show_window`, `hide_window`, `paste_item`, `set_clipboard`, `_deliver_paste`, `_paste_worker`, `ensure_clipboard_text` |
| Shortcut registration | `shortcut.py` | GNOME's list of shortcuts, command and key of each path, the tray key | `install`, `uninstall`, `resolve_conflict`, `remove_paths`, `forget_slots`, `_touch_keybindings` |
| Configuration | `config.py`, `app.py`, `ui/settings.py`, `cli.py` | `config.json`, the objects of application and store, the save timer, the save guard, the pending reload | `load`, `save`, `normalize`, `_on_config_file_changed`, `_on_reset`, `--binding` |
| Popup window | `ui/window.py` | `_items`, the cards, `_selected`, `_refresh_pending`, queued `refresh_later` callbacks | `refresh`, `_rebuild`, `_on_search_changed`, keys, buttons of the cards, `_on_clear_clicked` |
| Dialogs | `ui/dialogs.py` | a nested main loop | `confirm` |
| Keyboard layouts | `keymap.py` | none; reads the input sources | `configured_layouts`, `keycode_for`, `binding_plan` |
| Paste tools and setup | `paste.py`, `cli.py` | none of its own; packages, group, daemon, unit file of the host | `usable_tools`, `send_paste`, `setup_steps`, `run_setup`, `--setup-paste`, `--test-paste` |
| Desktop integration | `install.py`, `shortcut.py` | icon, desktop and autostart files, the daemon `gsd-media-keys` | `install_all`, `uninstall_all`, `refresh_media_keys`, `_wake_media_keys` |
| Command line | `cli.py` | none | `validate_args`, `_main` |
| Shell, probing, log, i18n | `app.py`, `clipboard.py`, `log.py`, `i18n.py` | none that is shared | startup, signals, text |

How they interact:

- *Calls.* The monitor and the window call the store on the main thread; pasting calls
  `monitor.suppress()` (on the main thread and on the paste thread) and `store.touch`.
- *Shared state without locks.* `_paste_token`, `_expected_text`, `_previous_window` and
  the monitor's counter are used by the main thread and by paste threads.
- *Shared files.* The database and `config.json` are used by several processes; GNOME's
  shortcut list is also edited by Settings and read by the `gsd-media-keys` daemon.
- *Callbacks.* GTK's `changed`, the answers of asynchronous reads, timers, file monitor
  events; each runs to its end on the main thread, and anything may happen in between.

What makes it hard: bursts of clipboard changes and reads that answer late; writes
of its own that come back as changes, once per side; two selections (Wayland and X11)
that disagree; choices that overlap; calls that fail or time out half-way through a
rewrite of the shortcut list; a prune that sorts by wall clock; a save that is noticed
as if somebody else had made it. `PROJECT.json` lists these hazards at their lines.

What makes each component correct:

- *store*: a call happens at one instant or not at all; pins are never pruned and only
  the oldest rows leave; the history is bounded; an id never denotes another payload;
- *monitor*: the last thing copied is recorded, in order and once; own writes are not;
- *pasting*: Ctrl+V is sent only for the latest wish, after the text of that choice
  was compared with the clipboard, at most once, and every choice has an end;
- *shortcut*: a listed slot always answers, hand-made shortcuts are left alone, an
  undisturbed run reaches its goal exactly;
- *configuration*: no choice of the user is undone by the application's own save,
  edits of the file arrive repaired, reloading comes to an end;
- *popup*: the card that is highlighted is the item a key acts on, and a visible list
  does not stay behind the history;
- *history files*: whoever opens the history first moves and upgrades it, as a whole and
  without losing a row, and all connections have the same file open;
- *layouts*: one slot per key, every layout opens the window, no other key is taken;
- *setup*: nothing unshown runs as root, what it reports is true, one Ctrl+V is pressed;
- *installation*: a run without a failure is complete whatever came before it, and what
  it claims of the daemon holds.

## 2. Modules

| Module | What it is |
| --- | --- |
| `HistoryRows` | constants and operators shared by the two history modules: a table of rows and the statements on it |
| `BoundedHistory` | the abstract history: every operation atomic |
| `HistoryStore` | the writes of `storage.py`, one action per SQL statement, many processes; implements `BoundedHistory` |
| `HistoryFiles` | `HistoryStore.__init__` and the connections of `storage.py`, one action per file operation |
| `ClipboardMonitor` | `monitor.py` next to the clipboard and the paste thread |
| `PasteFlow` | `app.py` and `paste.py` from choosing to Ctrl+V |
| `PopupWindow` | `ui/window.py` and `ui/dialogs.py`: the list as a view of the history |
| `ShortcutRegistry` | `shortcut.py`, one action per `gsettings` call |
| `KeyboardLayouts` | `keymap.py` and the part of `install` that plans; its `PlansFit` is what `ShortcutRegistry` assumes of `Plans` |
| `PasteSetup` | `paste.py` and `cli.py`: probes, `--setup-paste`, `--test-paste` |
| `CommandLine` | `validate_args` and the choice of a command as functions of the set of options |
| `DesktopIntegration` | `install.py` and the daemon's reload in `shortcut.py`; takes its invocations from `CommandLine` |
| `ConfigSync` | `config.py`, `app.py`, `ui/settings.py`, `--binding` |
| `MC<module>` | the instances TLC checks; the `.cfg` of a run gives the constants |
| `<module>Proofs` | theorems and proofs about a module; `HistoryStoreProofs` has those of `HistoryRows` and `BoundedHistory` as well |
| `DesktopCommandsProofs` | theorems and proofs about `DesktopIntegration`, `PasteSetup` and `KeyboardLayouts` |

Names follow the source. An operator `X_Suffix` that stands before `X` is `X` with a
plausible mistake (a dropped guard, a missing reset); no specification uses it. Each
property of a passing run has one, listed under `mutants` in `PROJECT.json`: with `X_Suffix`
in the place of `X` TLC finds the property violated, so the property can fail.

### HistoryStore and BoundedHistory

A call of process `p` is the record `call[p]`: its operation, the statement it is at
and its locals. `Begin` is `BEGIN IMMEDIATE`: it takes `lock` and copies the committed
table into `txn`. `Upsert`, `Prune`, `ReadPin`, `EvictPins`, `UpdateRow` and `DeleteRows`
work on that copy, `Commit` publishes it, `Rollback` is the exception path of
`_transaction`, `BusyTimeout` the five seconds after which a waiting call raises, and
`Crash` a process that dies anywhere and starts again with some settings. `add_*` is
stamped *before* it asks for the lock; `touch` and `toggle_pin` after. An upsert that
meets a known fingerprint still advances `sqlite_sequence`. A call that changes a row
may name any id that was ever handed out, because windows and scripts keep ids.

`BoundedHistory` has one action per operation. `ImplementsBoundedHistory` maps `items`
to its `rows`: every statement stutters except `Commit`, which is one operation. The
limits are those of the calling process, and a limit below 1 counts as 1.

### ClipboardMonitor

`clip` is what GTK sees, numbered by generation. `Changed` is `_on_changed`: a pending timer
is replaced. `ReadNow` is `_read_now` with its early returns: an unexpired suppression is
used up and the content dropped, a marked content is skipped, anything else becomes an
asynchronous read with a new token. `Finish` may take the reads in any order. `OwnWrite` is
`set_clipboard`: `suppress()`, then a change GTK reports at once; `OwnWriteFails` is the
same without the change. `HelperWrites` and the three steps after it are a paste thread, and
each choice has one, so that several of `Workers` may be in there: a helper writes every
side, GTK hears of each later (`HelperNotice`), and `suppress()` runs on the thread.
`_suppress += max(0, count)` loads the counter, makes a call and stores the sum, so the main
thread can run in between: `SuppressLoad`, `SuppressStore`. The main thread's `_suppress -=
1` makes no call between load and store, where CPython may switch threads, and is one step.
Its own `suppress()` is one step too: when a worker overtakes it in the middle, one of the
two updates is lost, as when it overtakes the worker or two workers overtake each other.
`Lapse` is the end of the two seconds.

### PasteFlow

One choice per token. `main` is the handler the main thread is in, split where a thread
can observe it: `Choose`, `ClearExpected`, `LoadItem`, `Claim` are `paste_item` and
`set_clipboard`, `Deliver` the timer, `Start` to `Send` the worker thread with the reads
and writes of `ensure_clipboard_text`. `Open` bumps the token before it asks for the
active window (`Present`), because that call takes time. A write is published later and per side
(`Publish`); a foreign copy takes the clipboard away from GTK. Every content carries who
wrote it and for which choice (`Copy`), so that the item of an earlier choice is an old
selection of a later one, and what a late helper re-publishes is seen. `HelperWrite` writes
into a pipe that has no timeout (`paste.py:438`) and is the one step of a thread that need
not come. `fate` remembers how each
choice ended. What the window manager does with focus is nondeterministic.

### ShortcutRegistry

`job` is the run of `install` or `uninstall`: `WriteCommand` and `WriteBinding` for each
slot of the plan, then `ReadList`, `Classify` (one call per path, each may not answer),
`WriteList`, `Conflict`, `Forget`, `FindForeign`, `TakeRead`/`TakeWrite`, and
`TouchRead`/`TouchDrop`/`TouchFull` when the daemon has to be made to reload. Every call
ends `done`, `refused`, or `late` (timed out, but applied); `Killed` ends the run between
any two; `User` edits the list in Settings. The list is a set, since its order means
nothing. Slots are numbers, hand-made paths model values. The plan comes from
`keymap.binding_plan` and is a constant here; `Within` says which binding's text occurs in
which other's, because the tray's key is searched as a text (`shortcut.py:324`).

### ConfigSync

`file` is `config.json`, `app` the application's object, `own`/`shared` say whether the
store still uses the same object. `SetLater` and `SaveTimer` are the debounced widgets,
`SetNow` the drop-downs, `Reset` the reset button, `Save` the save with its guard,
`OwnEvent` and `Event` the file monitor, `Reload` the delayed reload, `Edit` an editor,
`CliLoad`/`CliSave` the command line. An event counts when its first name is `config.json`
(`app.py:494-497`). Writing into the file, creating it by hand and moving it away cause one;
`os.replace` may or may not (`Replaced`), since a move is reported with the temporary
file's name first. Loading creates a missing file and moves a broken one away
(`Reported`). `saveFailed` remembers an application's save that raised, after it had put
up the guard.

### HistoryFiles

Files are numbers and have a schema and rows; `path` and `legacy` are the names
`database_path()` and `legacy_database_path()` and may point to nothing. A process goes
through `Check` and `Move` (`_migrate_legacy_database_file`; the test and the `replace` are
two steps, and the file may be gone in between), `ConnectMain`, `Initialize`
(`BEGIN IMMEDIATE`, the version), `UpgradeRow` for each image and `UpgradeEnd`; the rows it
converts are in its transaction until then. A connection keeps its file when the name
goes (`Purge`), and the second thread's `ConnectWorker` opens what is at the path by then.
`Leave` is `close()` and the death of the process at any step. What the rows say is
`HistoryStore`'s; here a row is text, an image, or an image that cannot be decoded.

### PopupWindow

A row here is its id and its pin. A query is a set of positions of the table: `Kept` takes
the rows at some positions in their order, `Hits` are those the search finds, `PinnedFirst`
is `ORDER BY pinned DESC` and also how `_rebuild` makes its two sections. `history` is the
table in the order of `created_at`, `items` the window's `_items` and `rows` the cards, each
with the item its handlers were bound to. `Rebuild` and `SearchChanged` run `_rebuild`,
which may raise in `store.list` or half-way through the cards. A capture of what is there
makes its row the newest, except a pinned one, which keeps its place (`Renewed`). `Write` is
any write of this process: its listener queues a `RefreshLater`, which asks for a rebuild
only while the window is visible. `ForeignClear` is another process, of which nobody is
told. Keys act on `Selected`, buttons on `Carded`. While `dialog` is open only the window's
own handlers stand still. The configuration is in two objects, `windowKeep` and `storeKeep`,
that are the same one (`shared`) until a reset.

### KeyboardLayouts

`keymap` is any function from layouts and keys to keysyms; `SetSources` is the user, who
goes on while a plan is made. `BindingPlan` is `install` asking for a plan: it reads the
input sources once and finds the key. `LookUp` is one round of `_plan`'s loop over the
layouts, `WithSym` its candidates, `Add` the test for a repetition, `Cut` the limit of
`install`, and `Surprise` the exception after which only the key asked for is left. A
keysym has a name, a character and the marks of a Unicode keysym and of an ASCII
character, which decide how it may be spelled (`Typed`). The specification is `LayoutSpec`.

### PasteSetup

The specification is `PasteSpec`. `todo` and `shown` are sets of steps, taken in the order
`SetupOrder` that `setup_steps` appends them in. `host` is what stays as it is, the other
variables of the host change by setup steps, by `Login` and by `Meanwhile`, which gives
(`Gain`) and takes away (`Loss`) programs, group and permission at any time; `lost` are the
root steps that what was taken away since the command began has brought back; group
membership is felt by the next session only. `Plan` shows the steps, `Decline` or `Accept`
is the answer, `Accept` works the steps out again, `RunStep` runs one (a step that ran into
its timeout counts as failed and may have done its work), `Report` is the verdict.
`TestPaste` and `Try` are `send_paste`: tool by tool, form by form, until one exits with 0.
ydotool exits with 0 in either form and presses the key in the right one only; xdotool may
exit with 0 under Wayland, where it presses nothing.

### DesktopIntegration and CommandLine

`job.todo` holds the steps a command has left, taken in the order `StepNumber`; `Put`,
`Drop`, `PurgeConfig` are its files, `Register` and `Unregister` the shortcut (one step
here, its calls are `ShortcutRegistry`'s), `Reload` to `Spawn` the daemon. `knows` says
whether the daemon answers to the shortcut as it is registered; it forgets when it dies or
when the shortcut leaves the list, and reads the list when it starts. Errors end the command
or are passed over as in the code, `Kill` ends it anywhere. `clean` remembers whether
something failed or interfered, `misjudged` that a `pgrep` which failed or timed out took a
running daemon for a dead one; the next command starts on what was left.

## 3. Runs

Passing runs; the numbers of distinct states are TLC's.

| Run | Bounds | What it shows |
| --- | --- | --- |
| `store_two` | 2 processes, 2 payloads, 2 ids, 2 clock readings in any order, limits 0 to 2 (137 000 states) | atomicity: every call is one operation of `BoundedHistory` or nothing, the lock is held exactly in transactions, a transaction holds exactly its own statements (`IInv`), every call returns |
| `store_one` | 1 process, 4 payloads (two share a fingerprint), 5 ids, 6 increasing clock readings, settings that change (405 000 states) | with enough rows for prunes beside pins and for evictions: bounds, unique fingerprints, no id reused, `None` only for what is filtered |
| `history_files` | 2 processes of 2 threads, one row of each kind, 3 files (198 000 states) | no half upgraded file, one history for all, no row of version 1 lost |
| `monitor_records` | 2 paste threads, 2 sides, 3 changes, 2 own writes (2.3 million states) | order, nothing overlooked at rest, own writes unrecorded, recording resumes |
| `paste_runs` | 4 openings and choices, a text and an image, both sides read, one written by a helper, 2 rounds of verification (1.4 million states) | own text compared and written, old selection gone, one answer per choice, an open window holds back the pastes on their way, every choice ends unless a helper keeps its pipe full |
| `popup_list` | 2 rows, 2 queued notifications, a limit of 1 and a search that finds one row (825 000 states) | cards, items and highlight agree; no refresh is lost; a visible list catches up |
| `paste_setup` | 16 hosts: a usual one under Wayland and X11 and those that differ in one fact, one kind of thing taken away per command (8.9 million states) | what runs as root was shown or makes up for a loss since the question, the verdicts are true, the next login completes the setup, one press |
| `keyboard_layouts` | every keymap of 2 layouts, 2 keys and 4 keysyms or none; 2 input sources (748 000 states) | plans fit the slots, every layout opens the window, no other key is taken |
| `shortcut_runs` | 2 hand-made shortcuts, 2 slots, 2 keys, plans of one and two bindings, one of them contained in the other (1.2 million states) | listed slots answer, hand-made keys stay, undisturbed runs converge |
| `desktop_install` | invocations of up to two options, 2 looks at the daemon per wait (20 000 states) | clean runs are complete, a claimed reload is real but for two named cases, commands end |
| `config_sync` | 2 settings of 2 values, 4 changes (217 000 states) | own saves undo nothing, edits that are reported arrive, reloading ends |

Why the bounds are enough. Two processes are the least that can interfere, the lock is
symmetric and at most one is inside a transaction; the proofs lift this to any number. Two
rows with limits 1 and 2 meet a prune and an eviction, and `store_one` adds the rows for
which order, reuse and shared fingerprints matter. Three files are the two that may be there
and the one that a late process would make. Three changes and two own writes give a burst, a
read overtaken by another, two own writes in one burst and a lost update of the counter,
between the main thread and a worker or between two workers. Four tokens give a choice, a
reopening and a second choice while the first thread still runs; a text and an image give a
choice that is compared and one that is not, in either order; two rounds give the retry.
With a second text, so that both choices are compared and a late helper of the first races
the second, there are 5.7 million states: too many for a run with liveness. The safety
properties hold there too, and the proofs cover them for any number of texts, sides and
threads. Two rows are a pinned and an unpinned one in either order, a selection that runs
off the end, and a row the search hides; the limit of 200 is as many as there are rows and
never cuts. The setup looks at one fact of the host at a time, except at those the run
changes, and loses one kind of thing per command; the proofs have no such bound. Two keys
and two layouts give a keysym at two places, in two layouts, and in one only. Two slots and
two hand-made paths give a plan that shrinks, a duplicate, and a path that has to survive;
hand-made paths are interchangeable, which `SYMMETRY` uses (the run has no liveness
property). The real wait looks eight times; two have a first, a last and a look after the
last sleep. Four changes of the configuration give an edit, a save, a reload and a change in
between.

Bounds in the modules: `MaxId`, `MaxTime`, `MaxChanges`, `MaxWrites`, `MaxToken`,
`MaxQueued`, `MaxFiles`, `MaxSources`, `MaxLost` are guards of the actions that would
otherwise go on for ever; each is named where it is declared. When they are reached the
system stops in the model, hence `CHECK_DEADLOCK FALSE` in the monitor, paste and
configuration runs. The others never stop, and deadlock is checked there.

Fairness, only in the runs that check liveness:

- `HistoryStore`: a process inside a call keeps running and `busy_timeout` bounds its
  wait for the lock; nothing says that a call is made, fails or crashes;
- `ClipboardMonitor`: the main loop dispatches a timer that is due, and GTK answers every
  asynchronous read; nothing says that the user copies or that two seconds pass;
- `PasteFlow`: a handler ends, timers are dispatched, and a thread goes on (`Runs`), because
  the helpers it runs have a timeout. `HelperWrite` is not fair: a `wl-copy` or `xclip` that
  does not empty its pipe holds the thread (`paste.py:438`), and `EveryChoiceEnds` excepts a
  worker that waits there. Writes need not be published;
- `PopupWindow`: the main loop runs its idle callbacks (`Rebuild`, `RefreshLater`) and
  emits `search-changed`, in the nested loop of a dialog too; nothing of the user is fair;
- `DesktopIntegration`: a command goes on, because every subprocess has a timeout and the
  wait counts; the daemon need not come up;
- `ConfigSync`: timers and file events are dispatched; the end of the guard is not fair.

Assumptions about the outside: the event of an own save is delivered within the 1.5
seconds of the guard (`GuardEnds`); one installing or setting-up command runs at a time;
Settings edits hand-made shortcuts and not the program's slots; an SQLite transaction is
atomic and a rename is too; a second `gsd-media-keys` leaves at once.

## 4. Findings

`popup_clear` ends in a violation of what the program itself says. The dialog of the
clear button goes by the window's settings (`ui/window.py:486`) and says "Pinned items are
kept. Do you want to continue?" (`i18n.py:67`); `store.clear()` then reads
`keep_pinned_on_clear` again in the store's object (`storage.py:360`). After a reset
(`ui/settings.py:351`) the two are different objects, because `save_config` applies with
`reload_store=False`; and during the nested loop of `confirm` a reload can change both. TLC
shows pinned rows deleted after the promise. The same reset leaves capture and prune with
the old settings until the next reload from disk.

Other disagreements between the code and what is said about it, seen while modelling.
The models follow the code; the properties of the passing runs are stated so that they
hold there, and each restriction is one of these:

- `storage.py:284`: after the clock has stepped back the row that was just inserted is the
  oldest one and is pruned at once; `add_text` returns `None` although nothing was filtered
  (`storage.py:220`). A stamp taken before a wait for another process's lock does the same.
  `NoneOnlyWhenFiltered` is checked and proved for one process with `ClockStepsBack = FALSE`.
- `monitor.py:140`: a suppression counts debounced reads instead of notifications
  (`monitor.py:115`), so a user's copy can be taken for an own write and dropped; and a
  helper that writes two sides is announced once (`app.py:369`), so its second change may be
  recorded. `OwnWritesUnrecorded` is about writes through GTK.
- `app.py:340`: opening the window between the worker's last look at the token and
  `send_paste` does not cancel the paste (`CHANGELOG.md:58-59`).
- `paste.py:546`: between a worker's reading and its helper's write nobody looks at the token,
  so the helper of an earlier choice may publish its text after the worker of a later one
  has read its own back, and Ctrl+V pastes the earlier item. `OldSelectionGone` names the
  exception (`Overtakes`), and `ComparedOwnText` says that no helper writes a text earlier
  than its worker's choice.
- `paste.py:438`: the write into the helper's pipe has no timeout. A text longer than the
  pipe holds and a helper that does not read leave the choice without an end.
- `app.py:337`: focus moves before the clipboard has been verified (`CHANGELOG.md:59-60`).
- `shortcut.py:606`: a failed read of the shortcut list counts as an empty list, and
  `install` writes a list without the user's shortcuts (`README.md:156-157`).
- `shortcut.py:457`: when the second write of `_touch_keybindings` fails our slot is off the
  list, against its docstring (`shortcut.py:447-448`).
- `shortcut.py:404`: "The result is verified" (`shortcut.py:391`), but a `pgrep` that fails or
  times out counts as a dead daemon, the next one finds it alive, and "started
  gsd-media-keys again" is said of a daemon that reloaded nothing (`shortcut.py:420`).
  `ReloadIsVerified` names the exception (`misjudged`).
- `shortcut.py:402`: a daemon that has died since it was found is "asked" to reload through the
  list, and nobody looks whether it does. The other exception of `ReloadIsVerified`.
- `app.py:495`: the directory is watched because "the config is replaced atomically"
  (`app.py:481`), with `WATCH_MOVES`; but the handler looks at the first name of an event
  only, and a replacement is reported as a move with the temporary file's name first. What
  `--binding` or an editor that renames has written then does not reach the running
  application, whose next save overwrites it. `EditArrives` is about events that name the
  file.
- `app.py:498`: an edit while the guard of an own save is up is ignored, also when that save
  failed. `EditArrives` starts after the guard and ends with a later save that fails; when
  an edit meets an unsaved change, either of them wins.
- `paste.py:687`: `run_setup` works the steps out again without asking again. A package, the
  group or the permission lost since the question adds a step with sudo that was not shown.
  `RootStepsWereShown` says that nothing else does (`lost`).
- `paste.py:192`: a helper that pressed the key and then hung is killed, and the next one
  presses again; `PressedOnce` excludes it (`late`).
- `install.py:325`: a purge while the application runs leaves it with a file without a
  name, and its next thread with an empty file that has no table; `OneHistory` excludes it
  (`spoiled`).
- `install.py:262`: installing with "start at login" off leaves an autostart entry of an
  earlier installation; `CleanRunsComplete` asks for the entry only when it is on.

## 5. Proofs

Everything below is proved for all values of the constants, from the named assumptions
of each module only (`RowsAssumption`, `StoreAssumption`, `FilesAssumption`,
`MonitorAssumption`, `PasteAssumption`, `RegistryAssumption`, `SyncAssumption`,
`PopupAssumption`, `HostsAssumption`, `LayoutsAssumption`, `DesktopAssumption`); one theorem
has a hypothesis of its own, named below. None of it uses fairness. Every invariant and
every safety property that a passing run checks is stated by a theorem.

- **History.** The first part of `HistoryStoreProofs` says what the statements do to a
  table. The abstract history is bounded, its fingerprints are unique and its ids are never
  reused (`HistoryIsBounded`, `FingerprintsAreUnique`, `IdsAreStable`), by the invariant
  `HistoryInv`. For `HistoryStore` the invariant is `IInv`, that is
  `TypeOK /\ LockedIffInTxn /\ WorkFollowsStatements`: the second conjunct makes transactions
  exclusive, the third says at each statement how the private copy relates to the
  committed table, so that at `Commit` it is the result of one operation
  (`CommitRefines`). Hence `StoreImplementsBoundedHistory`, and through it `StoreIsBounded`,
  `StoreKeepsOneRow` and `StaleIdsAreInert` for the database itself. `RecordedIsFound` is
  for one process whose clock does not step back, which is what the code needs (section 4)
  and its hypothesis. Its invariant `ClockInv` says that a capture carries a stamp later
  than every row of the table, so the row it inserts is the latest and the prune, which
  leaves at least one, never takes it.
- **History files.** `FilesAreNeverHalfUpgraded`, `EverybodyHasOneHistory` and `NoRowIsLost`.
  The invariant adds to the properties that a process past its `Check` has found what it
  says it found unless another one has moved it since, that at most one process upgrades
  a file, that its transaction holds the rows of the file minus the undecodable ones it
  has dropped, and that unnamed file numbers are unused.
- **Monitor.** `CapturesAreOrdered`, `NothingIsOverlooked`, `OwnWritesStayOut`. The
  invariant ties tokens to generations: a later token read a later or the same content,
  only the latest token can still be captured, and an attached monitor without a timer
  has started a read of, recorded, or ignored what the clipboard holds.
- **Pasting.** `WorkersCompareTheirOwn`, `OneAnswerEach`, `OldSelectionIsGone` and
  `WindowHoldsPastes`. As long as a worker's token is the current one, `_expected_text` is
  the one its own choice announced, because whoever replaces it bumped the token first; once
  it has been copied into the thread nobody else touches it. A choice is open exactly while
  its handler, its timer or its thread has it, one of the three. What a helper writes for a
  worker is the text of the worker's choice or a later one for the same reason. For the old
  selection the invariant `ReadBack` says that a side on which a worker saw its text still
  holds what it answered then, or something that came later or from a helper; what GTK has
  not published of an earlier choice was dropped when the later one was written
  (`WithoutGtk`), so nothing earlier can follow. For the open window (`HeldBack`) the token
  is lost before the window is shown, and a handler that starts a paste runs only while it
  is hidden.
- **Shortcut.** `ListedSlotsAreComplete`, `HandMadeKeysAreKept`, `QuietInstallsConverge` and
  `QuietUninstallsLeaveNothing`. The invariant says which slots are ready at each point of
  a run: the ones already written, all of the plan once the list is read, all that were
  read from the list while it is held; and that what will be emptied is neither listed
  nor of this plan. The quiet ones need `QInv` besides: at each step of a run that nothing
  has disturbed, how the list relates to the one the run started with and to what it has
  classified so far. They rest on the plan not repeating its first key, which
  `PlansAlwaysFit` proves of `KeyboardLayouts`.
- **Configuration.** `TypeCorrect`: the settings in use are valid whatever is written to
  the file. `OwnSavesUndoNothing`: while nobody else writes, an own event that is still
  to come finds the guard up, and the file holds valid settings; a replacement that goes
  unreported only leaves fewer events.

- **Popup window.** `TypeCorrect`, `CardsAreItems` and `NoRefreshIsLost`. The list is made
  twice, by `ORDER BY pinned DESC ... LIMIT` in SQL and by the sections of `_rebuild`; the
  lemma `CardsAreTheList` says that the second changes nothing about the first. It needs to
  know what `Kept` yields for any sequence: the n-th row kept is the one at the position of
  rank n, and rank grows with the position. That there is one is shown by the least number
  with a property (`LeastNumber`, from the well-foundedness of `<`). The
  invariant `IInv` is the three properties together: ids are unique and below the counter,
  the selection is in the list, cards agree with items also when a rebuild stopped
  half-way, and whatever makes a visible list stale leaves something in the main loop.
- **Installing.** `CleanRunsAreComplete` and `ReloadsAreVerified`. The invariant has the steps
  that can be left of each command (`JobShape`) and, as long as the run is clean, that each
  effect is there, or its step is still to come (`FilesFollow`, `ShortcutFollows`).
  `ReloadsAreVerified` does not need the run to be clean. Its invariant `DaemonFollows` holds
  in every run: while the daemon is being brought up to date our slot is listed, unless it is
  off the list to be put back; and once a command has found the daemon dead, a daemon that
  runs answers to the slot, because it read the list when it came up, unless the command had
  misjudged it.
- **Paste setup.** `NothingUnshownAsRoot`, `OneCtrlV`, `NextLoginPastes`, `SetupIsHonest`,
  by the invariant `SetupInv`. From question to answer a step with sudo can only be added by
  a loss, which `lost` remembers, so `todo` has none that is neither shown nor in `lost`.
  Each thing the setup is for is there, or its step is left, or it has failed or was taken
  away and that is remembered, which gives the verdicts; and no command has pressed the key
  while `send_paste` still goes on.
- **Layouts.** `PlansAlwaysFit`, `LayoutsAllOpen`, `OtherKeysStay`, by `PlanInv`, the three
  properties and `MidLoop`: while the loop runs, the plan starts with the key asked for,
  repeats nothing, and has every spelling of every layout before `turn`.

The type invariants of `ClipboardMonitor`, `PasteFlow`, `ShortcutRegistry`, `ConfigSync` and
`HistoryFiles` are theorems and have no run of their own.

Only model-checked: liveness (`CallsReturn`, `HearsAgain`, `EveryChoiceEnds`,
`ListCatchesUp`, `CommandsEnd`, `EditArrives`, `Settles`), which is beyond the prover; and
`CommandLine`, whose functions TLC evaluates for every set of options a run needs. To be
provable, the models avoid recursive operators: sequences are taken by position and not
filtered, lists of steps are sets with an order, and the loop over the layouts is steps of
its own.

## 6. Not modelled

- Wording, layout, theme and translation; the thumbnail cache and the hints for the dock
  of `ui/window.py`: nothing is decided by them.
- The probing of the session and of helpers (`clipboard.py`): stateless, its answers are
  nondeterministic in the models.
- `_coerce` and the clamping of `config.py`: functions of one value. `ConfigSync` takes
  their result, that valid values stay and invalid ones become the default, which is
  coarser than clamping. (`config.py:126`: an infinite number in the file raises.)
- The application shell: startup, actions, signals and the dispatch of a second instance
  by GApplication, all on one thread before and after what is modelled.
- Printing, logs and diagnosis of the command line, and the choice of a display backend.
- Scripts, packaging and the stylesheet.
