------------------------------ MODULE HistoryFiles -----------------------------
(***************************************************************************)
(* storage.py, HistoryStore.__init__ and its connections, as files: the    *)
(* history of version 1 lies in the configuration directory, is moved to   *)
(* the data directory by whichever process opens the store first, and is   *)
(* brought to the present schema in one transaction.  Several processes    *)
(* do this at the same time and may die at any step.  A file that has lost *)
(* its name lives on as long as a connection is open; every thread opens   *)
(* one of its own.                                                         *)
(***************************************************************************)
EXTENDS Integers, FiniteSets

CONSTANTS
    Procs,    \* processes that open the history
    Texts,    \* rows of version 1 that hold text
    Images,   \* rows of version 1 that hold an image as base64
    Broken,   \* rows of version 1 whose image cannot be decoded
    MaxFiles  \* bound: files there ever are

V1Rows == Texts \cup Images \cup Broken

FilesAssumption ==
    /\ MaxFiles \in Nat /\ MaxFiles >= 2
    /\ Texts \cap (Images \cup Broken) = {} /\ Images \cap Broken = {}

ASSUME FilesAssumption

VARIABLES
    file,     \* schema and rows of each file; the rows in blob have their image as bytes
    path,     \* the file at database_path(), 0 for none
    legacy,   \* the file at legacy_database_path()
    proc,     \* how far each process is, and the files its connections have open
    spoiled   \* a move failed, or somebody removed the history

vars == <<file, path, legacy, proc, spoiled>>

Files == 1..MaxFiles
Unused == [schema |-> "unused", rows |-> {}, blob |-> {}]
Empty == [schema |-> "none", rows |-> {}, blob |-> {}]
OldFiles == [schema : {"old"}, rows : SUBSET V1Rows, blob : {{}}]

\* main, worker: what the connections of the two threads have open; work: the transaction
Off == [pc |-> "off", main |-> 0, worker |-> 0, work |-> Unused]

Init ==
    /\ path \in {0, 1} /\ legacy \in {0, 2}
    /\ \E old \in OldFiles, older \in OldFiles :
          file = [f \in Files |-> IF f = legacy THEN older ELSE IF f = path THEN old ELSE Unused]
    /\ proc = [p \in Procs |-> Off]
    /\ spoiled = FALSE

Become(p, fields) == proc' = [proc EXCEPT ![p] = fields]
Goto(p, pc) == Become(p, [proc[p] EXCEPT !.pc = pc])

--------------------------------------------------------------------------------
(* HistoryStore.__init__ *)

Open(p) ==
    /\ proc[p].pc = "off"
    /\ Goto(p, "check")
    /\ UNCHANGED <<file, path, legacy, spoiled>>

\* _migrate_legacy_database_file: is there something to move, and room for it
Check(p) ==
    /\ proc[p].pc = "check"
    /\ Goto(p, IF path = 0 /\ legacy # 0 THEN "move" ELSE "connect")
    /\ UNCHANGED <<file, path, legacy, spoiled>>

\* the file is copied
Move_Copies(p) ==
    /\ proc[p].pc = "move"
    /\ \/ /\ legacy # 0
          /\ \E f \in Files : file[f] = Unused /\ file' = [file EXCEPT ![f] = file[legacy]] /\ path' = f
       \/ legacy = 0 /\ UNCHANGED <<file, path>>
    /\ Goto(p, "connect")
    /\ UNCHANGED <<legacy, spoiled>>

\* legacy.replace(db_path); it has gone if another process was faster
Move(p) ==
    /\ proc[p].pc = "move"
    /\ \/ legacy # 0 /\ path' = legacy /\ legacy' = 0 /\ UNCHANGED spoiled
       \/ legacy = 0 /\ UNCHANGED <<path, legacy, spoiled>>
       \/ legacy # 0 /\ spoiled' = TRUE /\ UNCHANGED <<path, legacy>>
    /\ Goto(p, "connect")
    /\ UNCHANGED file

\* sqlite3.connect opens file f: the one at the path, or a new one
Connects(f) ==
    \/ f = path /\ UNCHANGED <<file, path>>
    \/ /\ path = 0 /\ file[f] = Unused
       /\ \A g \in 1..(f - 1) : file[g] # Unused
       /\ file' = [file EXCEPT ![f] = Empty]
       /\ path' = f

ConnectMain(p) ==
    /\ proc[p].pc = "connect"
    /\ \E f \in Files : Connects(f) /\ Become(p, [proc[p] EXCEPT !.pc = "begin", !.main = f])
    /\ UNCHANGED <<legacy, spoiled>>

\* somebody else is upgrading the same file
Locked(f) == \E q \in Procs : proc[q].pc = "upgrade" /\ proc[q].main = f

\* BEGIN IMMEDIATE, then the version; the busy timeout ends the process
Initialize(p) ==
    /\ proc[p].pc = "begin"
    /\ LET f == proc[p].main IN
          \/ /\ Locked(f) /\ Become(p, Off) /\ UNCHANGED file
          \/ /\ ~Locked(f) /\ file[f].schema = "old"
             /\ Become(p, [proc[p] EXCEPT !.pc = "upgrade", !.work = file[f]])
             /\ UNCHANGED file
          \/ /\ ~Locked(f) /\ file[f].schema # "old"
             /\ file' = [file EXCEPT ![f].schema = "new"]
             /\ Goto(p, "ready")
    /\ UNCHANGED <<path, legacy, spoiled>>

\* without the else: a row goes whether its image can be decoded or not
Converted_Deletes(work, row) == [work EXCEPT !.rows = @ \ {row}]

\* an image becomes bytes, or its row goes if it cannot be decoded
Converted(work, row) ==
    IF row \in Broken THEN [work EXCEPT !.rows = @ \ {row}] ELSE [work EXCEPT !.blob = @ \cup {row}]

\* outside of a transaction
UpgradeRow_Commits(p) ==
    /\ proc[p].pc = "upgrade"
    /\ \E row \in (proc[p].work.rows \cap (Images \cup Broken)) \ proc[p].work.blob :
          /\ Become(p, [proc[p] EXCEPT !.work = Converted(@, row)])
          /\ file' = [file EXCEPT ![proc[p].main] = Converted(proc[p].work, row)]
    /\ UNCHANGED <<path, legacy, spoiled>>

\* _upgrade, one row
UpgradeRow(p) ==
    /\ proc[p].pc = "upgrade"
    /\ \E row \in (proc[p].work.rows \cap (Images \cup Broken)) \ proc[p].work.blob :
          Become(p, [proc[p] EXCEPT !.work = Converted(@, row)])
    /\ UNCHANGED <<file, path, legacy, spoiled>>

\* PRAGMA user_version and COMMIT
UpgradeEnd(p) ==
    /\ proc[p].pc = "upgrade"
    /\ proc[p].work.rows \cap (Images \cup Broken) \subseteq proc[p].work.blob
    /\ file' = [file EXCEPT ![proc[p].main] = [proc[p].work EXCEPT !.schema = "new"]]
    /\ Become(p, [proc[p] EXCEPT !.pc = "ready", !.work = Unused])
    /\ UNCHANGED <<path, legacy, spoiled>>

--------------------------------------------------------------------------------
(* A store in use *)

\* _connection in another thread
ConnectWorker(p) ==
    /\ proc[p].pc = "ready" /\ proc[p].worker = 0
    /\ \E f \in Files : Connects(f) /\ Become(p, [proc[p] EXCEPT !.worker = f])
    /\ UNCHANGED <<legacy, spoiled>>

\* close(), or the process dies and SQLite drops its transaction
Leave(p) ==
    /\ proc[p].pc # "off"
    /\ Become(p, Off)
    /\ UNCHANGED <<file, path, legacy, spoiled>>

\* uninstall --purge: the names go, the open files stay
Purge ==
    /\ path' = 0 /\ spoiled' = TRUE
    /\ UNCHANGED <<file, legacy, proc>>

Store(p) ==
    Open(p) \/ Check(p) \/ Move(p) \/ ConnectMain(p) \/ Initialize(p) \/ UpgradeRow(p)
    \/ UpgradeEnd(p) \/ ConnectWorker(p) \/ Leave(p)

Next == (\E p \in Procs : Store(p)) \/ Purge

Spec == Init /\ [][Next]_vars

--------------------------------------------------------------------------------
(* Properties *)

File ==
    [schema : {"unused", "none", "old", "new"}, rows : SUBSET V1Rows, blob : SUBSET V1Rows]

Process ==
    [pc : {"off", "check", "move", "connect", "begin", "upgrade", "ready"},
     main : 0..MaxFiles, worker : 0..MaxFiles, work : File]

TypeOK ==
    /\ file \in [Files -> File]
    /\ path \in 0..MaxFiles /\ legacy \in 0..MaxFiles /\ spoiled \in BOOLEAN
    /\ proc \in [Procs -> Process]

\* No file is ever left half upgraded, whichever processes upgrade it and die on the way: a file
\* of the old schema has no image as bytes yet, one of the present schema has all of them so.
UpgradeIsWhole ==
    \A f \in Files :
        /\ file[f].schema = "old" => file[f].blob = {}
        /\ file[f].schema = "new" =>
              file[f].rows \cap Broken = {} /\ file[f].rows \cap Images \subseteq file[f].blob

\* All connections of all processes and threads have the one file open that is at the path, and
\* a store that is ready finds its table there; as long as no move fails and nobody purges.
OneHistory ==
    ~spoiled => \A p \in Procs :
        /\ {proc[p].main, proc[p].worker} \subseteq {0, path}
        /\ proc[p].pc = "ready" => path # 0 /\ file[path].schema = "new"

\* No row of version 1 that can be read is lost on the way, neither by the move, nor by the
\* upgrade, nor by a process that makes a new file.
V1RowsSurvive ==
    [][~spoiled' =>
         \A f \in {path, legacy} \ {0} :
            \E g \in {path', legacy'} \ {0} : file[f].rows \ Broken \subseteq file'[g].rows]_vars

================================================================================
