--------------------------- MODULE HistoryFilesProofs --------------------------
(***************************************************************************)
(* However many processes open the history at once, and wherever they die: *)
(* no file is left half upgraded, all of them have the same file open, and *)
(* no readable row of version 1 is lost.                                   *)
(***************************************************************************)
EXTENDS HistoryFiles, TLAPS

Opened == {"begin", "upgrade", "ready"}

\* A file holds what its schema says.
FileIsWhole(f) ==
    /\ f.schema \in {"unused", "none", "old"} => f.blob = {}
    /\ f.schema \in {"unused", "none"} => f.rows = {}
    /\ f.schema = "new" => f.rows \cap Broken = {} /\ f.rows \cap Images \subseteq f.blob

FilesAreWhole == \A f \in Files : FileIsWhole(file[f])

\* A process has connections open exactly from its first one on.
OpenWhenOpened ==
    \A p \in Procs :
        /\ (proc[p].main # 0) = (proc[p].pc \in Opened)
        /\ proc[p].worker # 0 => proc[p].pc = "ready"

\* An upgrade has its file for itself and has dropped undecodable images only.
UpgradesAlone ==
    \A p \in Procs : proc[p].pc = "upgrade" =>
        /\ file[proc[p].main].schema = "old"
        /\ proc[p].work.blob \cap Broken = {}
        /\ file[proc[p].main].rows \ Broken \subseteq proc[p].work.rows
        /\ \A q \in Procs : proc[q].pc = "upgrade" /\ proc[q].main = proc[p].main => q = p

\* Between the look at the paths and the move or the connection the paths still say the same.
PathsAgree ==
    ~spoiled => \A p \in Procs :
        /\ proc[p].pc = "move" /\ legacy # 0 => path = 0
        /\ proc[p].pc = "connect" => path # 0 \/ legacy = 0

IInv == TypeOK /\ FilesAreWhole /\ OpenWhenOpened /\ UpgradesAlone /\ PathsAgree /\ OneHistory

--------------------------------------------------------------------------------

\* A process changes only itself.
LEMMA OneBecomes ==
    ASSUME proc \in [Procs -> Process], NEW p \in Procs, NEW fields \in Process, Become(p, fields)
    PROVE  /\ proc' \in [Procs -> Process]
           /\ proc'[p] = fields
           /\ \A q \in Procs : q # p => proc'[q] = proc[q]
  BY DEF Become

PCs == {"off", "check", "move", "connect", "begin", "upgrade", "ready"}

\* The fields of a process one by one.
LEMMA Fields ==
    ASSUME NEW x \in Process
    PROVE  /\ x.pc \in PCs /\ x.main \in 0..MaxFiles /\ x.worker \in 0..MaxFiles /\ x.work \in File
           /\ x.work.rows \subseteq V1Rows /\ x.work.blob \subseteq V1Rows
  BY DEF Process, File, PCs

\* What Goto makes of a process.
LEMMA PcField ==
    ASSUME NEW x \in Process, NEW pc \in PCs
    PROVE  /\ [x EXCEPT !.pc = pc] \in Process
           /\ [x EXCEPT !.pc = pc].pc = pc
           /\ [x EXCEPT !.pc = pc].main = x.main
           /\ [x EXCEPT !.pc = pc].worker = x.worker
           /\ [x EXCEPT !.pc = pc].work = x.work
  BY DEF Process, PCs

\* What ConnectMain makes of it.
LEMMA MainField ==
    ASSUME NEW x \in Process, NEW f \in Files
    PROVE  /\ [x EXCEPT !.pc = "begin", !.main = f] \in Process
           /\ [x EXCEPT !.pc = "begin", !.main = f].pc = "begin"
           /\ [x EXCEPT !.pc = "begin", !.main = f].main = f
           /\ [x EXCEPT !.pc = "begin", !.main = f].worker = x.worker
           /\ [x EXCEPT !.pc = "begin", !.main = f].work = x.work
<1>1. f \in 0..MaxFiles
  BY FilesAssumption DEF FilesAssumption, Files
<1> QED
  BY <1>1 DEF Process

\* What ConnectWorker makes of it.
LEMMA WorkerField ==
    ASSUME NEW x \in Process, NEW f \in Files
    PROVE  /\ [x EXCEPT !.worker = f] \in Process
           /\ [x EXCEPT !.worker = f].pc = x.pc
           /\ [x EXCEPT !.worker = f].main = x.main
           /\ [x EXCEPT !.worker = f].worker = f
           /\ [x EXCEPT !.worker = f].work = x.work
  BY DEF Process, Files

\* What one row of the upgrade makes of it.
LEMMA RowField ==
    ASSUME NEW x \in Process, NEW work \in File
    PROVE  /\ [x EXCEPT !.work = work] \in Process
           /\ [x EXCEPT !.work = work].pc = x.pc
           /\ [x EXCEPT !.work = work].main = x.main
           /\ [x EXCEPT !.work = work].worker = x.worker
           /\ [x EXCEPT !.work = work].work = work
  BY DEF Process

\* No process, no file, and a new file.
LEMMA Rest ==
    /\ Off \in Process /\ Off.pc = "off" /\ Off.main = 0 /\ Off.worker = 0
    /\ Unused \in File /\ Unused.schema = "unused"
    /\ Empty \in File /\ Empty.schema = "none"
  BY FilesAssumption DEF FilesAssumption, Off, Unused, Empty, Process, File

\* A fresh start: old files at either place or none, and no process.
LEMMA InitIInv == Init => IInv
<1> SUFFICES ASSUME Init PROVE IInv
  OBVIOUS
<1>1. TypeOK
  <2>1. \A f \in Files : file[f] \in File /\ file = [g \in Files |-> file[g]]
    BY Rest DEF Init, OldFiles, File
  <2>2. path \in 0..MaxFiles /\ legacy \in 0..MaxFiles
    BY FilesAssumption DEF Init, FilesAssumption
  <2> QED
    BY <2>1, <2>2, Rest DEF Init, TypeOK
<1>2. FilesAreWhole
  BY DEF Init, FilesAreWhole, FileIsWhole, Files, OldFiles, Unused
<1>3. OpenWhenOpened /\ UpgradesAlone /\ PathsAgree /\ OneHistory
  BY DEF Init, OpenWhenOpened, UpgradesAlone, PathsAgree, OneHistory, Off, Opened
<1> QED
  BY <1>1, <1>2, <1>3 DEF IInv

\* One row of an upgrade is a row of the file, as bytes or dropped.
LEMMA ConvertedRow ==
    ASSUME NEW work \in File, NEW row \in work.rows
    PROVE  /\ Converted(work, row) \in File
           /\ work.rows \ Broken \subseteq Converted(work, row).rows
           /\ work.blob \cap Broken = {} => Converted(work, row).blob \cap Broken = {}
  BY DEF Converted, File

--------------------------------------------------------------------------------
(* What the actions do to the process that takes them, field by field *)

Others(p) == \A q \in Procs : q # p => proc'[q] = proc[q]

\* A step that only moves the process on.
LEMMA GotoStep ==
    ASSUME TypeOK, NEW p \in Procs, NEW pc \in PCs, Goto(p, pc)
    PROVE  /\ proc' \in [Procs -> Process] /\ Others(p)
           /\ proc'[p].pc = pc /\ proc'[p].main = proc[p].main
           /\ proc'[p].worker = proc[p].worker /\ proc'[p].work = proc[p].work
<1> DEFINE new == [proc[p] EXCEPT !.pc = pc]
<1>1. new \in Process /\ new.pc = pc /\ new.main = proc[p].main
      /\ new.worker = proc[p].worker /\ new.work = proc[p].work
  BY PcField DEF TypeOK
<1>2. Become(p, new)
  BY DEF Goto
<1> HIDE DEF new
<1> QED
  BY <1>1, <1>2, OneBecomes DEF TypeOK, Others

\* A step that ends the process.
LEMMA OffStep ==
    ASSUME TypeOK, NEW p \in Procs, Become(p, Off)
    PROVE  /\ proc' \in [Procs -> Process] /\ Others(p)
           /\ proc'[p].pc = "off" /\ proc'[p].main = 0 /\ proc'[p].worker = 0
  BY OneBecomes, Rest DEF TypeOK, Others

\* The first connection of a process.
LEMMA ConnectMainStep ==
    ASSUME TypeOK, NEW p \in Procs, ConnectMain(p)
    PROVE  /\ proc[p].pc = "connect" /\ UNCHANGED <<legacy, spoiled>>
           /\ \E f \in Files :
                 /\ Connects(f)
                 /\ proc' \in [Procs -> Process] /\ Others(p)
                 /\ proc'[p].pc = "begin" /\ proc'[p].main = f
                 /\ proc'[p].worker = proc[p].worker /\ proc'[p].work = proc[p].work
<1> PICK f \in Files : Connects(f) /\ Become(p, [proc[p] EXCEPT !.pc = "begin", !.main = f])
  BY DEF ConnectMain
<1> DEFINE new == [proc[p] EXCEPT !.pc = "begin", !.main = f]
<1>1. new \in Process /\ new.pc = "begin" /\ new.main = f
      /\ new.worker = proc[p].worker /\ new.work = proc[p].work
  BY MainField DEF TypeOK
<1>2. Become(p, new)
  OBVIOUS
<1>3. proc[p].pc = "connect" /\ UNCHANGED <<legacy, spoiled>>
  BY DEF ConnectMain
<1> HIDE DEF new
<1> QED
  BY <1>1, <1>2, <1>3, OneBecomes DEF TypeOK, Others

\* The connection of its other thread.
LEMMA ConnectWorkerStep ==
    ASSUME TypeOK, NEW p \in Procs, ConnectWorker(p)
    PROVE  /\ proc[p].pc = "ready" /\ UNCHANGED <<legacy, spoiled>>
           /\ \E f \in Files :
                 /\ Connects(f)
                 /\ proc' \in [Procs -> Process] /\ Others(p)
                 /\ proc'[p].pc = proc[p].pc /\ proc'[p].main = proc[p].main
                 /\ proc'[p].worker = f /\ proc'[p].work = proc[p].work
<1> PICK f \in Files : Connects(f) /\ Become(p, [proc[p] EXCEPT !.worker = f])
  BY DEF ConnectWorker
<1> DEFINE new == [proc[p] EXCEPT !.worker = f]
<1>1. new \in Process /\ new.pc = proc[p].pc /\ new.main = proc[p].main
      /\ new.worker = f /\ new.work = proc[p].work
  BY WorkerField DEF TypeOK
<1>2. Become(p, new)
  OBVIOUS
<1>3. proc[p].pc = "ready" /\ UNCHANGED <<legacy, spoiled>>
  BY DEF ConnectWorker
<1> HIDE DEF new
<1> QED
  BY <1>1, <1>2, <1>3, OneBecomes DEF TypeOK, Others

\* A row of the upgrade: no readable row is dropped and no broken one counts as bytes.
LEMMA UpgradeRowStep ==
    ASSUME TypeOK, NEW p \in Procs, UpgradeRow(p)
    PROVE  /\ proc[p].pc = "upgrade" /\ UNCHANGED <<file, path, legacy, spoiled>>
           /\ proc' \in [Procs -> Process] /\ Others(p)
           /\ proc'[p].pc = proc[p].pc /\ proc'[p].main = proc[p].main
           /\ proc'[p].worker = proc[p].worker
           /\ proc[p].work.rows \ Broken \subseteq proc'[p].work.rows
           /\ proc[p].work.blob \cap Broken = {} => proc'[p].work.blob \cap Broken = {}
<1> PICK row \in (proc[p].work.rows \cap (Images \cup Broken)) \ proc[p].work.blob :
        Become(p, [proc[p] EXCEPT !.work = Converted(@, row)])
  BY DEF UpgradeRow
<1>1. proc[p] \in Process /\ proc[p].work \in File
  BY Fields DEF TypeOK
<1>2. /\ Converted(proc[p].work, row) \in File
      /\ proc[p].work.rows \ Broken \subseteq Converted(proc[p].work, row).rows
      /\ proc[p].work.blob \cap Broken = {} => Converted(proc[p].work, row).blob \cap Broken = {}
  BY <1>1, ConvertedRow
<1> DEFINE new == [proc[p] EXCEPT !.work = Converted(proc[p].work, row)]
<1>3. new \in Process /\ new.pc = proc[p].pc /\ new.main = proc[p].main
      /\ new.worker = proc[p].worker /\ new.work = Converted(proc[p].work, row)
  BY <1>1, <1>2, RowField
<1>4. Become(p, new)
  OBVIOUS
<1>5. proc[p].pc = "upgrade" /\ UNCHANGED <<file, path, legacy, spoiled>>
  BY DEF UpgradeRow
<1> HIDE DEF new
<1> QED
  BY <1>1, <1>2, <1>3, <1>4, <1>5, OneBecomes DEF TypeOK, Others

\* The commit of the upgrade.
LEMMA UpgradeEndStep ==
    ASSUME TypeOK, NEW p \in Procs, UpgradeEnd(p)
    PROVE  /\ proc[p].pc = "upgrade" /\ UNCHANGED <<path, legacy, spoiled>>
           /\ proc' \in [Procs -> Process] /\ Others(p)
           /\ proc'[p].pc = "ready" /\ proc'[p].main = proc[p].main
           /\ proc'[p].worker = proc[p].worker
           /\ file' = [file EXCEPT ![proc[p].main] = [proc[p].work EXCEPT !.schema = "new"]]
           /\ proc[p].work.rows \cap (Images \cup Broken) \subseteq proc[p].work.blob
<1> DEFINE new == [proc[p] EXCEPT !.pc = "ready", !.work = Unused]
<1>1. new \in Process /\ new.pc = "ready" /\ new.main = proc[p].main
      /\ new.worker = proc[p].worker
  <2>1. proc[p] \in Process /\ Unused \in File /\ "ready" \in PCs
    BY Rest DEF TypeOK, PCs
  <2> QED
    BY <2>1 DEF Process
<1>2. Become(p, new)
  BY DEF UpgradeEnd
<1> HIDE DEF new
<1>3. proc' \in [Procs -> Process] /\ Others(p) /\ proc'[p] = new
  BY <1>1, <1>2, OneBecomes DEF TypeOK, Others
<1> QED
  BY <1>1, <1>3 DEF UpgradeEnd

\* BEGIN IMMEDIATE of an upgrade, which starts from the rows of the file.
LEMMA BeginUpgradeStep ==
    ASSUME TypeOK, NEW p \in Procs,
           Become(p, [proc[p] EXCEPT !.pc = "upgrade", !.work = file[proc[p].main]]),
           proc[p].main \in Files
    PROVE  /\ proc' \in [Procs -> Process] /\ Others(p)
           /\ proc'[p].pc = "upgrade" /\ proc'[p].main = proc[p].main
           /\ proc'[p].worker = proc[p].worker /\ proc'[p].work = file[proc[p].main]
<1> DEFINE new == [proc[p] EXCEPT !.pc = "upgrade", !.work = file[proc[p].main]]
<1>1. new \in Process /\ new.pc = "upgrade" /\ new.main = proc[p].main
      /\ new.worker = proc[p].worker /\ new.work = file[proc[p].main]
  <2>1. proc[p] \in Process /\ file[proc[p].main] \in File /\ "upgrade" \in PCs
    BY DEF TypeOK, PCs
  <2> QED
    BY <2>1 DEF Process
<1>2. Become(p, new)
  OBVIOUS
<1> HIDE DEF new
<1> QED
  BY <1>1, <1>2, OneBecomes DEF TypeOK, Others

--------------------------------------------------------------------------------
(* Each action keeps the invariant *)

\* A process that neither opens a file nor changes one: Open, Check, Initialize that gives up, Leave.
LEMMA QuietIInv ==
    ASSUME IInv, NEW p \in Procs, UNCHANGED <<file, path, legacy, spoiled>>,
           proc' \in [Procs -> Process], Others(p),
           \/ proc'[p].pc = "off" /\ proc'[p].main = 0 /\ proc'[p].worker = 0
           \/ /\ proc[p].main = 0 /\ proc[p].worker = 0
              /\ proc'[p].main = 0 /\ proc'[p].worker = 0
              /\ \/ proc'[p].pc = "check"
                 \/ proc'[p].pc = "move" /\ path = 0
                 \/ proc'[p].pc = "connect" /\ (path # 0 \/ legacy = 0)
    PROVE  IInv'
<1> USE DEF IInv, Others
<1>1. TypeOK'
  BY DEF TypeOK
<1>2. FilesAreWhole'
  BY DEF FilesAreWhole
<1>3. OpenWhenOpened'
  BY DEF OpenWhenOpened, Opened
<1>4. UpgradesAlone'
  BY DEF UpgradesAlone
<1>5. PathsAgree'
  BY DEF PathsAgree
<1>6. OneHistory'
  BY DEF OneHistory
<1> QED
  BY <1>1, <1>2, <1>3, <1>4, <1>5, <1>6

\* A move: PathsAgree says that nobody has a file open at the path yet.
LEMMA MoveIInv ==
    ASSUME IInv, NEW p \in Procs, Move(p)
    PROVE  IInv'
<1> USE DEF IInv, Others
<1>1. /\ proc' \in [Procs -> Process] /\ Others(p)
      /\ proc'[p].pc = "connect" /\ proc'[p].main = proc[p].main
      /\ proc'[p].worker = proc[p].worker
  BY GotoStep DEF Move, PCs
<1>2. proc[p].pc = "move" /\ UNCHANGED file
  BY DEF Move
<1>3. proc[p].main = 0 /\ proc[p].worker = 0
  BY <1>2 DEF OpenWhenOpened, Opened
<1>4. TypeOK'
  <2>1. spoiled' \in BOOLEAN
    BY Zenon DEF TypeOK, Move
  <2>2. path' \in 0..MaxFiles /\ legacy' \in 0..MaxFiles
    BY FilesAssumption DEF FilesAssumption, TypeOK, Move
  <2> QED
    BY <1>1, <1>2, <2>1, <2>2 DEF TypeOK
<1>5. FilesAreWhole'
  BY <1>2 DEF FilesAreWhole
<1>6. OpenWhenOpened'
  BY <1>1, <1>2, <1>3 DEF OpenWhenOpened, Opened
<1>7. UpgradesAlone'
  BY <1>1, <1>2 DEF UpgradesAlone
<1>8. PathsAgree'
  BY <1>1, <1>2 DEF PathsAgree, Move, TypeOK
<1>9. OneHistory'
  <2> SUFFICES ASSUME ~spoiled' PROVE OneHistory'
    BY DEF OneHistory
  <2>1. ~spoiled /\ (legacy # 0 => path = 0)
    BY <1>2 DEF Move, PathsAgree
  <2>2. CASE legacy = 0
    BY <1>1, <1>2, <1>3, <2>1, <2>2 DEF Move, OneHistory
  <2>3. CASE legacy # 0
    <3>1. path = 0 /\ \A q \in Procs : proc[q].main = 0 /\ proc[q].worker = 0 /\ proc[q].pc # "ready"
      BY <2>1, <2>3 DEF OneHistory
    <3> QED
      BY <1>1, <1>3, <3>1 DEF OneHistory
  <2> QED
    BY <2>2, <2>3
<1> QED
  BY <1>4, <1>5, <1>6, <1>7, <1>8, <1>9

\* A connection to the file at the path, or to a new file put there.
LEMMA ConnectsStep ==
    ASSUME IInv, NEW f \in Files, Connects(f)
    PROVE  /\ file' \in [Files -> File] /\ path' = f /\ path' \in 0..MaxFiles /\ f # 0
           /\ FilesAreWhole'
           /\ path # 0 => path = f
           /\ \A g \in Files : file[g].schema # "unused" => file'[g] = file[g]
<1> USE DEF IInv
<1>1. f # 0 /\ f \in 0..MaxFiles
  BY FilesAssumption DEF FilesAssumption, Files
<1>2. CASE f = path /\ UNCHANGED <<file, path>>
  BY <1>1, <1>2 DEF TypeOK, FilesAreWhole
<1>3. CASE ~(f = path /\ UNCHANGED <<file, path>>)
  <2>1. path = 0 /\ file[f] = Unused /\ file' = [file EXCEPT ![f] = Empty] /\ path' = f
    BY <1>3 DEF Connects
  <2>2. FileIsWhole(Empty)
    BY DEF FileIsWhole, Empty
  <2>3. file' \in [Files -> File]
    BY <2>1, Rest DEF TypeOK
  <2>4. FilesAreWhole'
    BY <2>1, <2>2 DEF FilesAreWhole, TypeOK, FileIsWhole
  <2> QED
    BY <1>1, <2>1, <2>3, <2>4, Rest DEF TypeOK
<1> QED
  BY <1>2, <1>3

\* A connection: an unused file becomes the one at the path, and nobody had another open.
LEMMA ConnectMainIInv ==
    ASSUME IInv, NEW p \in Procs, ConnectMain(p)
    PROVE  IInv'
<1> USE DEF IInv
<1>1. proc[p].pc = "connect" /\ UNCHANGED <<legacy, spoiled>>
  BY ConnectMainStep
<1>2. PICK f \in Files :
          /\ Connects(f)
          /\ proc' \in [Procs -> Process] /\ Others(p)
          /\ proc'[p].pc = "begin" /\ proc'[p].main = f
          /\ proc'[p].worker = proc[p].worker /\ proc'[p].work = proc[p].work
  BY ConnectMainStep
<1>3. /\ file' \in [Files -> File] /\ path' = f /\ path' \in 0..MaxFiles /\ f # 0
      /\ FilesAreWhole'
      /\ path # 0 => path = f
      /\ \A g \in Files : file[g].schema # "unused" => file'[g] = file[g]
  BY <1>2, ConnectsStep
<1>4. proc[p].main = 0 /\ proc[p].worker = 0
  BY <1>1 DEF OpenWhenOpened, Opened
<1>5. TypeOK'
  BY <1>1, <1>2, <1>3 DEF TypeOK
<1>6. OpenWhenOpened'
  BY <1>1, <1>2, <1>3, <1>4 DEF OpenWhenOpened, Opened, Others
<1>7. UpgradesAlone'
  <2>1. \A q \in Procs : proc[q].pc = "upgrade" => proc[q].main \in Files
    BY Fields, FilesAssumption DEF FilesAssumption, OpenWhenOpened, Opened, TypeOK, Files
  <2>2. \A q \in Procs : proc'[q].pc = "upgrade" => proc[q].pc = "upgrade" /\ proc'[q] = proc[q]
    BY <1>1, <1>2 DEF Others
  <2>3. \A q \in Procs : proc[q].pc = "upgrade" => file'[proc[q].main] = file[proc[q].main]
    BY <1>3, <2>1 DEF UpgradesAlone
  <2> QED
    BY <2>2, <2>3 DEF UpgradesAlone
<1>8. PathsAgree'
  BY <1>1, <1>2, <1>3 DEF PathsAgree, Others
<1>9. OneHistory'
  <2> SUFFICES ASSUME ~spoiled, NEW q \in Procs
               PROVE  /\ {proc'[q].main, proc'[q].worker} \subseteq {0, path'}
                      /\ proc'[q].pc = "ready" => path' # 0 /\ file'[path'].schema = "new"
    BY <1>1 DEF OneHistory
  <2>1. CASE q = p
    BY <1>2, <1>3, <1>4, <2>1
  <2>2. CASE q # p
    BY <1>2, <1>3, <2>2 DEF OneHistory, Others
  <2> QED
    BY <2>1, <2>2
<1> QED
  BY <1>3, <1>5, <1>6, <1>7, <1>8, <1>9

\* The same for the second thread; the file at the path is already there.
LEMMA ConnectWorkerIInv ==
    ASSUME IInv, NEW p \in Procs, ConnectWorker(p)
    PROVE  IInv'
<1> USE DEF IInv
<1>1. proc[p].pc = "ready" /\ UNCHANGED <<legacy, spoiled>>
  BY ConnectWorkerStep
<1>2. PICK f \in Files :
          /\ Connects(f)
          /\ proc' \in [Procs -> Process] /\ Others(p)
          /\ proc'[p].pc = proc[p].pc /\ proc'[p].main = proc[p].main
          /\ proc'[p].worker = f /\ proc'[p].work = proc[p].work
  BY ConnectWorkerStep
<1>3. /\ file' \in [Files -> File] /\ path' = f /\ path' \in 0..MaxFiles /\ f # 0
      /\ FilesAreWhole'
      /\ path # 0 => path = f
      /\ \A g \in Files : file[g].schema # "unused" => file'[g] = file[g]
  BY <1>2, ConnectsStep
<1>5. TypeOK'
  BY <1>1, <1>2, <1>3 DEF TypeOK
<1>6. OpenWhenOpened'
  BY <1>1, <1>2, <1>3 DEF OpenWhenOpened, Opened, Others
<1>7. UpgradesAlone'
  <2>1. \A q \in Procs : proc[q].pc = "upgrade" => proc[q].main \in Files
    BY Fields, FilesAssumption DEF FilesAssumption, OpenWhenOpened, Opened, TypeOK, Files
  <2>2. \A q \in Procs : proc'[q].pc = "upgrade" => proc[q].pc = "upgrade" /\ proc'[q] = proc[q]
    BY <1>1, <1>2 DEF Others
  <2>3. \A q \in Procs : proc[q].pc = "upgrade" => file'[proc[q].main] = file[proc[q].main]
    BY <1>3, <2>1 DEF UpgradesAlone
  <2> QED
    BY <2>2, <2>3 DEF UpgradesAlone
<1>8. PathsAgree'
  BY <1>1, <1>2, <1>3 DEF PathsAgree, Others, OneHistory
<1>9. OneHistory'
  <2> SUFFICES ASSUME ~spoiled, NEW q \in Procs
               PROVE  /\ {proc'[q].main, proc'[q].worker} \subseteq {0, path'}
                      /\ proc'[q].pc = "ready" => path' # 0 /\ file'[path'].schema = "new"
    BY <1>1 DEF OneHistory
  <2>1. path = f /\ file[f].schema = "new"
    BY <1>1, <1>3 DEF OneHistory
  <2> QED
    BY <1>2, <1>3, <2>1 DEF OneHistory, Others
<1> QED
  BY <1>3, <1>5, <1>6, <1>7, <1>8, <1>9

\* A row of the upgrade changes no file.
LEMMA UpgradeRowIInv ==
    ASSUME IInv, NEW p \in Procs, UpgradeRow(p)
    PROVE  IInv'
<1> USE DEF IInv
<1>1. /\ proc[p].pc = "upgrade" /\ UNCHANGED <<file, path, legacy, spoiled>>
      /\ proc' \in [Procs -> Process] /\ Others(p)
      /\ proc'[p].pc = proc[p].pc /\ proc'[p].main = proc[p].main
      /\ proc'[p].worker = proc[p].worker
      /\ proc[p].work.rows \ Broken \subseteq proc'[p].work.rows
      /\ proc[p].work.blob \cap Broken = {} => proc'[p].work.blob \cap Broken = {}
  BY UpgradeRowStep
<1>2. TypeOK' /\ FilesAreWhole' /\ OpenWhenOpened'
  BY <1>1 DEF TypeOK, FilesAreWhole, OpenWhenOpened, Others
<1>3. UpgradesAlone'
  <2>1. \A q \in Procs : proc'[q].pc = proc[q].pc /\ proc'[q].main = proc[q].main
    BY <1>1 DEF Others
  <2> SUFFICES ASSUME NEW q \in Procs, proc[q].pc = "upgrade"
               PROVE  /\ proc'[q].work.blob \cap Broken = {}
                      /\ file[proc[q].main].rows \ Broken \subseteq proc'[q].work.rows
    BY <1>1, <2>1 DEF UpgradesAlone
  <2> QED
    BY <1>1 DEF UpgradesAlone, Others
<1>4. PathsAgree' /\ OneHistory'
  BY <1>1 DEF PathsAgree, OneHistory, Others
<1> QED
  BY <1>2, <1>3, <1>4

\* Where the connection of an upgrade leads.
LEMMA MainIsAFile ==
    ASSUME IInv, NEW p \in Procs, proc[p].pc \in Opened
    PROVE  proc[p].main \in Files
  BY Fields, FilesAssumption DEF FilesAssumption, IInv, OpenWhenOpened, TypeOK, Files

\* The commit writes the rows of the transaction to a file that nobody else upgrades.
LEMMA UpgradeEndIInv ==
    ASSUME IInv, NEW p \in Procs, UpgradeEnd(p)
    PROVE  IInv'
<1> USE DEF IInv
<1> DEFINE f == proc[p].main
           done == [proc[p].work EXCEPT !.schema = "new"]
<1>1. /\ proc[p].pc = "upgrade" /\ UNCHANGED <<path, legacy, spoiled>>
      /\ proc' \in [Procs -> Process] /\ Others(p)
      /\ proc'[p].pc = "ready" /\ proc'[p].main = f
      /\ proc'[p].worker = proc[p].worker
      /\ file' = [file EXCEPT ![f] = done]
      /\ proc[p].work.rows \cap (Images \cup Broken) \subseteq proc[p].work.blob
  BY UpgradeEndStep
<1>2. f \in Files
  BY <1>1, MainIsAFile DEF Opened
<1>3. done \in File /\ done.schema = "new" /\ done.rows = proc[p].work.rows /\ done.blob = proc[p].work.blob
  BY Fields DEF TypeOK, File
<1>4. FileIsWhole(done)
  BY <1>1, <1>3 DEF FileIsWhole, UpgradesAlone
<1> HIDE DEF done
<1>5. TypeOK' /\ FilesAreWhole'
  BY <1>1, <1>2, <1>3, <1>4 DEF TypeOK, FilesAreWhole
<1>6. OpenWhenOpened'
  BY <1>1 DEF OpenWhenOpened, Others, Opened
<1>7. UpgradesAlone'
  <2>1. \A q \in Procs : proc'[q].pc = "upgrade" => proc[q].pc = "upgrade" /\ proc'[q] = proc[q] /\ q # p
    BY <1>1 DEF Others
  <2>2. \A q \in Procs : proc'[q].pc = "upgrade" => proc[q].main # f
    BY <1>1, <2>1 DEF UpgradesAlone
  <2>3. \A q \in Procs : proc'[q].pc = "upgrade" => file'[proc[q].main] = file[proc[q].main]
    BY <1>1, <2>1, <2>2, MainIsAFile DEF TypeOK, Opened
  <2> QED
    BY <2>1, <2>3 DEF UpgradesAlone
<1>8. PathsAgree'
  BY <1>1 DEF PathsAgree, Others
<1>9. OneHistory'
  <2> SUFFICES ASSUME ~spoiled, NEW q \in Procs
               PROVE  /\ {proc'[q].main, proc'[q].worker} \subseteq {0, path}
                      /\ proc'[q].pc = "ready" => path # 0 /\ file'[path].schema = "new"
    BY <1>1 DEF OneHistory
  <2>1. path = f
    BY <1>1, <1>2, FilesAssumption DEF FilesAssumption, OneHistory, Files
  <2>2. file'[path].schema = "new" /\ path # 0
    BY <1>1, <1>2, <1>3, <2>1, FilesAssumption DEF FilesAssumption, Files, TypeOK
  <2>3. CASE q = p
    BY <1>1, <2>1, <2>2, <2>3 DEF OneHistory
  <2>4. CASE q # p
    BY <1>1, <2>2, <2>4 DEF OneHistory, Others
  <2> QED
    BY <2>3, <2>4
<1> QED
  BY <1>5, <1>6, <1>7, <1>8, <1>9

\* Giving up, beginning an upgrade, or creating the table.
LEMMA InitializeIInv ==
    ASSUME IInv, NEW p \in Procs, Initialize(p)
    PROVE  IInv'
<1> USE DEF IInv
<1> DEFINE f == proc[p].main
<1>1. proc[p].pc = "begin" /\ UNCHANGED <<path, legacy, spoiled>>
  BY DEF Initialize
<1>2. f \in Files
  BY <1>1, MainIsAFile DEF Opened
<1>3. CASE Become(p, Off) /\ UNCHANGED file
  BY <1>1, <1>3, OffStep, QuietIInv
<1>4. CASE /\ ~Locked(f) /\ file[f].schema = "old" /\ UNCHANGED file
           /\ Become(p, [proc[p] EXCEPT !.pc = "upgrade", !.work = file[f]])
  <2>1. /\ proc' \in [Procs -> Process] /\ Others(p)
        /\ proc'[p].pc = "upgrade" /\ proc'[p].main = f
        /\ proc'[p].worker = proc[p].worker /\ proc'[p].work = file[f]
    BY <1>2, <1>4, BeginUpgradeStep
  <2>2. TypeOK' /\ FilesAreWhole'
    BY <1>1, <1>4, <2>1 DEF TypeOK, FilesAreWhole
  <2>3. OpenWhenOpened'
    BY <1>1, <2>1 DEF OpenWhenOpened, Opened, Others
  <2>4. UpgradesAlone'
    <3>1. file[f].blob = {}
      BY <1>2, <1>4 DEF FilesAreWhole, FileIsWhole
    <3>2. \A q \in Procs : q # p => ~(proc'[q].pc = "upgrade" /\ proc'[q].main = f)
      BY <1>4, <2>1 DEF Locked, Others
    <3> QED
      BY <1>4, <2>1, <3>1, <3>2 DEF UpgradesAlone, Others
  <2>5. PathsAgree' /\ OneHistory'
    BY <1>1, <1>4, <2>1 DEF PathsAgree, OneHistory, Others
  <2> QED
    BY <2>2, <2>3, <2>4, <2>5
<1>5. CASE /\ ~Locked(f) /\ file[f].schema # "old" /\ Goto(p, "ready")
           /\ file' = [file EXCEPT ![f].schema = "new"]
  <2> DEFINE fresh == [file[f] EXCEPT !.schema = "new"]
  <2>1. /\ proc' \in [Procs -> Process] /\ Others(p)
        /\ proc'[p].pc = "ready" /\ proc'[p].main = f
        /\ proc'[p].worker = proc[p].worker /\ proc'[p].work = proc[p].work
    BY <1>5, GotoStep DEF PCs
  <2>2. fresh \in File /\ fresh.schema = "new" /\ fresh.rows = file[f].rows /\ fresh.blob = file[f].blob
    BY <1>2 DEF TypeOK, File
  <2>3. FileIsWhole(fresh)
    BY <1>2, <1>5, <2>2 DEF FilesAreWhole, FileIsWhole, TypeOK, File
  <2>4. file' = [file EXCEPT ![f] = fresh]
    BY <1>5
  <2> HIDE DEF fresh
  <2>5. TypeOK' /\ FilesAreWhole'
    BY <1>1, <1>2, <2>1, <2>2, <2>3, <2>4 DEF TypeOK, FilesAreWhole
  <2>6. OpenWhenOpened'
    BY <1>1, <2>1 DEF OpenWhenOpened, Opened, Others
  <2>7. UpgradesAlone'
    <3>1. \A q \in Procs : proc'[q].pc = "upgrade" => /\ proc[q].pc = "upgrade" /\ proc'[q] = proc[q]
                                                    /\ proc[q].main # f
      BY <1>5, <2>1 DEF Others, Locked
    <3>2. \A q \in Procs : proc'[q].pc = "upgrade" => file'[proc[q].main] = file[proc[q].main]
      BY <2>4, <3>1, MainIsAFile DEF TypeOK, Opened
    <3> QED
      BY <3>1, <3>2 DEF UpgradesAlone
  <2>8. PathsAgree'
    BY <1>1, <2>1 DEF PathsAgree, Others
  <2>9. OneHistory'
    <3> SUFFICES ASSUME ~spoiled, NEW q \in Procs
                 PROVE  /\ {proc'[q].main, proc'[q].worker} \subseteq {0, path}
                        /\ proc'[q].pc = "ready" => path # 0 /\ file'[path].schema = "new"
      BY <1>1 DEF OneHistory
    <3>1. path = f
      BY <1>1, <1>2, FilesAssumption DEF FilesAssumption, OneHistory, Files
    <3> QED
      BY <1>1, <1>2, <2>1, <2>2, <2>4, <3>1, FilesAssumption
         DEF FilesAssumption, Files, OneHistory, Others, TypeOK
  <2> QED
    BY <2>5, <2>6, <2>7, <2>8, <2>9
<1> QED
  BY <1>3, <1>4, <1>5 DEF Initialize

\* Purging spoils the history, which is all that OneHistory and PathsAgree ask for.
LEMMA NextIInv == IInv /\ [Next]_vars => IInv'
<1> SUFFICES ASSUME IInv, [Next]_vars PROVE IInv'
  OBVIOUS
<1>1. ASSUME NEW p \in Procs, Open(p) PROVE IInv'
  <2>1. proc[p].main = 0 /\ proc[p].worker = 0 /\ UNCHANGED <<file, path, legacy, spoiled>>
    BY <1>1 DEF Open, IInv, OpenWhenOpened, Opened
  <2>2. Goto(p, "check") /\ "check" \in PCs /\ TypeOK
    BY <1>1 DEF Open, PCs, IInv
  <2> QED
    BY <2>1, <2>2, GotoStep, QuietIInv
<1>2. ASSUME NEW p \in Procs, Check(p) PROVE IInv'
  <2> DEFINE next == IF path = 0 /\ legacy # 0 THEN "move" ELSE "connect"
  <2>1. proc[p].main = 0 /\ proc[p].worker = 0 /\ UNCHANGED <<file, path, legacy, spoiled>>
    BY <1>2 DEF Check, IInv, OpenWhenOpened, Opened
  <2>2. Goto(p, next) /\ next \in PCs /\ TypeOK
    BY <1>2 DEF Check, PCs, IInv
  <2> QED
    BY <2>1, <2>2, GotoStep, QuietIInv
<1>3. ASSUME NEW p \in Procs, Leave(p) PROVE IInv'
  BY <1>3, OffStep, QuietIInv DEF Leave, IInv
<1>4. CASE Purge
  <2>1. TypeOK'
    BY <1>4, FilesAssumption DEF FilesAssumption, IInv, TypeOK, Purge
  <2> QED
    BY <1>4, <2>1 DEF Purge, IInv, FilesAreWhole, OpenWhenOpened, UpgradesAlone, PathsAgree, OneHistory
<1>5. CASE UNCHANGED vars
  BY <1>5 DEF vars, IInv, TypeOK, FilesAreWhole, OpenWhenOpened, UpgradesAlone, PathsAgree, OneHistory
<1> QED
  BY <1>1, <1>2, <1>3, <1>4, <1>5, MoveIInv, ConnectMainIInv, InitializeIInv, UpgradeRowIInv,
     UpgradeEndIInv, ConnectWorkerIInv DEF Next, Store

\* The inductive invariant holds in every reachable state.
THEOREM Invariance == Spec => []IInv
<1> QED
  BY InitIInv, NextIInv, PTL DEF Spec

\* Files, paths and processes keep their types.
THEOREM TypeCorrect == Spec => []TypeOK
  BY Invariance, PTL DEF IInv

\* Wherever the upgrades die, every file has the rows and the bytes its schema promises.
THEOREM FilesAreNeverHalfUpgraded == Spec => []UpgradeIsWhole
<1>1. IInv => UpgradeIsWhole
  BY DEF IInv, FilesAreWhole, FileIsWhole, UpgradeIsWhole
<1> QED
  BY <1>1, Invariance, PTL

\* Whoever moves or makes the file, everybody else has that one open.
THEOREM EverybodyHasOneHistory == Spec => []OneHistory
  BY Invariance, PTL DEF IInv

--------------------------------------------------------------------------------
(* No readable row is lost *)

\* The claim about one step; V1RowsSurvive says it of every step.
RowsStay ==
    ~spoiled' =>
       \A f \in {path, legacy} \ {0} :
          \E g \in {path', legacy'} \ {0} : file[f].rows \ Broken \subseteq file'[g].rows

\* Where the names stay, it is enough that no file loses a row.
LEMMA NamesStay ==
    ASSUME TypeOK, UNCHANGED <<path, legacy>>,
           \A f \in Files : file[f].rows \ Broken \subseteq file'[f].rows
    PROVE  RowsStay
<1>1. \A f \in {path, legacy} \ {0} : f \in Files
  BY FilesAssumption DEF FilesAssumption, TypeOK, Files
<1> QED
  BY <1>1 DEF RowsStay

\* A connection overwrites nothing but an unused file, which has no rows.
LEMMA ConnectsRowsStay ==
    ASSUME IInv, NEW f \in Files, Connects(f), UNCHANGED legacy
    PROVE  RowsStay
<1>1. CASE f = path /\ UNCHANGED <<file, path>>
  BY <1>1, NamesStay DEF IInv
<1>2. CASE path = 0 /\ file[f] = Unused /\ file' = [file EXCEPT ![f] = Empty] /\ path' = f
  <2>1. \A h \in Files : file[h].rows \ Broken \subseteq file'[h].rows
    <3>1. file[f].rows = {}
      BY <1>2 DEF Unused
    <3> QED
      BY <1>2, <3>1 DEF IInv, TypeOK
  <2>2. legacy # 0 => legacy \in Files
    BY FilesAssumption DEF FilesAssumption, IInv, TypeOK, Files
  <2> QED
    BY <1>2, <2>1, <2>2 DEF RowsStay
<1> QED
  BY <1>1, <1>2 DEF Connects

\* The commit of an upgrade keeps every row of the file that could be decoded.
LEMMA UpgradeEndRowsStay ==
    ASSUME IInv, NEW p \in Procs, UpgradeEnd(p)
    PROVE  RowsStay
<1> DEFINE f == proc[p].main
<1>1. /\ proc[p].pc = "upgrade" /\ UNCHANGED <<path, legacy>>
      /\ file' = [file EXCEPT ![f] = [proc[p].work EXCEPT !.schema = "new"]]
  BY DEF UpgradeEnd
<1>2. f \in Files
  BY <1>1, MainIsAFile DEF Opened
<1>3. file[f].rows \ Broken \subseteq proc[p].work.rows
  BY <1>1 DEF IInv, UpgradesAlone
<1>4. [proc[p].work EXCEPT !.schema = "new"].rows = proc[p].work.rows
  BY Fields DEF IInv, TypeOK, File
<1>5. file'[f].rows = proc[p].work.rows
  BY <1>1, <1>2, <1>4 DEF IInv, TypeOK
<1>6. \A h \in Files : file[h].rows \ Broken \subseteq file'[h].rows
  BY <1>1, <1>2, <1>3, <1>5 DEF IInv, TypeOK
<1> QED
  BY <1>1, <1>6, NamesStay DEF IInv

\* Creating the table leaves the rows alone.
LEMMA InitializeRowsStay ==
    ASSUME IInv, NEW p \in Procs, Initialize(p)
    PROVE  RowsStay
<1> DEFINE f == proc[p].main
<1>1. proc[p].pc = "begin" /\ UNCHANGED <<path, legacy>>
  BY DEF Initialize
<1>2. f \in Files
  BY <1>1, MainIsAFile DEF Opened
<1>3. UNCHANGED file \/ file' = [file EXCEPT ![f].schema = "new"]
  BY DEF Initialize
<1>4. [file[f] EXCEPT !.schema = "new"].rows = file[f].rows
  BY <1>2 DEF IInv, TypeOK, File
<1>5. \A h \in Files : file[h].rows \ Broken \subseteq file'[h].rows
  BY <1>2, <1>3, <1>4 DEF IInv, TypeOK
<1> QED
  BY <1>1, <1>5, NamesStay DEF IInv

\* The move takes the old file to a path where there is none; every other step changes no file.
LEMMA NextRowsStay == IInv /\ [Next]_vars => RowsStay
<1> SUFFICES ASSUME IInv, [Next]_vars PROVE RowsStay
  OBVIOUS
<1>1. ASSUME UNCHANGED <<file, path, legacy>> PROVE RowsStay
  BY <1>1, NamesStay DEF IInv
<1>2. ASSUME NEW p \in Procs, Move(p) PROVE RowsStay
  <2>1. proc[p].pc = "move" /\ UNCHANGED file
    BY <1>2 DEF Move
  <2>2. CASE legacy # 0 /\ path' = legacy /\ legacy' = 0 /\ UNCHANGED spoiled
    BY <2>1, <2>2 DEF RowsStay, IInv, PathsAgree
  <2> QED
    BY <1>1, <1>2, <2>1, <2>2 DEF Move
<1>3. ASSUME NEW p \in Procs, Store(p) PROVE RowsStay
  <2>1. ConnectMain(p) \/ ConnectWorker(p) => RowsStay
    BY ConnectsRowsStay DEF ConnectMain, ConnectWorker
  <2>2. Open(p) \/ Check(p) \/ UpgradeRow(p) \/ Leave(p) => RowsStay
    BY <1>1 DEF Open, Check, UpgradeRow, Leave
  <2> QED
    BY <1>2, <1>3, <2>1, <2>2, UpgradeEndRowsStay, InitializeRowsStay DEF Store
<1>4. CASE Purge
  BY <1>4 DEF Purge, RowsStay
<1>5. CASE UNCHANGED vars
  BY <1>1, <1>5 DEF vars
<1> QED
  BY <1>3, <1>4, <1>5 DEF Next

\* However the processes that open the store interleave and die, a row of version 1 that can be
\* read is at one of the two places after each step.
THEOREM NoRowIsLost == Spec => V1RowsSurvive
<1>1. IInv /\ [Next]_vars => RowsStay
  BY NextRowsStay
<1> QED
  BY <1>1, Invariance, PTL DEF Spec, V1RowsSurvive, RowsStay

================================================================================
