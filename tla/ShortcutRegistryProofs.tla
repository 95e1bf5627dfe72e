------------------------ MODULE ShortcutRegistryProofs -------------------------
(***************************************************************************)
(* Proofs about ShortcutRegistry, for every set of shortcuts, keyboard     *)
(* layouts and plans.  The invariant says which slots are ready - command  *)
(* and binding written - at every point of a run: the slots of the plan    *)
(* once they have all been written, and every slot of a list that was read *)
(* and is about to be written back.                                        *)
(***************************************************************************)
EXTENDS ShortcutRegistry, TLAPS

Ready(s) == keys[s].command = "ours" /\ keys[s].binding # NoBinding

\* The points of install() before the list is read, and those of uninstall() alone.
Writing == job.pc \in {"command", "binding"}
Restoring == job.pc \in {"trayread", "trayback"}

\* The points between reading the list and writing what was read.
Holding == job.pc \in {"classify", "write", "takewrite", "touchdrop", "touchfull"}

\* Which operation is at which point, and with which plan.
OpFits ==
    /\ job.op = "install" => job.plan \in Plans
    /\ Writing => job.op = "install" /\ job.at < Len(job.plan)
    /\ Restoring => job.op = "uninstall"
    /\ job.pc \in {"read", "classify", "write", "forget"} => job.op \in {"install", "uninstall"}
    /\ job.pc \in {"conflict", "foreign", "takeread", "takewrite", "reload", "touchread",
                   "touchdrop", "touchfull"} => job.op = "install"

\* While no write has failed the slots before the current one are ready.
WrittenSlots ==
    Writing /\ ~job.failed =>
        /\ \A s \in 0 .. job.at - 1 : Ready(s)
        /\ At("binding") => keys[job.at].command = "ours"

\* Once they have all been written the slots of the plan are ready.
PlannedSlots ==
    ~At("idle") /\ ~Writing /\ job.op = "install" => \A s \in Ours : Ready(s)

\* The slots of a list that will be written back are ready.
HeldSlots == Holding => \A s \in job.paths \cap Slots : Ready(s)

\* What will be emptied is on no list and is not of this plan.
Discarded ==
    /\ At("write") => job.todo \subseteq job.paths \ (IF job.op = "install" THEN Ours ELSE {})
    /\ job.pc \in {"conflict", "forget"} =>
          \A s \in job.todo \cap Slots :
              s \notin list /\ (job.op = "install" => s \notin Ours)

IInv ==
    /\ TypeOK
    /\ OpFits /\ WrittenSlots /\ PlannedSlots /\ HeldSlots /\ Discarded
    /\ ListedSlotsAnswer

-----------------------------------------------------------------------------
(* How job moves.                                                          *)

\* A job that goes on keeps its plan, its place and its failures.
LEMMA Moved ==
    ASSUME NEW j \in Job, NEW pc \in Pcs, NEW o, Goto(pc, j, o)
    PROVE  /\ job' \in Job
           /\ job'.pc = pc
           /\ job'.op = j.op /\ job'.plan = j.plan /\ job'.at = j.at
           /\ job'.failed = j.failed /\ job'.paths = j.paths /\ job'.todo = j.todo
BY DEF Goto, Job

\* No install or uninstall is under way.
LEMMA NoJobTyped == NoJob \in Job
BY RegistryAssumption DEF RegistryAssumption, NoJob, Job, Pcs, Slots

\* A job that returns is idle and still says what it was.
LEMMA Returned ==
    ASSUME TypeOK, NEW ok \in BOOLEAN, NEW o, Return(ok, o)
    PROVE  /\ job' \in Job
           /\ job'.pc = "idle" /\ job'.op = job.op /\ job'.plan = job.plan
<1>1. NoJob \in Job
  BY NoJobTyped
<1>2. job \in Job
  BY DEF TypeOK
<1>3. job.op \in {"none", "install", "uninstall"} /\ job.plan \in Plans \cup {<<>>}
      /\ job.take \in BOOLEAN /\ job.start \in SUBSET Paths /\ job.alone \in BOOLEAN
      /\ (job.clean /\ o = "done") \in BOOLEAN
  BY <1>2 DEF Job
<1>4. job' = [NoJob EXCEPT !.op = job.op, !.plan = job.plan, !.take = job.take,
                           !.ok = ok, !.start = job.start, !.alone = job.alone,
                           !.clean = job.clean /\ o = "done"]
  BY DEF Return
<1>5. job' \in Job
  BY <1>1, <1>3, <1>4 DEF Job
<1>6. job'.pc = "idle" /\ job'.op = job.op /\ job'.plan = job.plan
  BY <1>1, <1>4 DEF Job, NoJob
<1> QED
  BY <1>5, <1>6

\* A run that is over owes nothing but what always holds.
LEMMA AtRest ==
    ASSUME TypeOK', job'.pc = "idle", job'.op = "install" => job'.plan \in Plans,
           ListedSlotsAnswer'
    PROVE  IInv'
BY DEF IInv, OpFits, WrittenSlots, PlannedSlots, HeldSlots, Discarded, At, Writing,
       Restoring, Holding

\* The slots of a plan are slots, and its bindings are bindings.
LEMMA PlanFits ==
    ASSUME TypeOK, OpFits, job.op = "install"
    PROVE  /\ Len(job.plan) \in 1 .. MaxExtraSlots + 1
           /\ Ours = 0 .. Len(job.plan) - 1
           /\ \A i \in Ours : job.plan[i + 1] \in Bindings
           /\ KEY_PATH \in Ours
<1>1. job.plan \in Plans
  BY DEF OpFits
<1>2. job.plan \in Seq(Bindings) /\ Len(job.plan) \in 1 .. MaxExtraSlots + 1
  BY <1>1, RegistryAssumption DEF RegistryAssumption
<1>3. Ours = 0 .. Len(job.plan) - 1
  BY <1>2, RegistryAssumption DEF Ours, Slots, RegistryAssumption
<1> QED
  BY <1>2, <1>3 DEF KEY_PATH

-----------------------------------------------------------------------------
(* IInv holds at the start and is kept by every step.                      *)

\* An idle registry satisfies the invariant.
LEMMA InitIInv == Init => IInv
<1> SUFFICES ASSUME Init PROVE IInv
  OBVIOUS
<1>1. TypeOK
  BY NoJobTyped, RegistryAssumption DEF Init, TypeOK, RegistryAssumption, Keys, NoKeys
<1>2. job.pc = "idle" /\ job.op = "none" /\ list = {}
  BY DEF Init, NoJob
<1> QED
  BY <1>1, <1>2 DEF IInv, OpFits, WrittenSlots, PlannedSlots, HeldSlots, Discarded, At,
     Writing, Restoring, Holding, ListedSlotsAnswer

\* Starting an install writes nothing.
LEMMA InstallKeeps ==
    ASSUME IInv, NEW plan \in Plans, NEW take \in BOOLEAN, Install(plan, take)
    PROVE  IInv'
<1>1. /\ job' \in Job
      /\ job'.op = "install" /\ job'.pc = "command" /\ job'.plan = plan /\ job'.at = 0
      /\ job'.failed = FALSE
  BY NoJobTyped DEF IInv, Install, NoJob, Job, Pcs, TypeOK
<1>2. TypeOK' /\ ListedSlotsAnswer'
  BY <1>1 DEF IInv, Install, TypeOK, ListedSlotsAnswer
<1>3. OpFits'
  BY <1>1, RegistryAssumption DEF OpFits, Writing, Restoring, RegistryAssumption
<1>4. WrittenSlots'
  BY <1>1 DEF WrittenSlots, At
<1> QED
  BY <1>1, <1>2, <1>3, <1>4 DEF IInv, PlannedSlots, HeldSlots, Discarded, At, Writing, Holding

\* Starting an uninstall writes nothing.
LEMMA UninstallKeeps == IInv /\ Uninstall => IInv'
<1> SUFFICES ASSUME IInv, Uninstall PROVE IInv'
  OBVIOUS
<1>1. job' \in Job /\ job'.op = "uninstall" /\ job'.pc = "read"
  BY NoJobTyped DEF IInv, Uninstall, NoJob, Job, Pcs, TypeOK
<1>2. TypeOK' /\ ListedSlotsAnswer'
  BY <1>1 DEF IInv, Uninstall, TypeOK, ListedSlotsAnswer
<1> QED
  BY <1>1, <1>2 DEF IInv, OpFits, WrittenSlots, PlannedSlots, HeldSlots, Discarded, At,
     Writing, Restoring, Holding

\* Writing the command leaves a slot that is not listed yet, or one already complete.
LEMMA WriteCommandKeeps ==
    ASSUME IInv, NEW o \in Outcomes, WriteCommand(o)
    PROVE  IInv'
<1> DEFINE j == [job EXCEPT !.failed = @ \/ o # "done"]
<1>1. j \in Job /\ j.op = job.op /\ j.plan = job.plan /\ j.at = job.at
      /\ j.failed = (job.failed \/ o # "done") /\ job.failed \in BOOLEAN /\ job.at \in Slots
  BY DEF IInv, TypeOK, Job
<1>2. Goto("binding", j, o) /\ job.pc = "command"
  BY DEF WriteCommand, At
<1> HIDE DEF j
<1>3. /\ job' \in Job /\ job'.pc = "binding" /\ job'.op = job.op /\ job'.plan = job.plan
      /\ job'.at = job.at /\ job'.failed = (job.failed \/ o # "done")
  BY <1>1, <1>2, Moved DEF Pcs
<1>4. keys' \in [Paths -> Keys]
  BY <1>1 DEF IInv, TypeOK, WriteCommand, Keys, Paths
<1>5. TypeOK'
  BY <1>3, <1>4 DEF IInv, TypeOK, WriteCommand
<1>6. \A s \in Slots : Ready(s) => Ready(s)'
  BY <1>1 DEF IInv, TypeOK, WriteCommand, Ready, Keys, Paths
<1>7. ListedSlotsAnswer'
  BY <1>6 DEF IInv, ListedSlotsAnswer, WriteCommand, Ready
<1>8. OpFits'
  BY <1>2, <1>3 DEF IInv, OpFits, Writing, Restoring
<1>9. WrittenSlots'
  <2> SUFFICES ASSUME ~job'.failed
               PROVE  /\ \A s \in 0 .. job'.at - 1 : Ready(s)'
                      /\ keys'[job'.at].command = "ours"
    BY DEF WrittenSlots
  <2>1. ~job.failed /\ o = "done"
    BY <1>1, <1>3
  <2>2. 0 .. job'.at - 1 \subseteq Slots
    BY <1>1, <1>3, RegistryAssumption DEF Slots, RegistryAssumption
  <2>3. \A s \in 0 .. job'.at - 1 : Ready(s)'
    BY <1>2, <1>3, <1>6, <2>1, <2>2 DEF IInv, WrittenSlots, Writing
  <2>4. keys'[job'.at].command = "ours"
    BY <1>1, <1>3, <2>1 DEF IInv, TypeOK, WriteCommand, Applied, Keys, Paths
  <2> QED
    BY <2>3, <2>4
<1> QED
  BY <1>3, <1>5, <1>7, <1>8, <1>9 DEF IInv, PlannedSlots, HeldSlots, Discarded, At, Writing,
     Holding

\* A slot whose three keys were written and read back is complete.
LEMMA WriteBindingKeeps ==
    ASSUME IInv, NEW o \in Outcomes, WriteBinding(o)
    PROVE  IInv'
<1> DEFINE failed == job.failed \/ o # "done"
           next == [job EXCEPT !.failed = failed, !.at = @ + 1]
<1>1. /\ job.pc = "binding" /\ job.op = "install" /\ job \in Job /\ job.at \in Slots
      /\ job.failed \in BOOLEAN /\ job.at < Len(job.plan) /\ job.plan \in Plans
  BY DEF WriteBinding, At, IInv, TypeOK, OpFits, Writing, Job
<1>2. /\ Len(job.plan) \in 1 .. MaxExtraSlots + 1 /\ Ours = 0 .. Len(job.plan) - 1
      /\ job.plan[job.at + 1] \in Bindings
  BY <1>1, PlanFits DEF IInv, Slots
<1>3. job.at \in Paths
  BY <1>1 DEF Paths
<1>4. keys' \in [Paths -> Keys]
  BY <1>2, <1>3 DEF IInv, TypeOK, WriteBinding, Keys
<1>5. \A s \in Slots : Ready(s) => Ready(s)'
  BY <1>2, <1>3, RegistryAssumption
     DEF IInv, TypeOK, WriteBinding, Ready, Keys, Paths, RegistryAssumption
<1>6. ListedSlotsAnswer'
  BY <1>5 DEF IInv, ListedSlotsAnswer, WriteBinding, Ready
<1>7. ~failed => \A s \in 0 .. job.at : Ready(s)'
  <2> SUFFICES ASSUME ~failed, NEW s \in 0 .. job.at PROVE Ready(s)'
    OBVIOUS
  <2>1. s \in Slots
    BY <1>1, RegistryAssumption DEF Slots, RegistryAssumption
  <2>2. CASE s # job.at
    BY <1>1, <1>5, <2>1, <2>2 DEF IInv, WrittenSlots, Writing, Slots
  <2>3. CASE s = job.at
    <3>1. keys[s].command = "ours"
      BY <1>1, <2>3 DEF IInv, WrittenSlots, Writing, At
    <3>2. keys' = [keys EXCEPT ![job.at].binding = job.plan[job.at + 1]]
      BY DEF WriteBinding, Applied
    <3>3. keys \in [Paths -> Keys]
      BY DEF IInv, TypeOK
    <3> QED
      BY <1>2, <1>3, <2>3, <3>1, <3>2, <3>3, RegistryAssumption
         DEF Ready, Keys, RegistryAssumption
  <2> QED
    BY <2>2, <2>3
<1>8. CASE job.at + 1 # Len(job.plan) /\ Goto("command", next, o)
  <2>1. job.at + 1 \in Slots /\ job.at + 1 < Len(job.plan)
    BY <1>1, <1>2, <1>8, RegistryAssumption DEF Slots, RegistryAssumption
  <2>2. next \in Job /\ next.op = job.op /\ next.plan = job.plan /\ next.at = job.at + 1
        /\ next.failed = failed
    BY <1>1, <2>1 DEF Job
  <2> HIDE DEF next
  <2>3. /\ job' \in Job /\ job'.pc = "command" /\ job'.op = job.op /\ job'.plan = job.plan
        /\ job'.at = job.at + 1 /\ job'.failed = failed
    BY <1>8, <2>2, Moved DEF Pcs
  <2>4. TypeOK' /\ OpFits'
    BY <1>1, <1>4, <2>1, <2>3 DEF IInv, TypeOK, WriteBinding, OpFits, Writing, Restoring
  <2>5. job'.at - 1 = job.at
    BY <1>1, <2>3 DEF Slots
  <2>6. WrittenSlots'
    BY <1>7, <2>3, <2>5 DEF WrittenSlots, At
  <2> QED
    BY <1>6, <2>3, <2>4, <2>6 DEF IInv, PlannedSlots, HeldSlots, Discarded, At, Writing, Holding
<1>9. CASE Return(FALSE, o)
  <2>1. job' \in Job /\ job'.pc = "idle" /\ job'.op = job.op /\ job'.plan = job.plan
    BY <1>9, Returned DEF IInv
  <2> QED
    BY <1>1, <1>4, <1>6, <2>1, AtRest DEF IInv, TypeOK, WriteBinding
<1>10. CASE job.at + 1 = Len(job.plan) /\ ~failed /\ Goto("read", job, o)
  <2>1. job' \in Job /\ job'.pc = "read" /\ job'.op = job.op /\ job'.plan = job.plan
    BY <1>1, <1>10, Moved DEF Pcs
  <2>2. TypeOK' /\ OpFits'
    BY <1>1, <1>4, <2>1 DEF IInv, TypeOK, WriteBinding, OpFits, Writing, Restoring
  <2>3. Ours' = 0 .. job.at
    BY <1>1, <1>2, <1>10, <2>1 DEF Ours, Slots
  <2>4. PlannedSlots'
    BY <1>7, <1>10, <2>3 DEF PlannedSlots
  <2> QED
    BY <1>6, <2>1, <2>2, <2>4
       DEF IInv, WrittenSlots, HeldSlots, Discarded, At, Writing, Holding
<1> QED
  BY <1>8, <1>9, <1>10 DEF WriteBinding

\* A step of a run that changes no slot keeps the slots of the plan ready.
LEMMA PlannedStay ==
    ASSUME IInv, ~At("idle"), ~Writing, \A s \in Slots : keys'[s] = keys[s],
           job'.op = job.op, job'.plan = job.plan
    PROVE  PlannedSlots'
<1>1. Ours' = Ours
  BY DEF Ours
<1>2. Ours \subseteq Slots
  BY DEF Ours
<1> QED
  BY <1>1, <1>2 DEF IInv, PlannedSlots, Ready

\* Reading the list changes no key.
LEMMA ReadListKeeps ==
    ASSUME IInv, NEW o \in Outcomes, ReadList(o)
    PROVE  IInv'
<1> DEFINE j == [job EXCEPT !.paths = ListRead(o)]
<1>1. job.pc = "read" /\ Goto("classify", j, o)
  BY DEF ReadList, At
<1>2. ListRead(o) \subseteq list /\ list \subseteq Paths
  BY DEF ListRead, IInv, TypeOK
<1>3. j \in Job /\ j.op = job.op /\ j.plan = job.plan /\ j.paths = ListRead(o)
  BY <1>2 DEF IInv, TypeOK, Job
<1> HIDE DEF j
<1>4. /\ job' \in Job /\ job'.pc = "classify" /\ job'.op = job.op /\ job'.plan = job.plan
      /\ job'.paths = ListRead(o)
  BY <1>1, <1>3, Moved DEF Pcs
<1>5. TypeOK' /\ OpFits' /\ ListedSlotsAnswer'
  BY <1>1, <1>4 DEF IInv, TypeOK, ReadList, OpFits, Writing, Restoring, ListedSlotsAnswer
<1>6. PlannedSlots'
  BY <1>1, <1>4, PlannedStay DEF ReadList, At, Writing
<1>7. HeldSlots'
  BY <1>2, <1>4 DEF IInv, HeldSlots, ListedSlotsAnswer, Ready, ReadList
<1> QED
  BY <1>4, <1>5, <1>6, <1>7 DEF IInv, WrittenSlots, Discarded, At, Writing

\* Classifying the listed entries changes no key.
LEMMA ClassifyKeeps ==
    ASSUME IInv, NEW unread, Classify(unread)
    PROVE  IInv'
<1> DEFINE j == [job EXCEPT !.todo = Duplicates(unread)]
           o == IF unread = {} THEN "done" ELSE "refused"
<1>1. job.pc = "classify" /\ Goto("write", j, o) /\ job.op \in {"install", "uninstall"}
  BY DEF Classify, At, IInv, OpFits
<1>2. Duplicates(unread) \subseteq job.paths \ (IF job.op = "install" THEN Ours ELSE {})
  BY DEF Duplicates, Owned
<1>3. j \in Job /\ j.op = job.op /\ j.plan = job.plan /\ j.paths = job.paths
      /\ j.todo = Duplicates(unread)
  BY <1>2 DEF IInv, TypeOK, Job
<1> HIDE DEF j, o
<1>4. /\ job' \in Job /\ job'.pc = "write" /\ job'.op = job.op /\ job'.plan = job.plan
      /\ job'.paths = job.paths /\ job'.todo = Duplicates(unread)
  BY <1>1, <1>3, Moved DEF Pcs
<1>5. TypeOK' /\ OpFits' /\ ListedSlotsAnswer'
  BY <1>1, <1>4 DEF IInv, TypeOK, Classify, OpFits, Writing, Restoring, ListedSlotsAnswer
<1>6. PlannedSlots'
  BY <1>1, <1>4, PlannedStay DEF Classify, At, Writing
<1>7. HeldSlots'
  BY <1>1, <1>4 DEF IInv, HeldSlots, Holding, Ready, Classify
<1>8. Discarded'
  BY <1>2, <1>4 DEF Discarded, Ours, At
<1> QED
  BY <1>4, <1>5, <1>6, <1>7, <1>8 DEF IInv, WrittenSlots, Writing

\* A run that returns, having changed no slot.
LEMMA ReturnKeeps ==
    ASSUME IInv, NEW ok \in BOOLEAN, NEW o, Return(ok, o),
           list' \subseteq Paths, tray' \in Bindings \cup {NoBinding}, keys' = keys,
           \A s \in list' \cap Slots : Ready(s)
    PROVE  IInv'
<1>1. job' \in Job /\ job'.pc = "idle" /\ job'.op = job.op /\ job'.plan = job.plan
  BY Returned DEF IInv
<1>2. TypeOK'
  BY <1>1 DEF IInv, TypeOK
<1>3. ListedSlotsAnswer'
  BY DEF ListedSlotsAnswer, Ready
<1> QED
  BY <1>1, <1>2, <1>3, AtRest DEF IInv, OpFits

\* The list that is written holds complete slots and what was there before.
LEMMA WriteListKeeps ==
    ASSUME IInv, NEW o \in Outcomes, WriteList(o)
    PROVE  IInv'
<1>1. /\ job.pc = "write" /\ job.op \in {"install", "uninstall"} /\ job \in Job
      /\ keys' = keys /\ tray' = tray
  BY DEF WriteList, At, IInv, OpFits, TypeOK
<1>2. Kept \subseteq Paths /\ \A s \in Kept \cap Slots : Ready(s)
  <2>1. \A s \in job.paths \cap Slots : Ready(s)
    BY <1>1 DEF IInv, HeldSlots, Holding
  <2>2. job.op = "install" => \A s \in Ours : Ready(s)
    BY <1>1 DEF IInv, PlannedSlots, At, Writing
  <2>3. job.paths \subseteq Paths /\ Ours \subseteq Paths
    BY <1>1 DEF Job, Ours, Paths
  <2> QED
    BY <2>1, <2>2, <2>3 DEF Kept
<1>3. list' \subseteq Paths /\ \A s \in list' \cap Slots : Ready(s)
  BY <1>2 DEF WriteList, SetList, IInv, TypeOK, ListedSlotsAnswer, Ready
<1>4. CASE Return(FALSE, o)
  BY <1>1, <1>3, <1>4, ReturnKeeps DEF IInv, TypeOK
<1>5. CASE o = "done" /\ Goto(AfterList, job, o)
  <2>1. /\ job' \in Job /\ job'.pc = AfterList /\ job'.op = job.op /\ job'.plan = job.plan
        /\ job'.todo = job.todo
    BY <1>1, <1>5, Moved DEF Pcs, AfterList
  <2>2. TypeOK' /\ OpFits' /\ ListedSlotsAnswer'
    BY <1>1, <1>3, <2>1 DEF IInv, TypeOK, OpFits, Writing, Restoring, AfterList,
       ListedSlotsAnswer, Ready
  <2>3. PlannedSlots'
    BY <1>1, <2>1, PlannedStay DEF At, Writing
  <2>4. Discarded'
    <3>1. list' = Kept
      BY <1>5 DEF WriteList, SetList, Applied
    <3>2. job.todo \subseteq job.paths \ (IF job.op = "install" THEN Ours ELSE {})
      BY <1>1 DEF IInv, Discarded, At
    <3>3. Ours' = Ours
      BY <2>1 DEF Ours
    <3> QED
      BY <1>1, <2>1, <3>1, <3>2, <3>3 DEF Discarded, Kept, AfterList, At
  <2> QED
    BY <2>1, <2>2, <2>3, <2>4
       DEF IInv, WrittenSlots, HeldSlots, AfterList, At, Writing, Holding
<1> QED
  BY <1>4, <1>5 DEF WriteList

\* An uninstall with nothing listed leaves the list alone.
LEMMA SkipListKeeps == IInv /\ SkipList => IInv'
<1> SUFFICES ASSUME IInv, SkipList PROVE IInv'
  OBVIOUS
<1>1. /\ job.pc = "write" /\ job.op \in {"install", "uninstall"} /\ job \in Job
      /\ keys' = keys /\ tray' = tray /\ list' = list /\ Kept = job.paths
  BY DEF SkipList, At, IInv, OpFits, TypeOK
<1>2. /\ job' \in Job /\ job'.pc = AfterList /\ job'.op = job.op /\ job'.plan = job.plan
      /\ job'.todo = job.todo
  BY <1>1, Moved DEF Pcs, AfterList, SkipList
<1>3. TypeOK' /\ OpFits' /\ ListedSlotsAnswer'
  BY <1>1, <1>2 DEF IInv, TypeOK, OpFits, Writing, Restoring, AfterList, ListedSlotsAnswer
<1>4. PlannedSlots'
  BY <1>1, <1>2, PlannedStay DEF At, Writing
<1>5. job.todo = {}
  BY <1>1 DEF IInv, Discarded, At, Kept
<1> QED
  BY <1>2, <1>3, <1>4, <1>5
     DEF IInv, WrittenSlots, HeldSlots, Discarded, AfterList, At, Writing, Holding

\* A conflict that takes a hand-made shortcut's key edits only its binding.
LEMMA ConflictKeeps ==
    ASSUME IInv, NEW r \in Outcomes, NEW o \in Outcomes, Conflict(r, o)
    PROVE  IInv'
<1>1. /\ job.pc = "conflict" /\ job.op = "install" /\ job \in Job
      /\ keys' = keys /\ list' = list /\ tray' \in {tray, NoBinding}
  BY DEF Conflict, At, IInv, OpFits, TypeOK
<1>2. /\ job' \in Job /\ job'.pc = "forget" /\ job'.op = job.op /\ job'.plan = job.plan
      /\ job'.todo = job.todo
  BY <1>1, Moved DEF Pcs, Conflict
<1>3. TypeOK' /\ OpFits' /\ ListedSlotsAnswer'
  BY <1>1, <1>2 DEF IInv, TypeOK, OpFits, Writing, Restoring, ListedSlotsAnswer
<1>4. PlannedSlots'
  BY <1>1, <1>2, PlannedStay DEF At, Writing
<1>5. Discarded'
  BY <1>1, <1>2 DEF IInv, Discarded, Ours, At
<1> QED
  BY <1>2, <1>3, <1>4, <1>5 DEF IInv, WrittenSlots, HeldSlots, At, Writing, Holding

\* Forgotten keys belong to paths that have left the list.
LEMMA ForgetKeeps ==
    ASSUME IInv, NEW p \in Paths, NEW o \in Outcomes, NEW left, Forget(p, o, left)
    PROVE  IInv'
<1> DEFINE j == [job EXCEPT !.todo = @ \ {p}]
<1>1. /\ job.pc = "forget" /\ job.op \in {"install", "uninstall"} /\ job \in Job
      /\ list' = list /\ tray' = tray /\ p \in job.todo /\ Goto("forget", j, o)
  BY DEF Forget, At, IInv, OpFits, TypeOK
<1>2. j \in Job /\ j.op = job.op /\ j.plan = job.plan /\ j.todo = job.todo \ {p}
  BY <1>1 DEF Job
<1> HIDE DEF j
<1>3. /\ job' \in Job /\ job'.pc = "forget" /\ job'.op = job.op /\ job'.plan = job.plan
      /\ job'.todo = job.todo \ {p}
  BY <1>1, <1>2, Moved DEF Pcs
<1>4. keys' \in [Paths -> Keys] /\ \A q \in Paths : q # p => keys'[q] = keys[q]
  BY DEF Forget, ForgetKeys, IInv, TypeOK, Keys, NoKeys
<1>5. p \in Slots => p \notin list /\ (job.op = "install" => p \notin Ours)
  BY <1>1 DEF IInv, Discarded
<1>6. p \notin Slots => keys' = keys
  BY DEF Forget, ForgetKeys
<1>7. TypeOK' /\ OpFits'
  BY <1>1, <1>3, <1>4 DEF IInv, TypeOK, OpFits, Writing, Restoring
<1>8. ListedSlotsAnswer'
  BY <1>1, <1>4, <1>5, <1>6 DEF IInv, ListedSlotsAnswer, Paths
<1>9. PlannedSlots'
  <2>1. Ours' = Ours /\ Ours \subseteq Slots
    BY <1>3 DEF Ours
  <2>2. job.op = "install" => \A s \in Ours : Ready(s)
    BY <1>1 DEF IInv, PlannedSlots, At, Writing
  <2> QED
    BY <1>3, <1>4, <1>5, <1>6, <2>1, <2>2 DEF PlannedSlots, Ready, Paths
<1>10. Discarded'
  BY <1>1, <1>3 DEF IInv, Discarded, Ours, At
<1> QED
  BY <1>3, <1>7, <1>8, <1>9, <1>10 DEF IInv, WrittenSlots, HeldSlots, At, Writing, Holding

\* A run that goes on after the slots were dealt with, having changed none.
LEMMA GoesOnKeeps ==
    ASSUME IInv, ~At("idle"), ~Writing, NEW j \in Job, j.op = job.op, j.plan = job.plan,
           NEW pc \in {"foreign", "takeread", "takewrite", "reload", "touchread",
                       "touchdrop", "touchfull", "trayread", "trayback"},
           NEW o, Goto(pc, j, o),
           IF pc \in {"trayread", "trayback"} THEN job.op = "uninstall"
                                              ELSE job.op = "install",
           pc \in {"takewrite", "touchdrop", "touchfull"} =>
               \A s \in j.paths \cap Slots : Ready(s),
           list' \subseteq Paths, keys' = keys, tray' = tray,
           \A s \in list' \cap Slots : Ready(s)
    PROVE  IInv'
<1>1. /\ job' \in Job /\ job'.pc = pc /\ job'.op = job.op /\ job'.plan = job.plan
      /\ job'.paths = j.paths
  BY Moved DEF Pcs
<1>2. TypeOK' /\ OpFits'
  BY <1>1 DEF IInv, TypeOK, OpFits, Writing, Restoring
<1>3. ListedSlotsAnswer'
  BY DEF ListedSlotsAnswer, Ready
<1>4. PlannedSlots'
  BY <1>1, PlannedStay
<1>5. HeldSlots'
  BY <1>1 DEF HeldSlots, Holding, Ready
<1> QED
  BY <1>1, <1>2, <1>3, <1>4, <1>5 DEF IInv, WrittenSlots, Discarded, At, Writing

\* The steps of GoesOnKeeps and ReturnKeeps, one by one.
LEMMA LateStepsKeep ==
    ASSUME IInv, NEW o \in Outcomes,
           \/ Forgotten \/ Reload
           \/ \E unread \in SUBSET Paths : FindForeign(o, unread)
           \/ TakeRead(o) \/ TakeWrite(o) \/ TouchRead(o) \/ TouchDrop(o) \/ TouchFull(o)
           \/ TrayRead(o) \/ TrayBack(o)
    PROVE  IInv'
<1>1. /\ TypeOK /\ job \in Job /\ list \subseteq Paths /\ \A s \in list \cap Slots : Ready(s)
      /\ tray \in Bindings \cup {NoBinding}
  BY DEF IInv, TypeOK, ListedSlotsAnswer, Ready
<1>2. /\ ListRead(o) \subseteq Paths /\ \A s \in ListRead(o) \cap Slots : Ready(s)
      /\ [job EXCEPT !.paths = ListRead(o)] \in Job
  <2>1. ListRead(o) \subseteq Paths /\ \A s \in ListRead(o) \cap Slots : Ready(s)
    BY <1>1 DEF ListRead
  <2> QED
    BY <1>1, <2>1 DEF Job
<1>3. job.pc \in {"takewrite", "touchdrop", "touchfull"} =>
          job.paths \subseteq Paths /\ \A s \in job.paths \cap Slots : Ready(s)
  BY <1>1 DEF IInv, HeldSlots, Holding, Job
<1>4. CASE Forgotten
  <2>1. job.pc = "forget" /\ job.op \in {"install", "uninstall"}
        /\ Goto(IF job.op = "install" THEN "foreign" ELSE "trayread", job, "done")
    BY <1>4 DEF Forgotten, At, IInv, OpFits
  <2>2. CASE job.op = "install"
    BY <1>1, <1>4, <2>1, <2>2, GoesOnKeeps DEF Forgotten, At, Writing
  <2>3. CASE job.op = "uninstall"
    BY <1>1, <1>4, <2>1, <2>3, GoesOnKeeps DEF Forgotten, At, Writing
  <2> QED
    BY <2>1, <2>2, <2>3
<1>5. CASE Reload
  <2>1. job.pc = "reload" /\ job.op = "install"
    BY <1>5 DEF Reload, At, IInv, OpFits
  <2>2. CASE Return(TRUE, "done")
    BY <1>1, <1>5, <2>2, ReturnKeeps DEF Reload
  <2>3. CASE Goto("touchread", job, "done")
    BY <1>1, <1>5, <2>1, <2>3, GoesOnKeeps DEF Reload, At, Writing
  <2> QED
    BY <1>5, <2>2, <2>3 DEF Reload
<1>6. ASSUME NEW unread \in SUBSET Paths, FindForeign(o, unread) PROVE IInv'
  <2> DEFINE foreign == IF o = "done" THEN Foreign(unread) ELSE {}
             j == [job EXCEPT !.todo = foreign]
             q == IF unread = {} THEN o ELSE "refused"
  <2>1. foreign \subseteq Paths
    BY <1>1 DEF Foreign
  <2>2. j \in Job /\ j.op = job.op /\ j.plan = job.plan
    BY <1>1, <2>1 DEF Job
  <2>3. Goto(IF job.take /\ foreign # {} THEN "takeread" ELSE "reload", j, q)
        /\ job.pc = "foreign" /\ job.op = "install" /\ UNCHANGED <<list, keys, tray>>
    BY <1>6 DEF FindForeign, At, IInv, OpFits
  <2> HIDE DEF foreign, j, q
  <2>4. CASE job.take /\ foreign # {}
    BY <1>1, <2>2, <2>3, <2>4, GoesOnKeeps DEF At, Writing
  <2>5. CASE ~(job.take /\ foreign # {})
    BY <1>1, <2>2, <2>3, <2>5, GoesOnKeeps DEF At, Writing
  <2> QED
    BY <2>4, <2>5
<1>7. CASE TakeRead(o)
  <2> DEFINE j == [job EXCEPT !.paths = ListRead(o)]
  <2>1. j \in Job /\ j.op = job.op /\ j.plan = job.plan /\ j.paths = ListRead(o)
    BY <1>1, <1>2 DEF Job
  <2>2. job.pc = "takeread" /\ job.op = "install" /\ Goto("takewrite", j, o)
        /\ UNCHANGED <<list, keys, tray>>
    BY <1>7 DEF TakeRead, At, IInv, OpFits
  <2> HIDE DEF j
  <2> QED
    BY <1>1, <1>2, <2>1, <2>2, GoesOnKeeps DEF At, Writing
<1>8. CASE TakeWrite(o)
  <2>1. job.pc = "takewrite" /\ job.op = "install" /\ Goto("reload", job, o)
        /\ UNCHANGED <<keys, tray>>
    BY <1>8 DEF TakeWrite, At, IInv, OpFits
  <2>2. list' \subseteq Paths /\ \A s \in list' \cap Slots : Ready(s)
    BY <1>1, <1>3, <1>8, <2>1 DEF TakeWrite, SetList
  <2> QED
    BY <1>1, <2>1, <2>2, GoesOnKeeps DEF At, Writing
<1>9. CASE TouchRead(o)
  <2> DEFINE j == [job EXCEPT !.paths = ListRead(o)]
  <2>1. j \in Job /\ j.op = job.op /\ j.plan = job.plan /\ j.paths = ListRead(o)
    BY <1>1, <1>2 DEF Job
  <2>2. job.pc = "touchread" /\ job.op = "install" /\ UNCHANGED <<list, keys, tray>>
    BY <1>9 DEF TouchRead, At, IInv, OpFits
  <2>3. \/ Return(TRUE, o) \/ Goto("touchdrop", j, o) \/ Goto("touchfull", j, o)
    BY <1>9 DEF TouchRead
  <2> HIDE DEF j
  <2>4. CASE Return(TRUE, o)
    BY <1>1, <2>2, <2>4, ReturnKeeps
  <2>5. CASE Goto("touchdrop", j, o)
    BY <1>1, <1>2, <2>1, <2>2, <2>5, GoesOnKeeps DEF At, Writing
  <2>6. CASE Goto("touchfull", j, o)
    BY <1>1, <1>2, <2>1, <2>2, <2>6, GoesOnKeeps DEF At, Writing
  <2> QED
    BY <2>3, <2>4, <2>5, <2>6
<1>10. CASE TouchDrop(o)
  <2>1. job.pc = "touchdrop" /\ job.op = "install" /\ UNCHANGED <<keys, tray>>
    BY <1>10 DEF TouchDrop, At, IInv, OpFits
  <2>2. list' \subseteq Paths /\ \A s \in list' \cap Slots : Ready(s)
    BY <1>1, <1>3, <1>10, <2>1 DEF TouchDrop, SetList
  <2>3. CASE Goto("touchfull", job, o)
    BY <1>1, <1>3, <2>1, <2>2, <2>3, GoesOnKeeps DEF At, Writing
  <2>4. CASE Return(TRUE, o)
    BY <1>1, <2>1, <2>2, <2>4, ReturnKeeps
  <2> QED
    BY <1>10, <2>3, <2>4 DEF TouchDrop
<1>11. CASE TouchFull(o)
  <2>1. job.pc = "touchfull" /\ Return(TRUE, o) /\ UNCHANGED <<keys, tray>>
    BY <1>11 DEF TouchFull, At
  <2>2. list' \subseteq Paths /\ \A s \in list' \cap Slots : Ready(s)
    BY <1>1, <1>3, <1>11, <2>1 DEF TouchFull, SetList
  <2> QED
    BY <1>1, <2>1, <2>2, ReturnKeeps
<1>12. CASE TrayRead(o)
  <2>1. job.pc = "trayread" /\ job.op = "uninstall" /\ UNCHANGED <<list, keys, tray>>
    BY <1>12 DEF TrayRead, At, IInv, OpFits, Restoring
  <2>2. CASE Goto("trayback", job, o)
    BY <1>1, <2>1, <2>2, GoesOnKeeps DEF At, Writing
  <2>3. CASE Return(TRUE, o)
    BY <1>1, <2>1, <2>3, ReturnKeeps
  <2> QED
    BY <1>12, <2>2, <2>3 DEF TrayRead
<1>13. CASE TrayBack(o)
  <2>1. Return(TRUE, o) /\ UNCHANGED <<list, keys>> /\ tray' \in Bindings \cup {NoBinding}
    BY <1>1, <1>13, RegistryAssumption DEF TrayBack, RegistryAssumption
  <2> QED
    BY <1>1, <2>1, ReturnKeeps
<1> QED
  BY <1>4, <1>5, <1>6, <1>7, <1>8, <1>9, <1>10, <1>11, <1>12, <1>13

\* A step that edits hand-made shortcuts only.
SlotsUntouched ==
    /\ keys' \in [Paths -> Keys] /\ tray' \in Bindings \cup {NoBinding}
    /\ list' \subseteq Paths /\ list' \cap Slots = list \cap Slots
    /\ \A s \in Slots : keys'[s] = keys[s]

\* The user edits no slot, and a killed run leaves everything as it is.
LEMMA EnvironmentKeeps == IInv /\ (User \/ Killed) => IInv'
<1> SUFFICES ASSUME IInv, User \/ Killed PROVE IInv'
  OBVIOUS
<1>1. CASE Killed
  <2>1. job' = NoJob /\ UNCHANGED <<list, keys, tray>>
    BY <1>1 DEF Killed
  <2>2. TypeOK' /\ ListedSlotsAnswer' /\ job'.pc = "idle" /\ job'.op = "none"
    BY <2>1, NoJobTyped DEF IInv, TypeOK, ListedSlotsAnswer, NoJob
  <2> QED
    BY <2>2, AtRest
<1>2. CASE User
  <2>1. /\ job' \in Job
        /\ job'.op = job.op /\ job'.pc = job.pc /\ job'.plan = job.plan /\ job'.at = job.at
        /\ job'.failed = job.failed /\ job'.paths = job.paths /\ job'.todo = job.todo
    <3>1. Disturbed /\ job \in Job
      BY <1>2 DEF User, AddShortcut, DeleteShortcut, ChooseTrayKey, IInv, TypeOK
    <3> QED
      BY <3>1 DEF Disturbed, Job
  <2>2. SlotsUntouched
    <3> USE DEF SlotsUntouched
    <3>1. UserPaths \cap Slots = {} /\ UserPaths \subseteq Paths /\ Slots \subseteq Paths
      BY RegistryAssumption DEF RegistryAssumption, Slots, Paths
    <3>2. ASSUME NEW u \in UserPaths, NEW k \in Keys, AddShortcut(u, k)
          PROVE  SlotsUntouched
      BY <3>1, <3>2 DEF AddShortcut, IInv, TypeOK
    <3>3. ASSUME NEW u \in UserPaths, DeleteShortcut(u)
          PROVE  SlotsUntouched
      BY <3>1, <3>3 DEF DeleteShortcut, IInv, TypeOK, Keys, NoKeys
    <3>4. ASSUME NEW b \in Bindings \cup {NoBinding}, ChooseTrayKey(b)
          PROVE  SlotsUntouched
      BY <3>4 DEF ChooseTrayKey, IInv, TypeOK
    <3> QED
      BY <1>2, <3>2, <3>3, <3>4 DEF User, Keys
  <2> USE <2>2 DEF SlotsUntouched
  <2>3. TypeOK' /\ OpFits'
    BY <2>1 DEF IInv, TypeOK, OpFits, Writing, Restoring
  <2>4. ListedSlotsAnswer'
    BY <2>2 DEF IInv, ListedSlotsAnswer
  <2>5. WrittenSlots'
    <3> SUFFICES ASSUME Writing, ~job.failed
                 PROVE  /\ \A s \in 0 .. job.at - 1 : Ready(s)'
                        /\ At("binding") => keys'[job.at].command = "ours"
      BY <2>1 DEF WrittenSlots, Writing, At
    <3>1. job.at \in Slots /\ 0 .. job.at - 1 \subseteq Slots
      BY RegistryAssumption DEF IInv, TypeOK, Job, Slots, RegistryAssumption
    <3> QED
      BY <2>2, <3>1 DEF IInv, WrittenSlots, Ready
  <2>6. PlannedSlots' /\ HeldSlots' /\ Discarded'
    <3>1. Ours' = Ours /\ Ours \subseteq Slots
      BY <2>1 DEF Ours
    <3>2. PlannedSlots'
      BY <2>1, <2>2, <3>1 DEF IInv, PlannedSlots, At, Writing, Ready
    <3>3. HeldSlots'
      BY <2>1, <2>2 DEF IInv, HeldSlots, Holding, Ready
    <3>4. Discarded'
      BY <2>1, <2>2, <3>1 DEF IInv, Discarded, At
    <3> QED
      BY <3>2, <3>3, <3>4
  <2> QED
    BY <2>3, <2>4, <2>5, <2>6 DEF IInv
<1> QED
  BY <1>1, <1>2

\* Every step of install and uninstall, failed or not, preserves the invariant.
LEMMA StepIInv == IInv /\ [Next]_vars => IInv'
<1> SUFFICES ASSUME IInv, [Next]_vars PROVE IInv'
  OBVIOUS
<1>1. CASE UNCHANGED vars
  BY <1>1 DEF vars, IInv, TypeOK, OpFits, WrittenSlots, PlannedSlots, HeldSlots, Discarded,
     ListedSlotsAnswer, Ready, Ours, At, Writing, Restoring, Holding
<1>2. ASSUME NEW plan \in Plans, NEW take \in BOOLEAN, Install(plan, take) PROVE IInv'
  BY <1>2, InstallKeeps
<1>3. CASE Uninstall
  BY <1>3, UninstallKeeps
<1>4. ASSUME NEW o \in Outcomes,
             \/ WriteCommand(o) \/ WriteBinding(o) \/ ReadList(o) \/ WriteList(o)
             \/ \E r \in Outcomes : Conflict(r, o)
             \/ \E p \in Paths, left \in {"both", "binding", "none"} : Forget(p, o, left)
      PROVE  IInv'
  BY <1>4, WriteCommandKeeps, WriteBindingKeeps, ReadListKeeps, WriteListKeeps,
     ConflictKeeps, ForgetKeeps
<1>5. ASSUME NEW o \in Outcomes,
             \/ \E unread \in SUBSET Paths : FindForeign(o, unread)
             \/ TakeRead(o) \/ TakeWrite(o) \/ TouchRead(o) \/ TouchDrop(o) \/ TouchFull(o)
             \/ TrayRead(o) \/ TrayBack(o)
      PROVE  IInv'
  BY <1>5, LateStepsKeep
<1>6. CASE Forgotten \/ Reload
  BY <1>6, LateStepsKeep DEF Outcomes
<1>7. ASSUME NEW unread \in SUBSET Paths, Classify(unread) PROVE IInv'
  BY <1>7, ClassifyKeeps
<1>8. CASE SkipList
  BY <1>8, SkipListKeeps
<1>9. CASE User \/ Killed
  BY <1>9, EnvironmentKeeps
<1> QED
  BY <1>1, <1>2, <1>3, <1>4, <1>5, <1>6, <1>7, <1>8, <1>9 DEF Next

\* The inductive invariant holds in every reachable state.
LEMMA Invariance == Spec => []IInv
<1>1. Init => IInv
  BY InitIInv
<1>2. IInv /\ [Next]_vars => IInv'
  BY StepIInv
<1> QED
  BY <1>1, <1>2, PTL DEF Spec

\* Every step other than the user's leaves the keys of hand-made shortcuts alone.
LEMMA UserPathsKept ==
    ASSUME IInv, [Next]_vars, NEW u \in UserPaths
    PROVE  keys'[u] # keys[u] => (u \in list) # (u \in list')
<1>1. u \in Paths /\ u \notin Slots /\ keys \in [Paths -> Keys] /\ job.at \in Slots
  BY RegistryAssumption DEF IInv, TypeOK, Job, RegistryAssumption, Slots, Paths
<1>2. CASE UNCHANGED keys
  BY <1>2
<1>3. ASSUME NEW o \in Outcomes, WriteCommand(o) \/ WriteBinding(o)
      PROVE  keys'[u] = keys[u]
  BY <1>1, <1>3 DEF WriteCommand, WriteBinding
<1>4. ASSUME NEW p \in Paths, NEW o \in Outcomes, NEW left, Forget(p, o, left)
      PROVE  keys'[u] = keys[u]
  BY <1>1, <1>4 DEF Forget, ForgetKeys
<1>5. ASSUME NEW v \in UserPaths, NEW k \in Keys, AddShortcut(v, k) \/ DeleteShortcut(v)
      PROVE  keys'[u] # keys[u] => (u \in list) # (u \in list')
  BY <1>1, <1>5 DEF AddShortcut, DeleteShortcut
<1>6. User => UNCHANGED keys \/
          \E v \in UserPaths : DeleteShortcut(v) \/ \E k \in Keys : AddShortcut(v, k)
  BY DEF User, ChooseTrayKey, Keys
<1>7. CASE User
  <2>1. CASE UNCHANGED keys
    BY <2>1
  <2>2. CASE \E v \in UserPaths : DeleteShortcut(v)
    BY <1>5, <2>2, <1>1 DEF Keys, NoKeys
  <2>3. CASE \E v \in UserPaths : \E k \in Keys : AddShortcut(v, k)
    BY <1>5, <2>3
  <2> QED
    BY <1>6, <1>7, <2>1, <2>2, <2>3
<1>8. ASSUME NEW o \in Outcomes,
             \/ ReadList(o) \/ WriteList(o) \/ TakeRead(o) \/ TakeWrite(o) \/ TouchRead(o)
             \/ TouchDrop(o) \/ TouchFull(o) \/ TrayRead(o) \/ TrayBack(o)
             \/ \E r \in Outcomes : Conflict(r, o)
             \/ \E unread \in SUBSET Paths : FindForeign(o, unread)
      PROVE  UNCHANGED keys
  BY <1>8 DEF ReadList, WriteList, Conflict, FindForeign, TakeRead, TakeWrite, TouchRead,
     TouchDrop, TouchFull, TrayRead, TrayBack
<1>9. ASSUME \/ \E plan \in Plans, take \in BOOLEAN : Install(plan, take)
             \/ Uninstall \/ SkipList \/ Forgotten \/ Reload \/ Killed
             \/ \E unread \in SUBSET Paths : Classify(unread)
      PROVE  UNCHANGED keys
  BY <1>9 DEF Install, Uninstall, SkipList, Forgotten, Reload, Killed, Classify
<1>10. CASE UNCHANGED vars
  BY <1>2, <1>10 DEF vars
<1> QED
  BY <1>2, <1>3, <1>4, <1>7, <1>8, <1>9, <1>10 DEF Next

-----------------------------------------------------------------------------
(* The theorems.                                                           *)

\* The list, the keys and the run stay well-formed: no slot beyond those the code counts
\* with (MAX_EXTRA_SLOTS) is ever written or listed.
THEOREM TypeCorrect == Spec => []TypeOK
BY Invariance, PTL DEF IInv

\* Whatever set fails, whoever edits the list and wherever a run is killed, a slot of ours
\* that is on the list has its command and its binding.
THEOREM ListedSlotsAreComplete == Spec => []ListedSlotsAnswer
BY Invariance, PTL DEF IInv

\* install() and uninstall() never change the keys of a shortcut made by hand.
THEOREM HandMadeKeysAreKept == Spec => HandMadeKeysStay
<1>1. IInv /\ [Next]_vars =>
        [\A u \in UserPaths : keys'[u] # keys[u] => (u \in list) # (u \in list')]_vars
  BY UserPathsKept
<1> QED
  BY <1>1, Invariance, PTL DEF Spec, HandMadeKeysStay
-----------------------------------------------------------------------------
(* Runs that meet no failure and no other editor.                          *)

Quiet == job.clean /\ job.alone

\* The user's shortcuts that were listed at the start and do not run this program.
HandMade == {u \in job.start \cap UserPaths : keys[u].command # "ours"}

\* Those of them that have the main binding of the plan.
OnOurKey == {u \in HandMade : keys[u].binding = job.plan[1]}

\* What install() is to leave on the list.
Settled == Ours \cup (IF job.take THEN HandMade \ OnOurKey ELSE HandMade)

\* install(), point by point: the list is the one it started from until it is written, then
\* the slots of the plan and what the user had, and at last without the foreign shortcuts.
QuietInstall ==
    Quiet /\ job.op = "install" =>
        /\ Writing \/ job.pc \in {"read", "classify", "write"} => list = job.start
        /\ Writing => \A s \in 0 .. job.at - 1 : keys[s].binding = job.plan[s + 1]
        /\ ~Writing /\ ~At("idle") => \A s \in Ours : keys[s].binding = job.plan[s + 1]
        /\ job.pc \in {"classify", "write"} => job.paths = job.start
        /\ At("write") => job.todo = Duplicates({})
        /\ job.pc \in {"conflict", "forget", "foreign", "takeread", "takewrite"} =>
              list = Ours \cup HandMade
        /\ job.pc \in {"takeread", "takewrite"} => job.take /\ job.todo = OnOurKey
        /\ At("takewrite") => job.paths = list
        /\ job.pc \in {"reload", "touchread", "touchdrop"} => list = Settled
        /\ job.pc \in {"touchdrop", "touchfull"} => job.paths = Settled
        /\ At("idle") /\ job.ok => list = Settled

\* uninstall(), point by point: a listed slot is empty as soon as it is not to be emptied.
QuietUninstall ==
    Quiet /\ job.op = "uninstall" =>
        /\ job.pc \in {"read", "classify", "write"} => list = job.start
        /\ job.pc \in {"classify", "write"} => job.paths = job.start
        /\ At("write") => job.todo = Duplicates({})
        /\ At("forget") => \A s \in job.start \cap Slots : s \in job.todo \/ keys[s] = NoKeys
        /\ Restoring \/ (At("idle") /\ job.ok) =>
              \A s \in job.start \cap Slots : keys[s] = NoKeys
        /\ At("forget") \/ Restoring \/ (At("idle") /\ job.ok) => list = HandMade
        /\ At("idle") /\ job.ok => tray # NoBinding

QInv == QuietInstall /\ QuietUninstall

\* All the fields of a job that goes on, and of one that returns.
LEMMA MovedFields ==
    ASSUME NEW j \in Job, NEW pc \in Pcs, NEW o, Goto(pc, j, o)
    PROVE  /\ job'.pc = pc /\ job'.op = j.op /\ job'.plan = j.plan /\ job'.at = j.at
           /\ job'.paths = j.paths /\ job'.todo = j.todo
           /\ job'.take = j.take /\ job'.start = j.start /\ job'.alone = j.alone
           /\ job'.clean = (j.clean /\ o = "done")
BY DEF Goto, Job

\* Likewise.
LEMMA ReturnedFields ==
    ASSUME NEW ok \in BOOLEAN, NEW o, Return(ok, o)
    PROVE  /\ job'.pc = "idle" /\ job'.op = job.op /\ job'.plan = job.plan
           /\ job'.take = job.take /\ job'.start = job.start /\ job'.alone = job.alone
           /\ job'.clean = (job.clean /\ o = "done") /\ job'.ok = ok
BY DEF Return, NoJob

\* Hand-made shortcuts are no slots; slots and plan lie where they belong.
LEMMA PathsApart ==
    ASSUME TypeOK
    PROVE  /\ UserPaths \cap Slots = {} /\ Paths = UserPaths \cup Slots /\ Ours \subseteq Slots
           /\ job \in Job /\ job.start \subseteq Paths /\ keys \in [Paths -> Keys]
BY RegistryAssumption DEF RegistryAssumption, TypeOK, Job, Ours, Slots, Paths

\* The start of a run, a run that is over without success, or one that is not quiet any more.
LEMMA QuietTrivially ==
    ASSUME \/ ~(job'.clean /\ job'.alone)
           \/ job'.op = "none"
           \/ job'.pc = "idle" /\ ~job'.ok
    PROVE  QInv'
BY DEF QInv, QuietInstall, QuietUninstall, Quiet, At, Writing, Restoring

\* A step that changes neither list nor keys nor the plan leaves what they say.
LEMMA SameMeaning ==
    ASSUME TypeOK, job'.plan = job.plan, job'.start = job.start, job'.take = job.take,
           \A p \in UserPaths : keys'[p] = keys[p]
    PROVE  /\ Ours' = Ours /\ HandMade' = HandMade /\ OnOurKey' = OnOurKey
           /\ Settled' = Settled
<1>1. Ours' = Ours
  BY DEF Ours
<1>2. HandMade' = HandMade
  BY DEF HandMade
<1>3. OnOurKey' = OnOurKey
  BY <1>2 DEF OnOurKey, HandMade
<1> QED
  BY <1>1, <1>2, <1>3 DEF Settled

\* What is written back after our duplicates were taken off, when every read answered.
LEMMA QuietKept ==
    ASSUME IInv, QInv, Quiet, At("write"), job.op \in {"install", "uninstall"}
    PROVE  /\ Kept = IF job.op = "install" THEN Ours \cup HandMade ELSE HandMade
           /\ job.op = "uninstall" => job.start \cap Slots \subseteq job.todo
<1>1. list = job.start /\ job.paths = job.start /\ job.todo = Duplicates({})
  BY DEF QInv, QuietInstall, QuietUninstall, At
<1>2. \A s \in job.start \cap Slots : keys[s].command = "ours"
  BY <1>1 DEF IInv, ListedSlotsAnswer
<1>3. KEY_PATH \in Slots
  BY RegistryAssumption DEF RegistryAssumption, KEY_PATH, Slots
<1>4. Owned({}) = {p \in job.start : keys[p].command = "ours"}
  BY <1>1 DEF Owned
<1>5. CASE job.op = "install"
  BY <1>1, <1>2, <1>4, <1>5, PathsApart DEF IInv, Kept, Duplicates, HandMade
<1>6. CASE job.op = "uninstall"
  BY <1>1, <1>2, <1>3, <1>4, <1>6, PathsApart DEF IInv, Kept, Duplicates, HandMade
<1> QED
  BY <1>5, <1>6

\* Which listed shortcuts have our key, when every read answered: hand-made ones only.
LEMMA QuietForeign ==
    ASSUME IInv, QInv, Quiet, At("foreign"), job.op = "install"
    PROVE  Foreign({}) = OnOurKey
<1>1. list = Ours \cup HandMade /\ \A s \in Ours : keys[s].binding = job.plan[s + 1]
  BY DEF QInv, QuietInstall, At, Writing
<1>2. \A s \in Ours \ {KEY_PATH} : keys[s].binding # job.plan[1]
  <2> SUFFICES ASSUME NEW s \in Ours \ {KEY_PATH} PROVE job.plan[s + 1] # job.plan[1]
    BY <1>1
  <2>1. job.plan \in Plans /\ Len(job.plan) \in Nat /\ s + 1 \in 2 .. Len(job.plan)
    BY PlanFits, RegistryAssumption DEF IInv, OpFits, KEY_PATH, RegistryAssumption
  <2> QED
    BY <2>1, RegistryAssumption DEF RegistryAssumption
<1>3. KEY_PATH \notin HandMade
  BY PathsApart, RegistryAssumption DEF IInv, HandMade, KEY_PATH, Slots, RegistryAssumption
<1> QED
  BY <1>1, <1>2, <1>3 DEF Foreign, OnOurKey

\* Starting.
LEMMA QuietStarts ==
    ASSUME IInv, Uninstall \/ \E plan \in Plans, take \in BOOLEAN : Install(plan, take)
    PROVE  QInv'
<1>1. CASE Uninstall
  <2>1. job'.pc = "read" /\ job'.op = "uninstall" /\ job'.start = list /\ list' = list
    BY <1>1 DEF Uninstall, NoJob
  <2> QED
    BY <2>1 DEF QInv, QuietInstall, QuietUninstall, Quiet, At, Writing, Restoring
<1>2. ASSUME NEW plan \in Plans, NEW take \in BOOLEAN, Install(plan, take) PROVE QInv'
  <2>1. job'.pc = "command" /\ job'.op = "install" /\ job'.start = list /\ list' = list
        /\ job'.at = 0
    BY <1>2 DEF Install, NoJob
  <2> QED
    BY <2>1 DEF QInv, QuietInstall, QuietUninstall, Quiet, At, Writing, Restoring
<1> QED
  BY <1>1, <1>2

\* Writing the slots: the binding of each is the one the plan says.
LEMMA QuietWrites ==
    ASSUME IInv, QInv, NEW o \in Outcomes, WriteCommand(o) \/ WriteBinding(o)
    PROVE  QInv'
<1>1. CASE WriteCommand(o)
  <2> DEFINE j == [job EXCEPT !.failed = @ \/ o # "done"]
  <2>1. /\ j \in Job /\ j.op = job.op /\ j.plan = job.plan /\ j.at = job.at
        /\ j.start = job.start /\ j.alone = job.alone /\ j.clean = job.clean
        /\ job.at \in Slots /\ job \in Job
    BY DEF IInv, TypeOK, Job
  <2>2. Goto("binding", j, o) /\ job.pc = "command" /\ list' = list
    BY <1>1 DEF WriteCommand, At
  <2> HIDE DEF j
  <2>3. /\ job'.pc = "binding" /\ job'.op = job.op /\ job'.plan = job.plan /\ job'.at = job.at
        /\ job'.start = job.start /\ job'.alone = job.alone
        /\ job'.clean = (job.clean /\ o = "done")
    BY <2>1, <2>2, MovedFields DEF Pcs
  <2>4. \A s \in Slots : keys'[s].binding = keys[s].binding
    BY <1>1, <2>1, PathsApart DEF IInv, WriteCommand, Keys
  <2>5. 0 .. job.at - 1 \subseteq Slots
    BY <2>1, RegistryAssumption DEF Slots, RegistryAssumption
  <2>6. job.op = "install"
    BY <2>2 DEF IInv, OpFits, Writing
  <2> QED
    BY <2>2, <2>3, <2>4, <2>5, <2>6
       DEF QInv, QuietInstall, QuietUninstall, Quiet, At, Writing, Restoring
<1>2. CASE WriteBinding(o)
  <2> DEFINE next == [job EXCEPT !.failed = job.failed \/ o # "done", !.at = @ + 1]
  <2>1. /\ job.pc = "binding" /\ job.op = "install" /\ job \in Job /\ job.at \in Slots
        /\ list' = list /\ job.at < Len(job.plan)
    BY <1>2 DEF WriteBinding, At, IInv, TypeOK, OpFits, Writing, Job
  <2>2. CASE ~(Quiet /\ o = "done") \/ Return(FALSE, o)
    <3>1. CASE Return(FALSE, o)
      BY <2>1, <3>1, ReturnedFields, QuietTrivially
    <3>2. CASE Goto("command", next, o) /\ ~(Quiet /\ o = "done")
      <4>1. job.at + 1 # Len(job.plan) => job.at + 1 \in Slots
        BY <2>1, PlanFits, RegistryAssumption DEF IInv, Slots, RegistryAssumption
      <4>2. job'.alone = job.alone /\ job'.clean = (job.clean /\ o = "done")
        BY <2>1, <3>2 DEF Goto, Job
      <4> QED
        BY <3>2, <4>2, QuietTrivially DEF Quiet
    <3>3. CASE Goto("read", job, o) /\ ~(Quiet /\ o = "done")
      <4>1. job'.alone = job.alone /\ job'.clean = (job.clean /\ o = "done")
        BY <2>1, <3>3, MovedFields DEF Pcs
      <4> QED
        BY <3>3, <4>1, QuietTrivially DEF Quiet
    <3> QED
      BY <1>2, <2>2, <3>1, <3>2, <3>3 DEF WriteBinding
  <2>3. CASE Quiet /\ o = "done"
    <3>1. \A s \in 0 .. job.at : keys'[s].binding = job.plan[s + 1]
      <4>1. \A s \in 0 .. job.at - 1 : keys[s].binding = job.plan[s + 1]
        BY <2>1, <2>3 DEF QInv, QuietInstall, Writing
      <4>2. keys' = [keys EXCEPT ![job.at].binding = job.plan[job.at + 1]]
        BY <1>2, <2>3 DEF WriteBinding, Applied
      <4>3. 0 .. job.at \subseteq Paths
        BY <2>1, RegistryAssumption DEF Slots, Paths, RegistryAssumption
      <4>4. job.at \in Nat /\ \A s \in 0 .. job.at : s = job.at \/ s \in 0 .. job.at - 1
        BY <2>1 DEF Slots
      <4>5. \A s \in 0 .. job.at : s # job.at => keys'[s] = keys[s]
        BY <4>2, <4>3, PathsApart DEF IInv
      <4>6. keys'[job.at].binding = job.plan[job.at + 1]
        BY <2>1, <4>2, PathsApart DEF IInv, Keys
      <4> QED
        BY <4>1, <4>4, <4>5, <4>6
    <3>2. CASE Goto("command", next, o)
      <4>1. /\ job'.pc = "command" /\ job'.op = "install" /\ job'.plan = job.plan
            /\ job'.at = job.at + 1 /\ job'.start = job.start
        BY <2>1, <3>2 DEF Goto, Job
      <4>2. job'.at - 1 = job.at
        BY <2>1, <4>1 DEF Slots
      <4> QED
        BY <2>1, <2>3, <3>1, <4>1, <4>2
           DEF QInv, QuietInstall, QuietUninstall, Quiet, At, Writing
    <3>3. CASE job.at + 1 = Len(job.plan) /\ Goto("read", job, o)
      <4>1. /\ job'.pc = "read" /\ job'.op = "install" /\ job'.plan = job.plan
            /\ job'.start = job.start
        BY <2>1, <3>3, MovedFields DEF Pcs
      <4>2. Ours' = 0 .. job.at
        BY <2>1, <3>3, <4>1, PlanFits DEF IInv, Ours, Slots
      <4> QED
        BY <2>1, <2>3, <3>1, <4>1, <4>2
           DEF QInv, QuietInstall, QuietUninstall, Quiet, At, Writing
    <3> QED
      BY <1>2, <2>2, <3>2, <3>3 DEF WriteBinding
  <2> QED
    BY <2>2, <2>3
<1> QED
  BY <1>1, <1>2

\* A call that did not do what it was asked to ends the quiet.
LEMMA NotDone ==
    ASSUME IInv, NEW j \in Job, j.clean = job.clean, j.alone = job.alone, NEW pc \in Pcs,
           NEW o, Goto(pc, j, o), ~(Quiet /\ o = "done")
    PROVE  QInv'
<1>1. job'.alone = job.alone /\ job'.clean = (job.clean /\ o = "done")
  BY MovedFields
<1> QED
  BY <1>1, QuietTrivially DEF Quiet

\* From the read of the list to the decision what goes.
LEMMA QuietReads ==
    ASSUME IInv, QInv,
           (\E o \in Outcomes : ReadList(o)) \/ (\E unread \in SUBSET Paths : Classify(unread))
    PROVE  QInv'
<1>1. ASSUME NEW o \in Outcomes, ReadList(o) PROVE QInv'
  <2> DEFINE j == [job EXCEPT !.paths = ListRead(o)]
  <2>1. /\ j \in Job /\ j.op = job.op /\ j.plan = job.plan /\ j.paths = ListRead(o)
        /\ j.start = job.start /\ j.alone = job.alone /\ j.clean = job.clean /\ job \in Job
    BY DEF IInv, TypeOK, Job, ListRead
  <2>2. Goto("classify", j, o) /\ job.pc = "read" /\ UNCHANGED <<list, keys, tray>>
    BY <1>1 DEF ReadList, At
  <2> HIDE DEF j
  <2>3. CASE ~(Quiet /\ o = "done")
    BY <2>1, <2>2, <2>3, NotDone DEF Pcs
  <2>4. CASE Quiet /\ o = "done"
    <3>1. /\ job'.pc = "classify" /\ job'.op = job.op /\ job'.plan = job.plan
          /\ job'.start = job.start /\ job'.paths = list
      BY <2>1, <2>2, <2>4, MovedFields DEF Pcs, ListRead
    <3>2. Ours' = Ours
      BY <3>1 DEF Ours
    <3> QED
      BY <2>2, <2>4, <3>1, <3>2
         DEF QInv, QuietInstall, QuietUninstall, Quiet, At, Writing, Restoring
  <2> QED
    BY <2>3, <2>4
<1>2. ASSUME NEW unread \in SUBSET Paths, Classify(unread) PROVE QInv'
  <2> DEFINE j == [job EXCEPT !.todo = Duplicates(unread)]
             o == IF unread = {} THEN "done" ELSE "refused"
  <2>1. Duplicates(unread) \subseteq Paths
    BY DEF Duplicates, Owned, IInv, TypeOK, Job
  <2>2. /\ j \in Job /\ j.op = job.op /\ j.plan = job.plan /\ j.paths = job.paths
        /\ j.start = job.start /\ j.alone = job.alone /\ j.clean = job.clean /\ job \in Job
        /\ j.todo = Duplicates(unread)
    BY <2>1 DEF IInv, TypeOK, Job
  <2>3. Goto("write", j, o) /\ job.pc = "classify" /\ UNCHANGED <<list, keys, tray>>
    BY <1>2 DEF Classify, At
  <2>4. o = "done" => unread = {}
    OBVIOUS
  <2> HIDE DEF j, o
  <2>5. CASE ~(Quiet /\ o = "done")
    BY <2>2, <2>3, <2>5, NotDone DEF Pcs
  <2>6. CASE Quiet /\ o = "done"
    <3>1. /\ job'.pc = "write" /\ job'.op = job.op /\ job'.plan = job.plan
          /\ job'.start = job.start /\ job'.paths = job.paths /\ job'.todo = Duplicates({})
      BY <2>2, <2>3, <2>4, <2>6, MovedFields DEF Pcs
    <3>2. Ours' = Ours /\ Duplicates({})' = Duplicates({})
      BY <2>3, <3>1 DEF Ours, Duplicates, Owned
    <3> QED
      BY <2>3, <2>6, <3>1, <3>2
         DEF QInv, QuietInstall, QuietUninstall, Quiet, At, Writing, Restoring
  <2> QED
    BY <2>5, <2>6
<1> QED
  BY <1>1, <1>2

\* The list is written, or is as it should be.
LEMMA QuietListed ==
    ASSUME IInv, QInv, SkipList \/ \E o \in Outcomes : WriteList(o)
    PROVE  QInv'
<1>1. job \in Job /\ job.pc = "write" /\ job.op \in {"install", "uninstall"} /\ keys' = keys
  BY DEF SkipList, WriteList, At, IInv, TypeOK, OpFits
<1>2. ASSUME NEW o \in Outcomes, Goto(AfterList, job, o),
             Quiet /\ o = "done" => list' = Kept
      PROVE  QInv'
  <2>1. AfterList \in Pcs
    BY DEF AfterList, Pcs
  <2>2. CASE ~(Quiet /\ o = "done")
    BY <1>1, <1>2, <2>1, <2>2, NotDone
  <2>3. CASE Quiet /\ o = "done"
    <3>1. /\ job'.pc = AfterList /\ job'.op = job.op /\ job'.plan = job.plan
          /\ job'.start = job.start /\ job'.todo = job.todo /\ job'.take = job.take
      BY <1>1, <1>2, <2>1, MovedFields
    <3>2. Ours' = Ours /\ HandMade' = HandMade
      BY <1>1, <3>1, SameMeaning DEF IInv
    <3>3. /\ list' = IF job.op = "install" THEN Ours \cup HandMade ELSE HandMade
          /\ job.op = "uninstall" => job.start \cap Slots \subseteq job.todo
      BY <1>1, <1>2, <2>3, QuietKept DEF At
    <3>4. job.op = "install" => \A s \in Ours : keys[s].binding = job.plan[s + 1]
      BY <1>1, <2>3 DEF QInv, QuietInstall, Writing, At
    <3> QED
      BY <1>1, <3>1, <3>2, <3>3, <3>4
         DEF QInv, QuietInstall, QuietUninstall, AfterList, At, Writing, Restoring
  <2> QED
    BY <2>2, <2>3
<1>3. CASE SkipList
  <2>1. Quiet => list = job.paths
    BY <1>1 DEF QInv, QuietInstall, QuietUninstall, At
  <2> QED
    BY <1>2, <1>3, <2>1 DEF SkipList, Outcomes
<1>4. ASSUME NEW o \in Outcomes, WriteList(o) PROVE QInv'
  <2>1. CASE Return(FALSE, o)
    BY <2>1, ReturnedFields, QuietTrivially
  <2>2. CASE o = "done" /\ Goto(AfterList, job, o)
    BY <1>2, <1>4, <2>2 DEF WriteList, SetList, Applied
  <2> QED
    BY <1>4, <2>1, <2>2 DEF WriteList
<1> QED
  BY <1>3, <1>4

\* The tray's key and the emptied slots touch neither the plan nor the hand-made shortcuts.
LEMMA QuietForgets ==
    ASSUME IInv, QInv, NEW o \in Outcomes,
           \/ \E r \in Outcomes : Conflict(r, o)
           \/ \E p \in Paths, left \in {"both", "binding", "none"} : Forget(p, o, left)
    PROVE  QInv'
<1>0. job \in Job
  BY DEF IInv, TypeOK
<1>1. ASSUME NEW r \in Outcomes, Conflict(r, o) PROVE QInv'
  <2>1. /\ job.pc = "conflict" /\ job.op = "install" /\ keys' = keys /\ list' = list
        /\ \E q : Goto("forget", job, q)
    BY <1>1 DEF Conflict, At, IInv, OpFits
  <2>2. PICK q : Goto("forget", job, q)
    BY <2>1
  <2>3. /\ job'.pc = "forget" /\ job'.op = job.op /\ job'.plan = job.plan
        /\ job'.start = job.start /\ job'.take = job.take /\ job'.alone = job.alone
        /\ job'.clean = (job.clean /\ q = "done")
    BY <1>0, <2>2, MovedFields DEF Pcs
  <2>4. Ours' = Ours /\ HandMade' = HandMade
    BY <2>1, <2>3, SameMeaning DEF IInv
  <2> QED
    BY <2>1, <2>3, <2>4
       DEF QInv, QuietInstall, QuietUninstall, Quiet, At, Writing, Restoring
<1>2. ASSUME NEW p \in Paths, NEW left, Forget(p, o, left) PROVE QInv'
  <2> DEFINE j == [job EXCEPT !.todo = @ \ {p}]
  <2>1. /\ j \in Job /\ j.op = job.op /\ j.plan = job.plan /\ j.todo = job.todo \ {p}
        /\ j.start = job.start /\ j.take = job.take /\ j.alone = job.alone
        /\ j.clean = job.clean
    BY <1>0 DEF Job
  <2>2. /\ job.pc = "forget" /\ job.op \in {"install", "uninstall"} /\ list' = list
        /\ p \in job.todo /\ Goto("forget", j, o) /\ keys' = ForgetKeys(p, o, left)
    BY <1>2 DEF Forget, At, IInv, OpFits
  <2> HIDE DEF j
  <2>3. CASE ~(Quiet /\ o = "done")
    BY <2>1, <2>2, <2>3, NotDone DEF Pcs
  <2>4. CASE Quiet /\ o = "done"
    <3>1. /\ job'.pc = "forget" /\ job'.op = job.op /\ job'.plan = job.plan
          /\ job'.start = job.start /\ job'.take = job.take /\ job'.todo = job.todo \ {p}
      BY <2>1, <2>2, MovedFields DEF Pcs
    <3>2. IF p \in Slots THEN keys' = [keys EXCEPT ![p] = NoKeys] ELSE keys' = keys
      BY <2>2, <2>4 DEF ForgetKeys
    <3>3. /\ \A q \in Paths : q # p => keys'[q] = keys[q]
          /\ p \in Slots => keys'[p] = NoKeys
          /\ \A u \in UserPaths : keys'[u] = keys[u]
      BY <3>2, PathsApart DEF IInv
    <3>4. Ours' = Ours /\ HandMade' = HandMade
      BY <3>1, <3>3, SameMeaning DEF IInv
    <3>5. job.op = "install" => \A s \in Ours : keys'[s].binding = job.plan[s + 1]
      <4>1. p \in Slots => (job.op = "install" => p \notin Ours)
        BY <2>2 DEF IInv, Discarded
      <4>2. job.op = "install" => \A s \in Ours : keys[s].binding = job.plan[s + 1]
        BY <2>2, <2>4 DEF QInv, QuietInstall, Writing, At
      <4> QED
        BY <3>3, <4>1, <4>2, PathsApart DEF IInv
    <3>6. job.op = "uninstall" =>
             \A s \in job.start \cap Slots : s \in job.todo \ {p} \/ keys'[s] = NoKeys
      BY <2>2, <2>4, <3>3, PathsApart DEF IInv, QInv, QuietUninstall, At
    <3> QED
      BY <2>2, <2>4, <3>1, <3>4, <3>5, <3>6
         DEF QInv, QuietInstall, QuietUninstall, At, Writing, Restoring
  <2> QED
    BY <2>3, <2>4
<1> QED
  BY <1>1, <1>2

\* install() takes the user's shortcuts off on request, and touches the list.
LEMMA QuietTakes ==
    ASSUME IInv, QInv, NEW o \in Outcomes,
           \/ Forgotten \/ TakeRead(o) \/ TakeWrite(o)
           \/ \E unread \in SUBSET Paths : FindForeign(o, unread)
    PROVE  QInv'
<1>0. job \in Job /\ list \subseteq Paths
  BY DEF IInv, TypeOK
<1>1. CASE Forgotten
  <2> DEFINE pc == IF job.op = "install" THEN "foreign" ELSE "trayread"
  <2>1. /\ job.pc = "forget" /\ job.todo = {} /\ job.op \in {"install", "uninstall"}
        /\ UNCHANGED <<list, keys, tray>> /\ Goto(pc, job, "done") /\ pc \in Pcs
    BY <1>1 DEF Forgotten, At, IInv, OpFits, Pcs
  <2>2. /\ job'.pc = pc /\ job'.op = job.op /\ job'.plan = job.plan
        /\ job'.start = job.start /\ job'.take = job.take /\ job'.alone = job.alone
        /\ job'.clean = job.clean
    BY <1>0, <2>1, MovedFields DEF Job
  <2>3. Ours' = Ours /\ HandMade' = HandMade
    BY <2>1, <2>2, SameMeaning DEF IInv
  <2> QED
    BY <2>1, <2>2, <2>3
       DEF QInv, QuietInstall, QuietUninstall, Quiet, At, Writing, Restoring
<1>2. ASSUME NEW unread \in SUBSET Paths, FindForeign(o, unread) PROVE QInv'
  <2> DEFINE foreign == IF o = "done" THEN Foreign(unread) ELSE {}
             j == [job EXCEPT !.todo = foreign]
             q == IF unread = {} THEN o ELSE "refused"
             pc == IF job.take /\ foreign # {} THEN "takeread" ELSE "reload"
  <2>1. foreign \subseteq Paths
    BY <1>0 DEF Foreign
  <2>2. /\ j \in Job /\ j.op = job.op /\ j.plan = job.plan /\ j.start = job.start
        /\ j.take = job.take /\ j.alone = job.alone /\ j.clean = job.clean /\ j.todo = foreign
    BY <1>0, <2>1 DEF Job
  <2>3. /\ Goto(pc, j, q) /\ pc \in Pcs /\ job.pc = "foreign" /\ job.op = "install"
        /\ UNCHANGED <<list, keys, tray>>
    BY <1>2 DEF FindForeign, At, IInv, OpFits, Pcs
  <2>4. CASE ~(Quiet /\ q = "done")
    BY <2>2, <2>3, <2>4, NotDone
  <2>5. CASE Quiet /\ q = "done"
    <3>1. foreign = OnOurKey
      BY <2>3, <2>5, QuietForeign DEF At
    <3>2. /\ job'.pc = pc /\ job'.op = job.op /\ job'.plan = job.plan
          /\ job'.start = job.start /\ job'.take = job.take /\ job'.todo = foreign
      BY <2>2, <2>3, MovedFields
    <3>3. pc = IF job.take /\ OnOurKey # {} THEN "takeread" ELSE "reload"
      BY <3>1
    <3> HIDE DEF pc, foreign, j, q
    <3>4. Ours' = Ours /\ HandMade' = HandMade /\ OnOurKey' = OnOurKey /\ Settled' = Settled
      BY <2>3, <3>2, SameMeaning DEF IInv
    <3>5. pc = "reload" => Settled = Ours \cup HandMade
      BY <3>3 DEF Settled
    <3>6. /\ list = Ours \cup HandMade
          /\ \A s \in Ours : keys[s].binding = job.plan[s + 1]
      BY <2>3, <2>5 DEF QInv, QuietInstall, Writing, At
    <3> QED
      BY <2>3, <3>1, <3>2, <3>3, <3>4, <3>5, <3>6
         DEF QInv, QuietInstall, QuietUninstall, At, Writing, Restoring
  <2> QED
    BY <2>4, <2>5
<1>3. CASE TakeRead(o)
  <2> DEFINE j == [job EXCEPT !.paths = ListRead(o)]
  <2>1. /\ j \in Job /\ j.op = job.op /\ j.plan = job.plan /\ j.paths = ListRead(o)
        /\ j.start = job.start /\ j.alone = job.alone /\ j.clean = job.clean
        /\ j.take = job.take /\ j.todo = job.todo
    BY <1>0 DEF Job, ListRead
  <2>2. /\ Goto("takewrite", j, o) /\ job.pc = "takeread" /\ job.op = "install"
        /\ UNCHANGED <<list, keys, tray>>
    BY <1>3 DEF TakeRead, At, IInv, OpFits
  <2> HIDE DEF j
  <2>3. CASE ~(Quiet /\ o = "done")
    BY <2>1, <2>2, <2>3, NotDone DEF Pcs
  <2>4. CASE Quiet /\ o = "done"
    <3>1. /\ job'.pc = "takewrite" /\ job'.op = job.op /\ job'.plan = job.plan
          /\ job'.start = job.start /\ job'.take = job.take /\ job'.todo = job.todo
          /\ job'.paths = list
      BY <2>1, <2>2, <2>4, MovedFields DEF Pcs, ListRead
    <3>2. Ours' = Ours /\ HandMade' = HandMade /\ OnOurKey' = OnOurKey
      BY <2>2, <3>1, SameMeaning DEF IInv
    <3> QED
      BY <2>2, <2>4, <3>1, <3>2
         DEF QInv, QuietInstall, QuietUninstall, Quiet, At, Writing, Restoring
  <2> QED
    BY <2>3, <2>4
<1>4. CASE TakeWrite(o)
  <2>1. /\ Goto("reload", job, o) /\ job.pc = "takewrite" /\ job.op = "install"
        /\ UNCHANGED <<keys, tray>>
    BY <1>4 DEF TakeWrite, At, IInv, OpFits
  <2>2. CASE ~(Quiet /\ o = "done")
    BY <1>0, <2>1, <2>2, NotDone DEF Pcs
  <2>3. CASE Quiet /\ o = "done"
    <3>1. /\ job'.pc = "reload" /\ job'.op = job.op /\ job'.plan = job.plan
          /\ job'.start = job.start /\ job'.take = job.take
      BY <1>0, <2>1, MovedFields DEF Pcs
    <3>2. Ours' = Ours /\ Settled' = Settled
      BY <2>1, <3>1, SameMeaning DEF IInv
    <3>3. /\ list = Ours \cup HandMade /\ job.paths = list /\ job.take /\ job.todo = OnOurKey
          /\ \A s \in Ours : keys[s].binding = job.plan[s + 1]
      BY <2>1, <2>3 DEF QInv, QuietInstall, At, Writing
    <3>4. list' = job.paths \ job.todo
      BY <1>4, <2>3, <3>3 DEF TakeWrite, SetList, Applied
    <3>5. list' = Settled
      BY <3>3, <3>4, PathsApart DEF IInv, Settled, HandMade, OnOurKey
    <3> QED
      BY <2>1, <3>1, <3>2, <3>3, <3>5
         DEF QInv, QuietInstall, QuietUninstall, At, Writing, Restoring
  <2> QED
    BY <2>2, <2>3
<1> QED
  BY <1>1, <1>2, <1>3, <1>4

\* Touching the list takes our slot off it and puts it back.
LEMMA QuietTouches ==
    ASSUME IInv, QInv, NEW o \in Outcomes,
           Reload \/ TouchRead(o) \/ TouchDrop(o) \/ TouchFull(o)
    PROVE  QInv'
<1>0. job \in Job /\ keys' = keys /\ job.op = "install" /\ job.pc \in
         {"reload", "touchread", "touchdrop", "touchfull"}
  BY DEF IInv, TypeOK, OpFits, At, Reload, TouchRead, TouchDrop, TouchFull
<1>1. ASSUME NEW q, Return(TRUE, q), Quiet /\ q = "done" => list' = Settled PROVE QInv'
  <2>1. /\ job'.pc = "idle" /\ job'.op = job.op /\ job'.plan = job.plan
        /\ job'.take = job.take /\ job'.start = job.start /\ job'.alone = job.alone
        /\ job'.clean = (job.clean /\ q = "done")
    BY <1>1, ReturnedFields
  <2>2. Settled' = Settled
    BY <1>0, <2>1, SameMeaning DEF IInv
  <2> QED
    BY <1>0, <1>1, <2>1, <2>2
       DEF QInv, QuietInstall, QuietUninstall, Quiet, At, Writing, Restoring
<1>2. ASSUME NEW pc \in {"touchread", "touchdrop", "touchfull"}, NEW j \in Job, NEW q,
             Goto(pc, j, q), j.op = job.op, j.plan = job.plan, j.start = job.start,
             j.take = job.take, j.alone = job.alone, j.clean = job.clean,
             Quiet /\ q = "done" /\ pc # "touchread" => j.paths = Settled,
             Quiet /\ q = "done" /\ pc # "touchfull" => list' = Settled
      PROVE  QInv'
  <2>1. /\ job'.pc = pc /\ job'.op = job.op /\ job'.plan = job.plan
        /\ job'.take = job.take /\ job'.start = job.start /\ job'.alone = job.alone
        /\ job'.clean = (job.clean /\ q = "done") /\ job'.paths = j.paths
    BY <1>2, MovedFields DEF Pcs
  <2>2. Settled' = Settled /\ Ours' = Ours
    BY <1>0, <2>1, SameMeaning DEF IInv
  <2>3. Quiet => \A s \in Ours : keys[s].binding = job.plan[s + 1]
    BY <1>0 DEF QInv, QuietInstall, At, Writing
  <2> QED
    BY <1>0, <1>2, <2>1, <2>2, <2>3
       DEF QInv, QuietInstall, QuietUninstall, Quiet, At, Writing, Restoring
<1>3. /\ Quiet /\ job.pc # "touchfull" => list = Settled
      /\ Quiet /\ job.pc \in {"touchdrop", "touchfull"} => job.paths = Settled
  BY <1>0 DEF QInv, QuietInstall, At
<1>4. CASE Reload
  BY <1>0, <1>1, <1>2, <1>3, <1>4 DEF Reload, At
<1>5. CASE TouchRead(o)
  <2> DEFINE j == [job EXCEPT !.paths = ListRead(o)]
  <2>1. /\ j \in Job /\ j.op = job.op /\ j.plan = job.plan /\ j.paths = ListRead(o)
        /\ j.start = job.start /\ j.alone = job.alone /\ j.clean = job.clean
        /\ j.take = job.take
    BY <1>0 DEF IInv, TypeOK, Job, ListRead
  <2>2. /\ job.pc = "touchread" /\ list' = list
        /\ Return(TRUE, o) \/ Goto("touchdrop", j, o) \/ Goto("touchfull", j, o)
    BY <1>5 DEF TouchRead, At
  <2>3. Quiet /\ o = "done" => j.paths = Settled /\ list' = Settled
    BY <1>3, <2>1, <2>2 DEF ListRead
  <2> HIDE DEF j
  <2> QED
    BY <1>1, <1>2, <2>1, <2>2, <2>3
<1>6. CASE TouchDrop(o)
  <2>1. CASE o = "done" /\ Goto("touchfull", job, o)
    BY <1>0, <1>2, <1>3, <1>6, <2>1 DEF TouchDrop, At
  <2>2. CASE o # "done" /\ Return(TRUE, o)
    BY <1>1, <2>2
  <2> QED
    BY <1>6, <2>1, <2>2 DEF TouchDrop
<1>7. CASE TouchFull(o)
  BY <1>1, <1>3, <1>7 DEF TouchFull, SetList, Applied, At
<1> QED
  BY <1>4, <1>5, <1>6, <1>7

\* uninstall() ends with the tray's key.
LEMMA QuietRestores ==
    ASSUME IInv, QInv, NEW o \in Outcomes, TrayRead(o) \/ TrayBack(o)
    PROVE  QInv'
<1>1. /\ job \in Job /\ UNCHANGED <<list, keys>> /\ job.op = "uninstall" /\ Restoring
  BY DEF IInv, TypeOK, OpFits, At, TrayRead, TrayBack, Restoring
<1>2. CASE Return(TRUE, o)
  <2>1. /\ job'.pc = "idle" /\ job'.op = job.op /\ job'.plan = job.plan
        /\ job'.take = job.take /\ job'.start = job.start /\ job'.alone = job.alone
        /\ job'.clean = (job.clean /\ o = "done")
    BY <1>2, ReturnedFields
  <2>2. HandMade' = HandMade
    BY <1>1, <2>1, SameMeaning DEF IInv
  <2>3. o = "done" => tray' # NoBinding
    <3>1. Return(TRUE, o) => job'.pc # "trayback"
      BY <2>1
    <3>2. TrayRead(o) /\ o = "done" /\ tray = NoBinding => job'.pc = "trayback"
      BY <1>1, MovedFields DEF TrayRead, Pcs
    <3>3. DefaultBinding # NoBinding
      BY RegistryAssumption DEF RegistryAssumption
    <3> QED
      BY <1>2, <3>1, <3>2, <3>3 DEF TrayRead, TrayBack, Applied
  <2> QED
    BY <1>1, <2>1, <2>2, <2>3
       DEF QInv, QuietInstall, QuietUninstall, Quiet, At, Writing, Restoring
<1>3. CASE Goto("trayback", job, o)
  <2>1. /\ job'.pc = "trayback" /\ job'.op = job.op /\ job'.plan = job.plan
        /\ job'.take = job.take /\ job'.start = job.start /\ job'.alone = job.alone
        /\ job'.clean = (job.clean /\ o = "done")
    BY <1>1, <1>3, MovedFields DEF Pcs
  <2>2. HandMade' = HandMade
    BY <1>1, <2>1, SameMeaning DEF IInv
  <2> QED
    BY <1>1, <2>1, <2>2
       DEF QInv, QuietInstall, QuietUninstall, Quiet, At, Writing, Restoring
<1> QED
  BY <1>2, <1>3 DEF TrayRead, TrayBack

\* Whoever else edits ends the quiet; a killed run promises nothing.
LEMMA QuietEnds ==
    ASSUME IInv, User \/ Killed
    PROVE  QInv'
<1>1. CASE User
  <2>1. Disturbed /\ job \in Job
    BY <1>1 DEF User, AddShortcut, DeleteShortcut, ChooseTrayKey, IInv, TypeOK
  <2>2. ~job'.alone
    BY <2>1 DEF Disturbed, Job
  <2> QED
    BY <2>2, QuietTrivially
<1>2. CASE Killed
  <2>1. job'.op = "none"
    BY <1>2 DEF Killed, NoJob
  <2> QED
    BY <2>1, QuietTrivially
<1> QED
  BY <1>1, <1>2

\* Every step.
LEMMA StepQInv == IInv /\ QInv /\ [Next]_vars => QInv'
<1> SUFFICES ASSUME IInv, QInv, [Next]_vars PROVE QInv'
  OBVIOUS
<1>1. CASE UNCHANGED vars
  <2>1. Duplicates({})' = Duplicates({}) /\ Settled' = Settled /\ HandMade' = HandMade
        /\ OnOurKey' = OnOurKey /\ Ours' = Ours
    BY <1>1, SameMeaning DEF vars, IInv, Duplicates, Owned, Ours
  <2> QED
    BY <1>1, <2>1
       DEF vars, QInv, QuietInstall, QuietUninstall, Quiet, At, Writing, Restoring
<1>2. CASE Next
  BY <1>2, QuietStarts, QuietWrites, QuietReads, QuietListed, QuietForgets, QuietTakes,
     QuietTouches, QuietRestores, QuietEnds, "done" \in Outcomes
     DEF Next, Outcomes
<1> QED
  BY <1>1, <1>2

\* Before the first run there is nothing to promise.
LEMMA InitQInv == Init => QInv
BY DEF Init, NoJob, QInv, QuietInstall, QuietUninstall

\* An install() nobody disturbed leaves its slots and the user's other shortcuts on the list,
\* whatever was listed before and for any plan and any number of slots.
THEOREM QuietInstallsConverge == Spec => []QuietInstallConverges
<1>1. IInv /\ QInv => QuietInstallConverges
  BY DEF QInv, QuietInstall, Quiet, QuietInstallConverges, Settled, HandMade, OnOurKey
<1> QED
  BY <1>1, InitQInv, Invariance, StepQInv, PTL DEF Spec

\* An uninstall() nobody disturbed leaves nothing of ours.
THEOREM QuietUninstallsLeaveNothing == Spec => []QuietUninstallLeavesNothing
<1>1. IInv /\ QInv => QuietUninstallLeavesNothing
  BY DEF QInv, QuietUninstall, Quiet, QuietUninstallLeavesNothing, HandMade
<1> QED
  BY <1>1, InitQInv, Invariance, StepQInv, PTL DEF Spec

================================================================================
