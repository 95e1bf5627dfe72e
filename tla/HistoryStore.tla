----------------------------- MODULE HistoryStore ------------------------------
(***************************************************************************)
(* storage.py: HistoryStore as it runs in several processes that share one *)
(* SQLite file (the background application, "ubuntu-clipboard --clear",    *)
(* another instance).  One action per statement: a call takes the write    *)
(* lock (BEGIN IMMEDIATE), works on a private copy, and commits it or      *)
(* rolls it back; readers see the committed rows.  The window's and the    *)
(* CLI's calls run on one thread per process, so a process makes one call  *)
(* at a time.  Listeners (_notify) belong to the window and are not state  *)
(* of this module.                                                         *)
(***************************************************************************)
EXTENDS HistoryRows

CONSTANTS
    Procs,           \* processes that open the database
    NoProc,          \* nobody holds the write lock
    NoPayload,       \* a call that carries no payload
    ClockStepsBack,  \* TRUE: wall clock, any reading may follow any other
                     \* FALSE: every reading is later than the ones before
    MaxId            \* bound: at most MaxId row ids are handed out

VARIABLES
    items,   \* committed rows
    lastId,  \* committed sqlite_sequence
    clock,   \* the next reading of a clock that only moves forward
    config,  \* config[p]: the settings process p runs with
    lock,    \* who holds the write lock
    txn,     \* the copy the lock holder works on
    call     \* call[p]: the call process p is making

vars == <<items, lastId, clock, config, lock, txn, call>>

StoreAssumption ==
    /\ NoProc \notin Procs
    /\ NoPayload \notin Payloads
    /\ ClockStepsBack \in BOOLEAN
    /\ MaxId \in Nat

ASSUME StoreAssumption

NoTxn == [rows |-> NoRows, lastId |-> 0]

\* flag: the new pin of toggle_pin, keep_pinned of clear; over: how many pins must go
Idle == [op |-> "none", pc |-> "idle", id |-> 0, payload |-> NoPayload,
         now |-> 0, flag |-> FALSE, over |-> 0]

\* a call that has been made and does not have the lock yet
Made(op, id, payload, now, flag) ==
    [op |-> op, pc |-> "begin", id |-> id, payload |-> payload, now |-> now,
     flag |-> flag, over |-> 0]

\* Steps that run between BEGIN IMMEDIATE and COMMIT or ROLLBACK
InTxn == {"upsert", "prune", "read", "evict", "update", "delete", "commit"}

Ops == {"insert", "toggle", "touch", "delete", "clear"}

Call == [op : Ops \cup {"none"}, pc : InTxn \cup {"idle", "begin", "lookup"},
         id : Nat, payload : Payloads \cup {NoPayload}, now : Times,
         flag : BOOLEAN, over : Nat]

Active == {p \in Procs : call[p] # Idle}

--------------------------------------------------------------------------------
(* time.time() and the bounds of the model *)

\* now is what time.time() returns to a call
ReadClock(now) ==
    IF ClockStepsBack THEN now \in Times /\ UNCHANGED clock
    ELSE now = clock /\ clock' = clock + 1

\* bound: the readings left suffice for the calls under way and one more
TimeLeft ==
    ClockStepsBack \/ clock + Cardinality(Active) < MaxTime

\* bound: the ids left suffice for the inserts under way and one more
IdsLeft ==
    lastId + Cardinality({p \in Procs : call[p].op = "insert"}) < MaxId

Init ==
    /\ items = NoRows
    /\ lastId = 0
    /\ clock = 0
    /\ config \in [Procs -> Configs]
    /\ lock = NoProc
    /\ txn = NoTxn
    /\ call = [p \in Procs |-> Idle]

Goto(p, step) == call' = [call EXCEPT ![p].pc = step]
Return(p) == call' = [call EXCEPT ![p] = Idle]

--------------------------------------------------------------------------------
(* Entering a call *)

\* add_text, add_image, add_files: filtered, and stamped before the lock is asked for
BeginInsert(p, pl) ==
    /\ call[p] = Idle
    /\ pl \in config[p].accepts
    /\ IdsLeft /\ TimeLeft
    /\ \E now \in Times :
        /\ ReadClock(now)
        /\ call' = [call EXCEPT ![p] = Made("insert", 0, pl, now, FALSE)]
    /\ UNCHANGED <<items, lastId, config, lock, txn>>

\* touch, toggle_pin, delete with an id that some row had, perhaps long ago
BeginRowCall(p, op, id) ==
    /\ call[p] = Idle
    /\ TimeLeft
    /\ call' = [call EXCEPT ![p] = Made(op, id, NoPayload, 0, FALSE)]
    /\ UNCHANGED <<items, lastId, clock, config, lock, txn>>

\* clear(): keep_pinned is the caller's answer, or the setting when there is none
BeginClear(p, keep) ==
    /\ call[p] = Idle
    /\ TimeLeft
    /\ call' = [call EXCEPT ![p] = Made("clear", 0, NoPayload, 0, keep)]
    /\ UNCHANGED <<items, lastId, clock, config, lock, txn>>

FirstStep == [insert |-> "upsert", toggle |-> "read", touch |-> "update",
              delete |-> "delete", clear |-> "delete"]

\* BEGIN without IMMEDIATE: the lock is not asked for at once
Begin_Deferred(p) ==
    /\ call[p].pc = "begin"
    /\ lock' = p
    /\ txn' = [rows |-> items, lastId |-> lastId]
    /\ Goto(p, FirstStep[call[p].op])
    /\ UNCHANGED <<items, lastId, clock, config>>

\* BEGIN IMMEDIATE
Begin(p) ==
    /\ call[p].pc = "begin"
    /\ lock = NoProc
    /\ lock' = p
    /\ txn' = [rows |-> items, lastId |-> lastId]
    /\ Goto(p, FirstStep[call[p].op])
    /\ UNCHANGED <<items, lastId, clock, config>>

\* a connection that waits for ever
BusyTimeout_Never(p) == FALSE /\ UNCHANGED vars

\* busy_timeout: another process kept the lock for five seconds, and the call raises
BusyTimeout(p) ==
    /\ call[p].pc = "begin"
    /\ lock # NoProc
    /\ Return(p)
    /\ UNCHANGED <<items, lastId, clock, config, lock, txn>>

--------------------------------------------------------------------------------
(* Statements *)

\* Work(p, rows): the statement leaves these rows in the transaction
Work(rows) == txn' = [txn EXCEPT !.rows = rows]

\* a table without AUTOINCREMENT: the id after the largest one present
Upsert_ReusesIds(p) ==
    LET id == IF DOMAIN txn.rows = {} THEN 1
              ELSE 1 + CHOOSE i \in DOMAIN txn.rows : \A j \in DOMAIN txn.rows : j <= i
    IN  /\ call[p].pc = "upsert"
        /\ txn' = [rows |-> UpsertRow(txn.rows, id, call[p].payload, call[p].now),
                   lastId |-> IF id > txn.lastId THEN id ELSE txn.lastId]
        /\ Goto(p, "prune")
        /\ UNCHANGED <<items, lastId, clock, config, lock>>

\* INSERT OR REPLACE: the row that held the fingerprint goes, and its pin with it
Upsert_Replaces(p) ==
    LET gone == Holders(txn.rows, call[p].payload)
    IN  /\ call[p].pc = "upsert"
        /\ txn' = [rows |-> UpsertRow(Without(txn.rows, gone), txn.lastId + 1,
                                      call[p].payload, call[p].now),
                   lastId |-> txn.lastId + 1]
        /\ Goto(p, "prune")
        /\ UNCHANGED <<items, lastId, clock, config, lock>>

\* sqlite_sequence advances even when the upsert meets a known fingerprint
Upsert(p) ==
    /\ call[p].pc = "upsert"
    /\ txn' = [rows |-> UpsertRow(txn.rows, txn.lastId + 1, call[p].payload, call[p].now),
               lastId |-> txn.lastId + 1]
    /\ Goto(p, "prune")
    /\ UNCHANGED <<items, lastId, clock, config, lock>>

Excess(p) == Cardinality(Unpinned(txn.rows)) - AtLeastOne(config[p].maxItems)

\* ORDER BY created_at DESC
Prune_Newest(p) ==
    /\ call[p].pc = "prune"
    /\ \E gone \in SUBSET Unpinned(txn.rows) :
        /\ Cardinality(gone) = IF Excess(p) > 0 THEN Excess(p) ELSE 0
        /\ \A i \in gone, j \in Unpinned(txn.rows) \ gone :
              txn.rows[i].created >= txn.rows[j].created
        /\ Work(Without(txn.rows, gone))
    /\ Goto(p, "commit")
    /\ UNCHANGED <<items, lastId, clock, config, lock>>

Prune(p) ==
    /\ call[p].pc = "prune"
    /\ \E gone \in SUBSET Unpinned(txn.rows) :
        /\ Cardinality(gone) = IF Excess(p) > 0 THEN Excess(p) ELSE 0
        /\ Oldest(txn.rows, Unpinned(txn.rows), gone)
        /\ Work(Without(txn.rows, gone))
    /\ Goto(p, "commit")
    /\ UNCHANGED <<items, lastId, clock, config, lock>>

PinLimit(p) == AtLeastOne(config[p].pinLimit)
\* without the place for the new pin
PinsOver_OneShort(p) == Cardinality(Pinned(txn.rows)) - PinLimit(p)
PinsOver(p) == Cardinality(Pinned(txn.rows)) - PinLimit(p) + 1

\* toggle_pin reads the row and, when it is to be pinned, counts the pins
ReadPin(p) ==
    /\ call[p].pc = "read"
    /\ IF call[p].id \notin DOMAIN txn.rows
       THEN Goto(p, "commit")
       ELSE IF txn.rows[call[p].id].pinned
       THEN call' = [call EXCEPT ![p].pc = "update", ![p].flag = FALSE]
       ELSE call' = [call EXCEPT ![p].pc = IF PinsOver(p) > 0 THEN "evict" ELSE "update",
                                 ![p].flag = TRUE,
                                 ![p].over = IF PinsOver(p) > 0 THEN PinsOver(p) ELSE 0]
    /\ UNCHANGED <<items, lastId, clock, config, lock, txn>>

\* the oldest pins give way
EvictPins(p) ==
    /\ call[p].pc = "evict"
    /\ \E out \in SUBSET Pinned(txn.rows) :
        /\ Cardinality(out) = call[p].over
        /\ Oldest(txn.rows, Pinned(txn.rows), out)
        /\ Work(UnpinRows(txn.rows, out))
    /\ Goto(p, "update")
    /\ UNCHANGED <<items, lastId, clock, config, lock>>

\* the UPDATE of toggle_pin and of touch, stamped now; a missing id changes nothing
UpdateRow(p) ==
    /\ call[p].pc = "update"
    /\ \E now \in Times :
        /\ ReadClock(now)
        /\ IF call[p].op = "touch" /\ call[p].id \notin DOMAIN txn.rows
           THEN UNCHANGED txn
           ELSE Work(StampRow(txn.rows, call[p].id,
                              IF call[p].op = "touch" THEN txn.rows[call[p].id].pinned
                                                      ELSE call[p].flag, now))
    /\ Goto(p, "commit")
    /\ UNCHANGED <<items, lastId, config, lock>>

\* the DELETE of delete and of clear
DeleteRows(p) ==
    /\ call[p].pc = "delete"
    /\ Work(Without(txn.rows, IF call[p].op = "delete" THEN {call[p].id}
                              ELSE IF call[p].flag THEN Unpinned(txn.rows)
                              ELSE DOMAIN txn.rows))
    /\ Goto(p, "commit")
    /\ UNCHANGED <<items, lastId, clock, config, lock>>

--------------------------------------------------------------------------------
(* Leaving a transaction *)

Unlock == lock' = NoProc /\ txn' = NoTxn

\* COMMIT; an insert goes on to read its row back
Commit(p) ==
    /\ call[p].pc = "commit"
    /\ items' = txn.rows
    /\ lastId' = txn.lastId
    /\ Unlock
    /\ IF call[p].op = "insert" THEN Goto(p, "lookup") ELSE Return(p)
    /\ UNCHANGED <<clock, config>>

\* a statement raises (disk full, I/O error, a locked table): ROLLBACK and re-raise.  A
\* COMMIT that fails is outside the try, but SQLite then rolls back by itself.
Rollback(p) ==
    /\ call[p].pc \in InTxn
    /\ Unlock
    /\ Return(p)
    /\ UNCHANGED <<items, lastId, clock, config>>

\* get_by_hash after the transaction: what add_text returns to its caller
Lookup(p) ==
    /\ call[p].pc = "lookup"
    /\ Return(p)
    /\ UNCHANGED <<items, lastId, clock, config, lock, txn>>

\* the process dies inside a call and is started again; SQLite drops its transaction
Crash(p) ==
    /\ call[p] # Idle
    /\ IF lock = p THEN Unlock ELSE UNCHANGED <<lock, txn>>
    /\ Return(p)
    /\ \E c \in Configs : config' = [config EXCEPT ![p] = c]
    /\ UNCHANGED <<items, lastId, clock>>

\* settings change between two calls: set_config, or a widget that writes the object
SetConfig(p, c) ==
    /\ call[p] = Idle
    /\ config' = [config EXCEPT ![p] = c]
    /\ UNCHANGED <<items, lastId, clock, lock, txn, call>>

Enter(p) ==
    \/ \E pl \in Payloads : BeginInsert(p, pl)
    \/ \E op \in {"toggle", "touch", "delete"}, id \in 1..lastId : BeginRowCall(p, op, id)
    \/ \E keep \in BOOLEAN : BeginClear(p, keep)
    \/ \E c \in Configs : SetConfig(p, c)

Statement(p) ==
    \/ Upsert(p) \/ Prune(p)
    \/ ReadPin(p) \/ EvictPins(p) \/ UpdateRow(p)
    \/ DeleteRows(p)

\* what a call does by itself once it has been made
Continue(p) ==
    \/ Begin(p) \/ BusyTimeout(p)
    \/ Statement(p)
    \/ Commit(p) \/ Lookup(p)

Next == \E p \in Procs : Enter(p) \/ Continue(p) \/ Rollback(p) \/ Crash(p)

Spec == Init /\ [][Next]_vars

\* A thread inside a call keeps running, and the busy timeout bounds its wait.
FairSpec == Spec /\ \A p \in Procs : WF_vars(Continue(p))

--------------------------------------------------------------------------------
TypeOK ==
    /\ lastId \in Nat
    /\ items \in [DOMAIN items -> Row]
    /\ DOMAIN items \subseteq 1..lastId
    /\ clock \in Nat
    /\ config \in [Procs -> Configs]
    /\ lock \in Procs \cup {NoProc}
    /\ txn.lastId \in Nat
    /\ txn = [rows |-> txn.rows, lastId |-> txn.lastId]
    /\ txn.rows \in [DOMAIN txn.rows -> Row]
    /\ DOMAIN txn.rows \subseteq 1..txn.lastId
    /\ call \in [Procs -> Call]

\* The write lock is held exactly by the process that is between BEGIN IMMEDIATE and
\* COMMIT or ROLLBACK: no path out of _transaction keeps it, none runs without it.
LockedIffInTxn ==
    \A p \in Procs : lock = p <=> call[p].pc \in InTxn

\* What the private copy of a transaction may hold at each step
Untouched == txn = [rows |-> items, lastId |-> lastId]

Stored(p) == UpsertRow(items, lastId + 1, call[p].payload, call[p].now)

\* the pins that made room for the row about to be pinned
MadeRoom(p, out) ==
    /\ out \subseteq Pinned(items)
    /\ Oldest(items, Pinned(items), out)
    /\ Cardinality(Pinned(items) \ out) < PinLimit(p)
    /\ out # {} => Cardinality(Pinned(items) \ out) = PinLimit(p) - 1

\* the rows beyond max_items
CutTo(p, gone) ==
    /\ gone \subseteq Unpinned(Stored(p))
    /\ Oldest(Stored(p), Unpinned(Stored(p)), gone)
    /\ Cardinality(Unpinned(Stored(p)) \ gone) <= AtLeastOne(config[p].maxItems)
    /\ gone # {} =>
          Cardinality(Unpinned(Stored(p)) \ gone) = AtLeastOne(config[p].maxItems)

\* What a finished call is about to commit: nothing, or one operation of BoundedHistory.
Outcome(p) ==
    \/ Untouched /\ call[p].op # "insert"
    \/ /\ call[p].op = "insert"
       /\ txn.lastId = lastId + 1
       /\ \E gone \in SUBSET Unpinned(Stored(p)) :
              CutTo(p, gone) /\ txn.rows = Without(Stored(p), gone)
    \/ /\ call[p].op \in {"toggle", "touch"}
       /\ txn.lastId = lastId
       /\ call[p].id \in DOMAIN items
       /\ \E now \in Times :
            \/ /\ call[p].op = "touch"
               /\ txn.rows = StampRow(items, call[p].id, items[call[p].id].pinned, now)
            \/ /\ call[p].op = "toggle"
               /\ call[p].id \in Pinned(items)
               /\ txn.rows = StampRow(items, call[p].id, FALSE, now)
            \/ /\ call[p].op = "toggle"
               /\ call[p].id \in Unpinned(items)
               /\ \E out \in SUBSET Pinned(items) :
                      /\ MadeRoom(p, out)
                      /\ txn.rows = StampRow(UnpinRows(items, out), call[p].id, TRUE, now)
    \/ /\ call[p].op = "delete"
       /\ txn = [rows |-> Without(items, {call[p].id}), lastId |-> lastId]
    \/ /\ call[p].op = "clear"
       /\ txn.lastId = lastId
       /\ txn.rows \in {Without(items, Unpinned(items)), Without(items, DOMAIN items)}

\* What the private copy and the locals of p's call owe to the statements run so far
Follows(p) ==
    LET c == call[p] IN
    /\ c.pc = "upsert" => c.op = "insert" /\ Untouched
    /\ c.pc = "prune" => /\ c.op = "insert"
                         /\ txn = [rows |-> Stored(p), lastId |-> lastId + 1]
    /\ c.pc = "read" => c.op = "toggle" /\ Untouched
    /\ c.pc = "evict" => /\ c.op = "toggle" /\ Untouched
                         /\ c.flag /\ c.id \in Unpinned(items)
                         /\ c.over = PinsOver(p) /\ c.over > 0
    /\ c.pc = "update" =>
          \/ c.op = "touch" /\ Untouched
          \/ c.op = "toggle" /\ ~c.flag /\ Untouched /\ c.id \in Pinned(items)
          \/ /\ c.op = "toggle" /\ c.flag /\ c.id \in Unpinned(items)
             /\ txn.lastId = lastId
             /\ \E out \in SUBSET Pinned(items) :
                    MadeRoom(p, out) /\ txn.rows = UnpinRows(items, out)
    /\ c.pc = "delete" => c.op \in {"delete", "clear"} /\ Untouched
    /\ c.pc = "commit" => Outcome(p)
    /\ c.pc = "begin" => c.op \in Ops
    /\ c.op = "insert" => c.payload \in Payloads

\* The private copy is the committed table plus exactly the statements the call has run:
\* nobody commits in between, and nothing is carried over from an aborted call.
WorkFollowsStatements == \A p \in Procs : Follows(p)

\* Transactions are exclusive and whole: the types, the lock and the private copy agree at every
\* statement, which is what makes COMMIT publish one operation and nothing else.
IInv == TypeOK /\ LockedIffInTxn /\ WorkFollowsStatements

BH == INSTANCE BoundedHistory WITH rows <- items

\* Every call of storage.py, spread over statements and mixed with the calls of other
\* processes, failures and crashes, looks like one indivisible operation of
\* BoundedHistory, or like nothing when it fails.
ImplementsBoundedHistory == BH!Spec

\* At most PinCeiling pins and ItemCeiling + PinCeiling rows, whatever the settings of
\* the processes and the order of their calls.
HistoryBounded == BH!Bounded

\* The id a window row or a command still holds never denotes another payload.
StaleIdsInert == BH!IdsNeverReused

\* Copying the same thing twice, even from two processes at once, leaves one row.
OneRowPerHash == BH!OneRowPerHash

\* add_text, add_image and add_files return None only for a payload the settings refuse
\* ("Returns None when it is filtered out"): what passed the filter is found by its hash.
NoneOnlyWhenFiltered ==
    [][\A p \in Procs : Lookup(p) => Holders(items, call[p].payload) # {}]_vars

\* A call always returns or raises: no process waits for the database for ever.
CallsReturn ==
    \A p \in Procs : call[p] # Idle ~> call[p] = Idle
================================================================================
