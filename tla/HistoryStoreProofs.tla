--------------------------- MODULE HistoryStoreProofs --------------------------
(***************************************************************************)
(* HistoryStore implements BoundedHistory, for any set of processes,       *)
(* payloads and settings: the database calls of storage.py are atomic and  *)
(* keep the limits, however their statements interleave.                   *)
(***************************************************************************)
EXTENDS HistoryStore, FiniteSetTheorems, TLAPS

(***************************************************************************)
(* What the SQL statements of HistoryRows do to any table.                 *)
(***************************************************************************)
IsTable(r) == r \in [DOMAIN r -> Row]

\* Every row is pinned or unpinned, so the two kinds add up to the table.
LEMMA PinnedPlusUnpinned ==
    ASSUME NEW r, IsFiniteSet(DOMAIN r)
    PROVE  /\ IsFiniteSet(Pinned(r)) /\ IsFiniteSet(Unpinned(r))
           /\ Cardinality(Pinned(r)) \in Nat /\ Cardinality(Unpinned(r)) \in Nat
           /\ Cardinality(DOMAIN r) = Cardinality(Pinned(r)) + Cardinality(Unpinned(r))
<1>1. IsFiniteSet(Pinned(r)) /\ IsFiniteSet(Unpinned(r))
  BY FS_Subset DEF Pinned, Unpinned
<1>2. DOMAIN r = Pinned(r) \cup Unpinned(r) /\ Pinned(r) \cap Unpinned(r) = {}
  BY DEF Pinned, Unpinned
<1>3. Cardinality(Pinned(r)) \in Nat /\ Cardinality(Unpinned(r)) \in Nat
  BY <1>1, FS_CardinalityType
<1>4. Cardinality(DOMAIN r) = Cardinality(Pinned(r)) + Cardinality(Unpinned(r))
                                - Cardinality(Pinned(r) \cap Unpinned(r))
  BY <1>1, <1>2, FS_Union
<1>5. Cardinality(Pinned(r) \cap Unpinned(r)) = 0
  BY <1>2, FS_EmptySet
<1> QED
  BY <1>1, <1>3, <1>4, <1>5

\* An upsert adds at most the row it was given an id for, pins nothing and unpins nothing.
LEMMA UpsertTable ==
    ASSUME NEW r, IsTable(r), NEW id, id \notin DOMAIN r,
           NEW pl \in Payloads, NEW now \in Times
    PROVE  LET s == UpsertRow(r, id, pl, now) IN
           /\ IsTable(s)
           /\ DOMAIN s \subseteq DOMAIN r \cup {id}
           /\ DOMAIN r \subseteq DOMAIN s
           /\ Pinned(s) = Pinned(r)
           /\ \A i \in DOMAIN r : HashOf[s[i].payload] = HashOf[r[i].payload]
           /\ id \in DOMAIN s => /\ Holders(r, pl) = {}
                                 /\ s[id].payload = pl
<1>1. CASE Holders(r, pl) = {}
  BY <1>1 DEF UpsertRow, IsTable, Row, Pinned
<1>2. CASE Holders(r, pl) # {}
  <2> DEFINE s == UpsertRow(r, id, pl, now)
  <2>1. s = [i \in DOMAIN r |->
               IF i \in Holders(r, pl)
               THEN [payload |-> pl, pinned |-> r[i].pinned,
                     created |-> IF r[i].pinned THEN r[i].created ELSE now]
               ELSE r[i]]
    BY <1>2 DEF UpsertRow
  <2>2. \A i \in DOMAIN r : r[i] \in Row
    BY DEF IsTable
  <2>3. \A i \in DOMAIN r : s[i] \in Row /\ (s[i].pinned = r[i].pinned)
    <3> SUFFICES ASSUME NEW i \in DOMAIN r
                 PROVE  s[i] \in Row /\ (s[i].pinned = r[i].pinned)
      OBVIOUS
    <3>1. r[i].pinned \in BOOLEAN /\ r[i].created \in Times
      BY <2>2 DEF Row
    <3>2. CASE i \in Holders(r, pl)
      BY <2>1, <3>1, <3>2 DEF Row
    <3>3. CASE i \notin Holders(r, pl)
      BY <2>1, <2>2, <3>3
    <3> QED
      BY <3>2, <3>3
  <2>4. \A i \in DOMAIN r : HashOf[s[i].payload] = HashOf[r[i].payload]
    BY <2>1 DEF Holders
  <2>5. DOMAIN s = DOMAIN r /\ IsTable(s)
    BY <2>1, <2>3 DEF IsTable
  <2>6. Pinned(s) = Pinned(r)
    BY <2>3, <2>5 DEF Pinned
  <2> QED
    BY <2>4, <2>5, <2>6
<1> QED
  BY <1>1, <1>2

\* Deleting rows leaves the others as they are.
LEMMA WithoutTable ==
    ASSUME NEW r, IsTable(r), NEW gone
    PROVE  /\ IsTable(Without(r, gone))
           /\ DOMAIN Without(r, gone) = DOMAIN r \ gone
           /\ \A i \in DOMAIN r \ gone : Without(r, gone)[i] = r[i]
           /\ Pinned(Without(r, gone)) = Pinned(r) \ gone
           /\ Unpinned(Without(r, gone)) = Unpinned(r) \ gone
  BY DEF IsTable, Without, Pinned, Unpinned

\* Unpinning and stamping keep the ids and the payloads.
LEMMA StampTable ==
    ASSUME NEW r, IsTable(r), NEW out, NEW id \in DOMAIN r,
           NEW pin \in BOOLEAN, NEW now \in Times
    PROVE  LET s == StampRow(UnpinRows(r, out), id, pin, now) IN
           /\ IsTable(s)
           /\ DOMAIN s = DOMAIN r
           /\ \A i \in DOMAIN r : s[i].payload = r[i].payload
           /\ \A i \in DOMAIN r \ {id} : s[i].pinned <=> (r[i].pinned /\ i \notin out)
           /\ s[id].pinned = pin
<1> DEFINE u == UnpinRows(r, out)
           s == StampRow(u, id, pin, now)
<1>1. \A i \in DOMAIN r : r[i] \in Row
  BY DEF IsTable
<1>2. /\ DOMAIN u = DOMAIN r
      /\ \A i \in DOMAIN r : /\ u[i] \in Row
                             /\ u[i].payload = r[i].payload
                             /\ u[i].pinned <=> (r[i].pinned /\ i \notin out)
  BY <1>1 DEF UnpinRows, Row
<1>3. /\ DOMAIN s = DOMAIN r
      /\ \A i \in DOMAIN r : /\ s[i] \in Row
                             /\ s[i].payload = r[i].payload
      /\ \A i \in DOMAIN r \ {id} : s[i] = u[i]
      /\ s[id].pinned = pin
  BY <1>2 DEF StampRow, Row
<1>4. IsTable(s)
  BY <1>3 DEF IsTable, StampRow
<1> QED
  BY <1>2, <1>3, <1>4

\* Unpinning alone keeps the ids too.
LEMMA UnpinTable ==
    ASSUME NEW r, IsTable(r), NEW out
    PROVE  IsTable(UnpinRows(r, out)) /\ DOMAIN UnpinRows(r, out) = DOMAIN r
<1> DEFINE u == UnpinRows(r, out)
<1>1. \A i \in DOMAIN r : r[i] \in Row
  BY DEF IsTable
<1>2. DOMAIN u = DOMAIN r /\ \A i \in DOMAIN r : u[i] \in Row
  BY <1>1 DEF UnpinRows, Row
<1> QED
  BY <1>2 DEF IsTable, UnpinRows

--------------------------------------------------------------------------------
(***************************************************************************)
(* The inductive invariant, IInv.  LockedIffInTxn makes the lock exclusive; *)
(* WorkFollowsStatements then says what the one open transaction holds, so *)
(* that its COMMIT is one step of BoundedHistory.                          *)
(***************************************************************************)
USE StoreAssumption DEF StoreAssumption

\* An empty database without a call satisfies the invariant.
LEMMA InitIInv == Init => IInv
<1> SUFFICES ASSUME Init PROVE IInv
  OBVIOUS
<1>1. DOMAIN NoRows = {} /\ NoRows \in [DOMAIN NoRows -> Row]
  BY DEF NoRows
<1>2. Idle \in Call
  BY RowsAssumption DEF Idle, Call, Times
<1>3. TypeOK
  BY <1>1, <1>2, RowsAssumption DEF Init, TypeOK, NoTxn, Times
<1>4. \A p \in Procs : call[p].pc = "idle" /\ call[p].op = "none"
  BY DEF Init, Idle
<1>5. LockedIffInTxn
  BY <1>4 DEF Init, LockedIffInTxn, InTxn
<1>6. WorkFollowsStatements
  BY <1>4 DEF WorkFollowsStatements, Follows
<1> QED
  BY <1>3, <1>5, <1>6 DEF IInv

\* A step of p keeps what is known of the call of another process q: either it leaves
\* the table and the transaction alone, or the lock is free or held by p, and then q is
\* not in a transaction.
LEMMA OthersFollow ==
    ASSUME IInv, NEW p \in Procs, NEW q \in Procs, q # p,
           call'[q] = call[q], config'[q] = config[q],
           UNCHANGED <<items, lastId, txn>> \/ lock = p \/ lock = NoProc
    PROVE  Follows(q)'
<1>1. Follows(q)
  BY DEF IInv, WorkFollowsStatements
<1>2. CASE UNCHANGED <<items, lastId, txn>>
  BY <1>1, <1>2 DEF Follows, Untouched, Stored, PinsOver, PinLimit, Outcome, CutTo, MadeRoom
<1>3. CASE lock = p \/ lock = NoProc
  <2>1. lock # q
    BY <1>3
  <2>2. call[q].pc \notin InTxn
    BY <2>1 DEF IInv, LockedIffInTxn
  <2> QED
    BY <1>1, <2>2 DEF Follows, InTxn
<1> QED
  BY <1>2, <1>3

\* The same for a step that changes no call but p's: what is left to show for it.
LEMMA StepOfOne ==
    ASSUME IInv, NEW p \in Procs,
           \A q \in Procs \ {p} : call'[q] = call[q] /\ config'[q] = config[q],
           UNCHANGED <<items, lastId, txn>> \/ lock = p \/ lock = NoProc,
           \/ lock' = lock /\ (call'[p].pc \in InTxn <=> call[p].pc \in InTxn)
           \/ lock = NoProc /\ lock' = p /\ call'[p].pc \in InTxn
           \/ lock = p /\ lock' = NoProc /\ call'[p].pc \notin InTxn,
           TypeOK', Follows(p)'
    PROVE  IInv'
<1>1. \A q \in Procs \ {p} : Follows(q)'
  BY OthersFollow
<1>2. WorkFollowsStatements'
  BY <1>1 DEF WorkFollowsStatements
<1>3. LockedIffInTxn'
  BY DEF IInv, LockedIffInTxn
<1> QED
  BY <1>2, <1>3 DEF IInv

\* Entering a call or changing the settings between calls touches no table.
LEMMA EnterIInv ==
    ASSUME IInv, NEW p \in Procs, Enter(p)
    PROVE  IInv'
<1> USE DEF IInv
<1>1. call[p] \in Call /\ Idle \in Call /\ call \in [Procs -> Call]
  BY RowsAssumption DEF TypeOK, Idle, Call, Times
<1>2. ASSUME NEW pl \in Payloads, BeginInsert(p, pl)
      PROVE  IInv'
  <2>1. PICK now \in Times :
            /\ ReadClock(now)
            /\ call' = [call EXCEPT ![p] = Made("insert", 0, pl, now, FALSE)]
    BY <1>2 DEF BeginInsert
  <2>2. /\ call'[p] = Made("insert", 0, pl, now, FALSE)
        /\ Made("insert", 0, pl, now, FALSE) \in Call
        /\ call' \in [Procs -> Call]
    BY <1>1, <2>1 DEF Made, Call, Ops
  <2>3. clock' \in Nat
    BY <2>1 DEF ReadClock, TypeOK
  <2>4. TypeOK'
    BY <1>2, <2>2, <2>3 DEF BeginInsert, TypeOK
  <2>5. Follows(p)'
    BY <2>2 DEF Follows, Ops, Made
  <2> QED
    BY <1>1, <1>2, <2>1, <2>2, <2>4, <2>5, StepOfOne DEF BeginInsert, InTxn, Idle, Made
<1>3. ASSUME NEW op \in {"toggle", "touch", "delete"}, NEW id \in 1..lastId,
             BeginRowCall(p, op, id)
      PROVE  IInv'
  <2>1. /\ call' = [call EXCEPT ![p] = Made(op, id, NoPayload, 0, FALSE)]
        /\ call'[p] = Made(op, id, NoPayload, 0, FALSE)
        /\ Made(op, id, NoPayload, 0, FALSE) \in Call
    BY <1>1, <1>3, RowsAssumption DEF BeginRowCall, Made, Call, Ops, TypeOK, Times
  <2>2. TypeOK'
    BY <1>1, <1>3, <2>1 DEF BeginRowCall, TypeOK
  <2>3. Follows(p)'
    BY <2>1 DEF Follows, Ops, Made
  <2> QED
    BY <1>1, <1>3, <2>1, <2>2, <2>3, StepOfOne DEF BeginRowCall, InTxn, Idle, Made
<1>4. ASSUME NEW keep \in BOOLEAN, BeginClear(p, keep)
      PROVE  IInv'
  <2>1. /\ call' = [call EXCEPT ![p] = Made("clear", 0, NoPayload, 0, keep)]
        /\ call'[p] = Made("clear", 0, NoPayload, 0, keep)
        /\ Made("clear", 0, NoPayload, 0, keep) \in Call
    BY <1>1, <1>4, RowsAssumption DEF BeginClear, Made, Call, Ops, Times
  <2>2. TypeOK'
    BY <1>1, <1>4, <2>1 DEF BeginClear, TypeOK
  <2>3. Follows(p)'
    BY <2>1 DEF Follows, Ops, Made
  <2> QED
    BY <1>1, <1>4, <2>1, <2>2, <2>3, StepOfOne DEF BeginClear, InTxn, Idle, Made
<1>5. ASSUME NEW c \in Configs, SetConfig(p, c)
      PROVE  IInv'
  <2>1. TypeOK'
    BY <1>5 DEF SetConfig, TypeOK
  <2>2. Follows(p)'
    BY <1>5 DEF SetConfig, Follows, Idle
  <2> QED
    BY <1>5, <2>1, <2>2, StepOfOne DEF SetConfig, TypeOK
<1> QED
  BY <1>2, <1>3, <1>4, <1>5 DEF Enter

\* The committed table and the private copy are tables with an unused next id.
LEMMA TxnTables ==
    ASSUME TypeOK
    PROVE  /\ IsTable(items) /\ IsFiniteSet(DOMAIN items) /\ lastId + 1 \notin DOMAIN items
           /\ IsTable(txn.rows) /\ IsFiniteSet(DOMAIN txn.rows)
           /\ txn.lastId + 1 \notin DOMAIN txn.rows
<1>1. IsFiniteSet(1..lastId) /\ IsFiniteSet(1..txn.lastId)
  <2>1. lastId \in Int /\ txn.lastId \in Int /\ 1 \in Int
    BY DEF TypeOK
  <2> QED
    BY <2>1, FS_Interval
<1>2. IsFiniteSet(DOMAIN items) /\ IsFiniteSet(DOMAIN txn.rows)
  BY <1>1, FS_Subset DEF TypeOK
<1> QED
  BY <1>2 DEF TypeOK, IsTable

\* BEGIN IMMEDIATE copies the committed table.
LEMMA BeginIInv ==
    ASSUME IInv, NEW p \in Procs, Begin(p)
    PROVE  IInv'
<1>1. call \in [Procs -> Call] /\ call[p].op \in Ops
  BY DEF IInv, TypeOK, WorkFollowsStatements, Follows, Begin
<1>2. /\ FirstStep[call[p].op] \in {"upsert", "read", "update", "delete"}
      /\ FirstStep[call[p].op] = "upsert" => call[p].op = "insert"
      /\ FirstStep[call[p].op] = "read" => call[p].op = "toggle"
      /\ FirstStep[call[p].op] = "update" => call[p].op = "touch"
      /\ FirstStep[call[p].op] = "delete" => call[p].op \in {"delete", "clear"}
  BY <1>1 DEF FirstStep, Ops
<1>3. /\ call'[p] = [call[p] EXCEPT !.pc = FirstStep[call[p].op]]
      /\ call' \in [Procs -> Call]
      /\ \A q \in Procs \ {p} : call'[q] = call[q]
  BY <1>1, <1>2 DEF Begin, Goto, Call, InTxn
<1>4. txn' = [rows |-> items, lastId |-> lastId]
  BY DEF Begin
<1>5. TypeOK'
  BY <1>3, <1>4 DEF IInv, TypeOK, Begin
<1>6. call'[p].pc = FirstStep[call[p].op] /\ call'[p].op = call[p].op
      /\ call'[p].payload = call[p].payload
  BY <1>1, <1>3 DEF Call
<1>7. Follows(p)'
  <2>1. Follows(p)
    BY DEF IInv, WorkFollowsStatements
  <2>2. Untouched'
    BY <1>4 DEF Untouched, Begin
  <2> QED
    BY <1>1, <1>2, <1>6, <2>1, <2>2 DEF Follows, Ops
<1>8. call'[p].pc \in InTxn
  BY <1>2, <1>6 DEF InTxn
<1> QED
  BY <1>3, <1>5, <1>7, <1>8, StepOfOne DEF Begin

\* A call that ends without committing: its transaction, if it has one, is dropped.
LEMMA ReturnIInv ==
    ASSUME IInv, NEW p \in Procs, Return(p), UNCHANGED <<items, lastId, clock>>,
           \A q \in Procs \ {p} : config'[q] = config[q], config' \in [Procs -> Configs],
           \/ call[p].pc \notin InTxn /\ UNCHANGED <<lock, txn>>
           \/ call[p].pc \in InTxn /\ Unlock
    PROVE  IInv'
<1>1. Idle \in Call /\ Idle.pc = "idle" /\ Idle.op = "none"
  BY RowsAssumption DEF Idle, Call, Times
<1>2. call'[p] = Idle /\ call' \in [Procs -> Call] /\ \A q \in Procs \ {p} : call'[q] = call[q]
  BY <1>1 DEF IInv, TypeOK, Return
<1>3. DOMAIN NoRows = {} /\ NoRows \in [DOMAIN NoRows -> Row]
  BY DEF NoRows
<1>4. TypeOK'
  <2>1. CASE UNCHANGED <<lock, txn>>
    BY <1>2, <2>1 DEF IInv, TypeOK
  <2>2. CASE lock' = NoProc /\ txn' = NoTxn
    <3>1. /\ txn'.lastId = 0 /\ txn'.rows = NoRows
          /\ txn' = [rows |-> txn'.rows, lastId |-> txn'.lastId]
      BY <2>2 DEF NoTxn
    <3> QED
      BY <1>2, <1>3, <2>2, <3>1 DEF IInv, TypeOK
  <2> QED
    BY <2>1, <2>2 DEF Unlock
<1>5. Follows(p)'
  BY <1>1, <1>2 DEF Follows
<1>6. call[p].pc \in InTxn <=> lock = p
  BY DEF IInv, LockedIffInTxn
<1>7. call'[p].pc \notin InTxn
  BY <1>1, <1>2 DEF InTxn
<1> QED
  BY <1>2, <1>4, <1>5, <1>6, <1>7, StepOfOne DEF Unlock

\* What a statement of p must establish: it moves pc within the transaction and changes
\* at most the private copy.
LEMMA StatementIInv ==
    ASSUME IInv, NEW p \in Procs, call[p].pc \in InTxn,
           UNCHANGED <<items, lastId, config, lock>>,
           clock' \in Nat,
           NEW c \in Call, c.pc \in InTxn, call' = [call EXCEPT ![p] = c],
           txn' = [rows |-> txn'.rows, lastId |-> txn'.lastId],
           txn'.lastId \in Nat, IsTable(txn'.rows), DOMAIN txn'.rows \subseteq 1..txn'.lastId,
           Follows(p)'
    PROVE  IInv'
<1>1. lock = p
  BY DEF IInv, LockedIffInTxn
<1>2. call'[p] = c /\ call' \in [Procs -> Call] /\ \A q \in Procs \ {p} : call'[q] = call[q]
  BY DEF IInv, TypeOK
<1>3. TypeOK'
  BY <1>2 DEF IInv, TypeOK, IsTable
<1> QED
  BY <1>1, <1>2, <1>3, StepOfOne

\* pc moves on to another step, and every other local stays.
LEMMA GotoCall ==
    ASSUME TypeOK, NEW p \in Procs, NEW step \in InTxn, Goto(p, step)
    PROVE  \E c \in Call :
              /\ call' = [call EXCEPT ![p] = c] /\ call'[p] = c
              /\ c.pc = step /\ c.op = call[p].op /\ c.id = call[p].id
              /\ c.payload = call[p].payload /\ c.now = call[p].now
              /\ c.flag = call[p].flag /\ c.over = call[p].over
<1> DEFINE c == [call[p] EXCEPT !.pc = step]
<1>1. call[p] \in Call
  BY DEF TypeOK
<1>2. c \in Call /\ c.pc = step /\ c.op = call[p].op /\ c.id = call[p].id
      /\ c.payload = call[p].payload /\ c.now = call[p].now
      /\ c.flag = call[p].flag /\ c.over = call[p].over
  BY <1>1 DEF Call
<1>3. call' = [call EXCEPT ![p] = c] /\ call'[p] = c
  BY DEF Goto, TypeOK
<1> QED
  BY <1>2, <1>3

\* The upsert leaves the private copy at Stored.
LEMMA UpsertIInv ==
    ASSUME IInv, NEW p \in Procs, Upsert(p)
    PROVE  IInv'
<1>1. /\ call[p].op = "insert" /\ call[p].payload \in Payloads /\ Untouched
      /\ call[p].now \in Times
  BY DEF IInv, WorkFollowsStatements, Follows, Upsert, TypeOK, Call
<1>2. PICK c \in Call :
              /\ call' = [call EXCEPT ![p] = c] /\ call'[p] = c
              /\ c.pc = "prune" /\ c.op = call[p].op /\ c.id = call[p].id
              /\ c.payload = call[p].payload /\ c.now = call[p].now
  BY GotoCall DEF IInv, Upsert, InTxn
<1> DEFINE s == UpsertRow(txn.rows, txn.lastId + 1, call[p].payload, call[p].now)
<1>3. IsTable(s) /\ DOMAIN s \subseteq DOMAIN txn.rows \cup {txn.lastId + 1}
  BY <1>1, TxnTables, UpsertTable DEF IInv
<1>4. s = Stored(p) /\ Stored(p)' = Stored(p)
  BY <1>1, <1>2 DEF Stored, Untouched, Upsert
<1> HIDE DEF s
<1>5. txn' = [rows |-> s, lastId |-> txn.lastId + 1]
  BY DEF Upsert, s
<1>6. txn'.rows = s /\ txn'.lastId = txn.lastId + 1 /\ txn'.lastId = lastId + 1
  BY <1>1, <1>5 DEF Untouched
<1>7. txn'.lastId \in Nat /\ DOMAIN s \subseteq 1..txn'.lastId
  BY <1>3, <1>6 DEF IInv, TypeOK
<1>8. Follows(p)'
  BY <1>1, <1>2, <1>4, <1>5, <1>6 DEF Follows, Upsert
<1>9. call[p].pc \in InTxn /\ clock' \in Nat
  BY DEF Upsert, InTxn, IInv, TypeOK
<1> QED
  BY <1>2, <1>3, <1>5, <1>6, <1>7, <1>8, <1>9, StatementIInv DEF Upsert, InTxn

\* The limits a call works with stay within the ceilings of the settings.
LEMMA CallLimits ==
    ASSUME TypeOK, NEW p \in Procs
    PROVE  /\ config[p] \in Configs
           /\ PinLimit(p) \in Nat /\ PinLimit(p) >= 1 /\ PinLimit(p) <= PinCeiling
           /\ AtLeastOne(config[p].maxItems) \in Nat
           /\ AtLeastOne(config[p].maxItems) <= ItemCeiling
  BY RowsAssumption DEF TypeOK, PinLimit, AtLeastOne, Config

\* The rows a prune deletes are the oldest unpinned ones beyond max_items.
LEMMA PruneIInv ==
    ASSUME IInv, NEW p \in Procs, Prune(p)
    PROVE  IInv'
<1>1. /\ call[p].op = "insert" /\ call[p].payload \in Payloads
      /\ txn = [rows |-> Stored(p), lastId |-> lastId + 1]
  BY DEF IInv, WorkFollowsStatements, Follows, Prune
<1>2. PICK c \in Call :
              /\ call' = [call EXCEPT ![p] = c] /\ call'[p] = c
              /\ c.pc = "commit" /\ c.op = call[p].op /\ c.id = call[p].id
              /\ c.payload = call[p].payload /\ c.now = call[p].now
  BY GotoCall DEF IInv, Prune, InTxn
<1>3. PICK gone \in SUBSET Unpinned(txn.rows) :
              /\ Cardinality(gone) = IF Excess(p) > 0 THEN Excess(p) ELSE 0
              /\ Oldest(txn.rows, Unpinned(txn.rows), gone)
              /\ Work(Without(txn.rows, gone))
  BY DEF Prune
<1> DEFINE limit == AtLeastOne(config[p].maxItems)
           all == Unpinned(txn.rows)
<1>4. /\ txn' = [rows |-> Without(txn.rows, gone), lastId |-> txn.lastId]
      /\ txn.rows = Stored(p) /\ txn.lastId = lastId + 1
  BY <1>1, <1>3 DEF Work
<1>5. /\ IsFiniteSet(all) /\ IsFiniteSet(gone)
      /\ Cardinality(all) \in Nat /\ Cardinality(gone) \in Nat /\ limit \in Nat
      /\ Cardinality(all \ gone) = Cardinality(all) - Cardinality(gone)
  <2>1. IsFiniteSet(all)
    BY TxnTables, PinnedPlusUnpinned DEF IInv
  <2>2. all \cap gone = gone /\ IsFiniteSet(gone)
    BY <2>1, FS_Subset
  <2>3. Cardinality(all \ gone) = Cardinality(all) - Cardinality(all \cap gone)
    BY <2>1, FS_Difference
  <2> QED
    BY <2>1, <2>2, <2>3, FS_CardinalityType, CallLimits DEF IInv
<1>6. /\ Cardinality(all \ gone) <= limit
      /\ gone # {} => Cardinality(all \ gone) = limit
  <2>1. Excess(p) = Cardinality(all) - limit
    BY DEF Excess
  <2>2. gone # {} => Cardinality(gone) # 0
    BY <1>5, FS_EmptySet
  <2> HIDE DEF limit, all
  <2> QED
    BY <1>3, <1>5, <2>1, <2>2
<1>7. CutTo(p, gone)
  BY <1>3, <1>4, <1>6 DEF CutTo
<1>8. Outcome(p)'
  <2>1. CutTo(p, gone)' /\ Stored(p)' = Stored(p)
    BY <1>2, <1>7 DEF CutTo, Stored, Prune
  <2>2. txn'.rows = Without(Stored(p), gone) /\ txn'.lastId = lastId' + 1
    BY <1>4 DEF Prune
  <2> QED
    BY <1>1, <1>2, <1>3, <1>4, <2>1, <2>2 DEF Outcome
<1>9. Follows(p)'
  BY <1>1, <1>2, <1>8 DEF Follows
<1>10. /\ IsTable(txn'.rows) /\ DOMAIN txn'.rows \subseteq 1..txn'.lastId
       /\ txn'.lastId \in Nat /\ txn' = [rows |-> txn'.rows, lastId |-> txn'.lastId]
  <2> DEFINE w == Without(txn.rows, gone)
  <2>1. IsTable(w) /\ DOMAIN w \subseteq DOMAIN txn.rows
    <3>1. IsTable(txn.rows)
      BY TxnTables DEF IInv
    <3>2. IsTable(w) /\ DOMAIN w = DOMAIN txn.rows \ gone
      BY <3>1, WithoutTable, Zenon
    <3> HIDE DEF w
    <3> QED
      BY <3>2
  <2>2. txn'.rows = w /\ txn'.lastId = txn.lastId
        /\ txn' = [rows |-> txn'.rows, lastId |-> txn'.lastId]
    BY <1>4
  <2> HIDE DEF w
  <2> QED
    BY <2>1, <2>2 DEF IInv, TypeOK
<1>11. call[p].pc \in InTxn /\ clock' \in Nat
  BY DEF Prune, InTxn, IInv, TypeOK
<1> QED
  BY <1>2, <1>9, <1>10, <1>11, StatementIInv DEF Prune, InTxn

\* A statement that leaves the private copy alone keeps it a table.
LEMMA CopyStays ==
    ASSUME TypeOK, UNCHANGED txn
    PROVE  /\ txn' = [rows |-> txn'.rows, lastId |-> txn'.lastId]
           /\ txn'.lastId \in Nat /\ IsTable(txn'.rows)
           /\ DOMAIN txn'.rows \subseteq 1..txn'.lastId
  BY DEF TypeOK, IsTable

\* toggle_pin decides from rows nobody else can change before its commit.
LEMMA ReadPinIInv ==
    ASSUME IInv, NEW p \in Procs, ReadPin(p)
    PROVE  IInv'
<1>1. call[p].op = "toggle" /\ Untouched /\ call[p] \in Call /\ call[p].pc \in InTxn
  BY DEF IInv, WorkFollowsStatements, Follows, ReadPin, TypeOK, InTxn
<1>2. /\ UNCHANGED <<items, lastId, config, lock, txn>> /\ clock' \in Nat
      /\ txn.rows = items /\ txn.lastId = lastId /\ Untouched'
  BY <1>1 DEF ReadPin, IInv, TypeOK, Untouched
<1>3. CASE call[p].id \notin DOMAIN txn.rows
  <2>1. PICK c \in Call :
              /\ call' = [call EXCEPT ![p] = c] /\ call'[p] = c
              /\ c.pc = "commit" /\ c.op = call[p].op
    BY <1>3, GotoCall DEF IInv, ReadPin, InTxn
  <2>2. Follows(p)'
    BY <1>1, <1>2, <2>1 DEF Follows, Outcome
  <2> QED
    BY <1>1, <1>2, <2>1, <2>2, CopyStays, StatementIInv DEF InTxn, IInv
<1>4. CASE call[p].id \in DOMAIN txn.rows /\ txn.rows[call[p].id].pinned
  <2> DEFINE c == [call[p] EXCEPT !.pc = "update", !.flag = FALSE]
  <2>1. call' = [call EXCEPT ![p] = c] /\ call'[p] = c
    BY <1>4 DEF ReadPin, IInv, TypeOK
  <2>2. c \in Call /\ c.pc = "update" /\ c.flag = FALSE /\ c.op = "toggle" /\ c.id = call[p].id
    BY <1>1 DEF Call, InTxn
  <2> HIDE DEF c
  <2>3. Follows(p)'
    BY <1>2, <1>4, <2>1, <2>2 DEF Follows, Pinned
  <2> QED
    BY <1>1, <1>2, <2>1, <2>2, <2>3, CopyStays, StatementIInv DEF InTxn, IInv
<1>5. CASE call[p].id \in DOMAIN txn.rows /\ ~txn.rows[call[p].id].pinned
  <2> DEFINE over == IF PinsOver(p) > 0 THEN PinsOver(p) ELSE 0
             step == IF PinsOver(p) > 0 THEN "evict" ELSE "update"
             c == [call[p] EXCEPT !.pc = step, !.flag = TRUE, !.over = over]
  <2>1. Cardinality(Pinned(items)) \in Nat /\ PinLimit(p) \in Nat
    BY TxnTables, PinnedPlusUnpinned, CallLimits DEF IInv
  <2>2. PinsOver(p) \in Int /\ PinsOver(p) = Cardinality(Pinned(items)) - PinLimit(p) + 1
    BY <1>2, <2>1 DEF PinsOver
  <2>3. call' = [call EXCEPT ![p] = c] /\ call'[p] = c
    BY <1>5 DEF ReadPin, IInv, TypeOK
  <2>4. /\ c \in Call /\ c.pc = step /\ c.flag = TRUE /\ c.over = over
        /\ c.op = "toggle" /\ c.id = call[p].id
    <3>1. over \in Nat /\ step \in InTxn
      BY <2>2 DEF InTxn
    <3> HIDE DEF over, step
    <3> QED
      BY <1>1, <3>1 DEF Call
  <2>5. PinsOver(p)' = PinsOver(p) /\ PinLimit(p)' = PinLimit(p)
    BY <1>2 DEF PinsOver, PinLimit
  <2>6. call[p].id \in Unpinned(items)
    BY <1>2, <1>5 DEF Unpinned
  <2> HIDE DEF c
  <2>7. Follows(p)'
    <3>1. CASE PinsOver(p) > 0
      BY <1>2, <2>2, <2>3, <2>4, <2>5, <2>6, <3>1 DEF Follows
    <3>2. CASE ~(PinsOver(p) > 0)
      <4>1. Cardinality(Pinned(items) \ {}) < PinLimit(p)
        BY <2>1, <2>2, <3>2
      <4>2. MadeRoom(p, {})
        BY <4>1 DEF MadeRoom, Oldest
      <4>3. MadeRoom(p, {})'
        BY <1>2, <2>5, <4>2 DEF MadeRoom
      <4>4. UnpinRows(items, {}) = items
        BY TxnTables DEF UnpinRows, IsTable, IInv
      <4> QED
        BY <1>2, <2>3, <2>4, <2>6, <3>2, <4>3, <4>4 DEF Follows
    <3> QED
      BY <3>1, <3>2
  <2> QED
    BY <1>1, <1>2, <2>3, <2>4, <2>7, CopyStays, StatementIInv DEF InTxn, IInv
<1> QED
  BY <1>3, <1>4, <1>5

\* The pins that give way are the oldest, and leave room for exactly one more.
LEMMA EvictPinsIInv ==
    ASSUME IInv, NEW p \in Procs, EvictPins(p)
    PROVE  IInv'
<1>1. /\ call[p].op = "toggle" /\ Untouched /\ call[p].flag
      /\ call[p].id \in Unpinned(items)
      /\ call[p].over = PinsOver(p) /\ call[p].over > 0
  BY DEF IInv, WorkFollowsStatements, Follows, EvictPins
<1>2. PICK c \in Call :
              /\ call' = [call EXCEPT ![p] = c] /\ call'[p] = c
              /\ c.pc = "update" /\ c.op = call[p].op /\ c.id = call[p].id
              /\ c.flag = call[p].flag
  BY GotoCall DEF IInv, EvictPins, InTxn
<1>3. PICK out \in SUBSET Pinned(txn.rows) :
          /\ Cardinality(out) = call[p].over
          /\ Oldest(txn.rows, Pinned(txn.rows), out)
          /\ Work(UnpinRows(txn.rows, out))
  BY DEF EvictPins
<1>4. /\ txn.rows = items /\ txn.lastId = lastId
      /\ txn' = [rows |-> UnpinRows(items, out), lastId |-> lastId]
  BY <1>1, <1>3 DEF Untouched, Work
<1> DEFINE pins == Pinned(items)
<1>5. /\ Cardinality(pins) \in Nat /\ PinLimit(p) \in Nat
      /\ Cardinality(pins \ out) = Cardinality(pins) - call[p].over
  <2>1. IsFiniteSet(pins)
    BY TxnTables, PinnedPlusUnpinned DEF IInv
  <2>2. pins \cap out = out
    BY <1>3, <1>4
  <2>3. Cardinality(pins \ out) = Cardinality(pins) - Cardinality(pins \cap out)
    BY <2>1, FS_Difference
  <2> QED
    BY <1>3, <2>1, <2>2, <2>3, FS_CardinalityType, CallLimits DEF IInv
<1>6. Cardinality(pins \ out) = PinLimit(p) - 1
  BY <1>1, <1>4, <1>5 DEF PinsOver
<1>7. MadeRoom(p, out)
  BY <1>3, <1>4, <1>5, <1>6 DEF MadeRoom
<1>8. MadeRoom(p, out)' /\ Pinned(items)' = Pinned(items) /\ Unpinned(items)' = Unpinned(items)
  BY <1>7 DEF MadeRoom, EvictPins, PinLimit
<1>9. txn'.rows = UnpinRows(items', out) /\ txn'.lastId = lastId'
  BY <1>4 DEF EvictPins
<1>10. Follows(p)'
  BY <1>1, <1>2, <1>3, <1>4, <1>8, <1>9 DEF Follows
<1>11. /\ IsTable(txn'.rows) /\ DOMAIN txn'.rows \subseteq 1..txn'.lastId
       /\ txn'.lastId \in Nat /\ txn' = [rows |-> txn'.rows, lastId |-> txn'.lastId]
  <2> DEFINE u == UnpinRows(items, out)
  <2>1. IsTable(u) /\ DOMAIN u = DOMAIN items
    BY TxnTables, UnpinTable DEF IInv
  <2>2. txn'.rows = u /\ txn'.lastId = lastId
        /\ txn' = [rows |-> txn'.rows, lastId |-> txn'.lastId]
    BY <1>4
  <2> HIDE DEF u
  <2> QED
    BY <2>1, <2>2 DEF IInv, TypeOK
<1>12. call[p].pc \in InTxn /\ clock' \in Nat
  BY DEF EvictPins, InTxn, IInv, TypeOK
<1> QED
  BY <1>2, <1>10, <1>11, <1>12, StatementIInv DEF EvictPins, InTxn

\* The UPDATE of toggle_pin and touch prepares one Pin, Unpin or Touch.
LEMMA UpdateRowIInv ==
    ASSUME IInv, NEW p \in Procs, UpdateRow(p)
    PROVE  IInv'
<1> DEFINE id == call[p].id
<1>1. Follows(p) /\ call[p].pc = "update"
  BY DEF IInv, WorkFollowsStatements, UpdateRow
<1>2. PICK c \in Call :
              /\ call' = [call EXCEPT ![p] = c] /\ call'[p] = c
              /\ c.pc = "commit" /\ c.op = call[p].op /\ c.id = call[p].id
  BY GotoCall DEF IInv, UpdateRow, InTxn
<1>3. PICK now \in Times :
        /\ ReadClock(now)
        /\ IF call[p].op = "touch" /\ id \notin DOMAIN txn.rows
           THEN UNCHANGED txn
           ELSE Work(StampRow(txn.rows, id,
                              IF call[p].op = "touch" THEN txn.rows[id].pinned
                                                      ELSE call[p].flag, now))
  BY DEF UpdateRow
<1>4. /\ UNCHANGED <<items, lastId, config, lock>> /\ call[p].pc \in InTxn
      /\ call[p].flag \in BOOLEAN
  BY <1>1 DEF UpdateRow, InTxn, IInv, TypeOK, Call
<1>5. clock' \in Nat
  BY <1>3 DEF ReadClock, IInv, TypeOK
<1>11. \A r : Work(r) => txn' = [rows |-> r, lastId |-> txn.lastId]
  BY DEF Work, IInv, TypeOK
<1> HIDE DEF id
<1>6. CASE call[p].op = "touch" /\ id \notin DOMAIN txn.rows
  <2>1. Untouched /\ UNCHANGED txn
    BY <1>1, <1>3, <1>6 DEF Follows
  <2>2. Follows(p)'
    BY <1>2, <1>4, <1>6, <2>1 DEF Follows, Outcome, Untouched
  <2> QED
    BY <1>2, <1>4, <1>5, <2>1, <2>2, CopyStays, StatementIInv DEF InTxn, IInv
<1>7. ASSUME NEW pin \in BOOLEAN, id \in DOMAIN txn.rows,
             txn' = [rows |-> StampRow(txn.rows, id, pin, now), lastId |-> txn.lastId],
             Outcome(p)'
      PROVE  IInv'
  <2> DEFINE s == StampRow(txn.rows, id, pin, now)
  <2>1. IsTable(txn.rows) /\ UnpinRows(txn.rows, {}) = txn.rows
    BY TxnTables DEF UnpinRows, IsTable, IInv
  <2>2. IsTable(s) /\ DOMAIN s = DOMAIN txn.rows
    BY <1>7, <2>1, StampTable
  <2>3. txn'.rows = s /\ txn'.lastId = txn.lastId
        /\ txn' = [rows |-> txn'.rows, lastId |-> txn'.lastId]
    BY <1>7
  <2> HIDE DEF s
  <2>4. txn'.lastId \in Nat /\ IsTable(txn'.rows) /\ DOMAIN txn'.rows \subseteq 1..txn'.lastId
    BY <2>2, <2>3 DEF IInv, TypeOK
  <2>5. Follows(p)'
    BY <1>2, <1>7, <1>1 DEF Follows
  <2> QED
    BY <1>2, <1>4, <1>5, <2>3, <2>4, <2>5, StatementIInv DEF InTxn
<1>8. CASE call[p].op = "touch" /\ id \in DOMAIN txn.rows
  <2>1. Untouched /\ txn.rows = items /\ txn.lastId = lastId
    BY <1>1, <1>8 DEF Follows, Untouched
  <2>2. txn' = [rows |-> StampRow(items, id, items[id].pinned, now), lastId |-> lastId]
    BY <1>3, <1>8, <1>11, <2>1
  <2>3. items[id].pinned \in BOOLEAN
    BY <1>8, <2>1 DEF IInv, TypeOK, Row
  <2>4. Outcome(p)'
    BY <1>2, <1>4, <1>8, <2>1, <2>2 DEF Outcome, id
  <2> QED
    BY <1>7, <1>8, <2>1, <2>2, <2>3, <2>4
<1>9. CASE call[p].op = "toggle" /\ ~call[p].flag
  <2>1. Untouched /\ id \in Pinned(items) /\ txn.rows = items /\ txn.lastId = lastId
    BY <1>1, <1>9 DEF Follows, Untouched, id
  <2>2. txn' = [rows |-> StampRow(items, id, FALSE, now), lastId |-> lastId]
    BY <1>3, <1>4, <1>9, <1>11, <2>1
  <2>3. Outcome(p)'
    BY <1>2, <1>4, <1>9, <2>1, <2>2 DEF Outcome, Pinned, id
  <2> QED
    BY <1>7, <2>1, <2>2, <2>3 DEF Pinned
<1>10. CASE call[p].op = "toggle" /\ call[p].flag
  <2>1. PICK out \in SUBSET Pinned(items) :
              MadeRoom(p, out) /\ txn.rows = UnpinRows(items, out)
    BY <1>1, <1>10 DEF Follows
  <2>2. id \in Unpinned(items) /\ txn.lastId = lastId /\ id \in DOMAIN txn.rows
    BY <1>1, <1>10, <2>1 DEF Follows, id, Unpinned, UnpinRows
  <2>3. txn' = [rows |-> StampRow(UnpinRows(items, out), id, TRUE, now), lastId |-> lastId]
    BY <1>3, <1>4, <1>10, <1>11, <2>1, <2>2
  <2>4. MadeRoom(p, out)'
    BY <1>4, <2>1 DEF MadeRoom, PinLimit
  <2>5. Outcome(p)'
    BY <1>2, <1>4, <1>10, <2>1, <2>2, <2>3, <2>4 DEF Outcome, Unpinned, id
  <2> QED
    BY <1>7, <2>1, <2>2, <2>3, <2>5
<1> QED
  BY <1>1, <1>6, <1>8, <1>9, <1>10 DEF Follows

\* The DELETE of delete and clear prepares one Remove.
LEMMA DeleteRowsIInv ==
    ASSUME IInv, NEW p \in Procs, DeleteRows(p)
    PROVE  IInv'
<1>1. call[p].op \in {"delete", "clear"} /\ Untouched /\ call[p].pc \in InTxn
  BY DEF IInv, WorkFollowsStatements, Follows, DeleteRows, InTxn
<1>2. PICK c \in Call :
              /\ call' = [call EXCEPT ![p] = c] /\ call'[p] = c
              /\ c.pc = "commit" /\ c.op = call[p].op /\ c.id = call[p].id
  BY GotoCall DEF IInv, DeleteRows, InTxn
<1>3. PICK gone : /\ gone = IF call[p].op = "delete" THEN {call[p].id}
                              ELSE IF call[p].flag THEN Unpinned(txn.rows)
                              ELSE DOMAIN txn.rows
                  /\ Work(Without(txn.rows, gone))
  BY DEF DeleteRows
<1>4. /\ txn.rows = items /\ txn.lastId = lastId
      /\ txn' = [rows |-> Without(items, gone), lastId |-> lastId]
  BY <1>1, <1>3 DEF Untouched, Work
<1>5. Outcome(p)'
  BY <1>1, <1>2, <1>3, <1>4 DEF Outcome, DeleteRows
<1>6. Follows(p)'
  BY <1>1, <1>2, <1>5 DEF Follows
<1>7. /\ IsTable(txn'.rows) /\ DOMAIN txn'.rows \subseteq 1..txn'.lastId
      /\ txn'.lastId \in Nat /\ txn' = [rows |-> txn'.rows, lastId |-> txn'.lastId]
  <2> DEFINE w == Without(items, gone)
  <2>1. IsTable(w) /\ DOMAIN w \subseteq DOMAIN items
    <3>1. IsTable(items)
      BY TxnTables DEF IInv
    <3>2. IsTable(w) /\ DOMAIN w = DOMAIN items \ gone
      BY <3>1, WithoutTable, Zenon
    <3> HIDE DEF w
    <3> QED
      BY <3>2
  <2>2. txn'.rows = w /\ txn'.lastId = lastId
        /\ txn' = [rows |-> txn'.rows, lastId |-> txn'.lastId]
    BY <1>4
  <2> HIDE DEF w
  <2> QED
    BY <2>1, <2>2 DEF IInv, TypeOK
<1>8. clock' \in Nat
  BY DEF DeleteRows, IInv, TypeOK
<1> QED
  BY <1>1, <1>2, <1>6, <1>7, <1>8, StatementIInv DEF DeleteRows, InTxn

\* COMMIT publishes the private copy; the other calls are outside any transaction.
LEMMA CommitIInv ==
    ASSUME IInv, NEW p \in Procs, Commit(p)
    PROVE  IInv'
<1>1. lock = p /\ call[p] \in Call /\ call \in [Procs -> Call]
  BY DEF IInv, LockedIffInTxn, TypeOK, Commit, InTxn
<1>2. Idle \in Call /\ Idle.pc = "idle" /\ Idle.op = "none"
  BY RowsAssumption DEF Idle, Call, Times
<1>3. /\ call' \in [Procs -> Call] /\ call'[p].pc \in {"lookup", "idle"}
      /\ call'[p].op = "insert" => call'[p].payload \in Payloads
      /\ \A q \in Procs \ {p} : call'[q] = call[q]
  <2>1. CASE call[p].op = "insert"
    <3> DEFINE c == [call[p] EXCEPT !.pc = "lookup"]
    <3>1. c \in Call /\ c.pc = "lookup" /\ c.payload = call[p].payload
      BY <1>1 DEF Call
    <3>2. call' = [call EXCEPT ![p] = c] /\ call'[p] = c
      BY <1>1, <2>1 DEF Commit, Goto
    <3>3. call[p].payload \in Payloads
      BY <2>1 DEF IInv, WorkFollowsStatements, Follows
    <3> HIDE DEF c
    <3> QED
      BY <1>1, <3>1, <3>2, <3>3
  <2>2. CASE call[p].op # "insert"
    <3>1. call' = [call EXCEPT ![p] = Idle]
      BY <2>2 DEF Commit, Return
    <3> QED
      BY <1>1, <1>2, <3>1
  <2> QED
    BY <2>1, <2>2
<1>4. Follows(p)'
  BY <1>3 DEF Follows
<1>5. TypeOK'
  <2>1. DOMAIN NoRows = {} /\ NoRows \in [DOMAIN NoRows -> Row]
    BY DEF NoRows
  <2>2. /\ txn'.lastId = 0 /\ txn'.rows = NoRows
        /\ txn' = [rows |-> txn'.rows, lastId |-> txn'.lastId]
    BY DEF NoTxn, Commit, Unlock
  <2> QED
    BY <1>3, <2>1, <2>2 DEF IInv, TypeOK, Commit, Unlock
<1>6. lock' = NoProc /\ config' = config /\ call'[p].pc \notin InTxn
  BY <1>3 DEF Commit, Unlock, InTxn
<1> QED
  BY <1>1, <1>3, <1>4, <1>5, <1>6, StepOfOne

\* Every statement, failure and crash preserves the invariant.
LEMMA NextIInv == IInv /\ [Next]_vars => IInv'
<1> SUFFICES ASSUME IInv, [Next]_vars PROVE IInv'
  OBVIOUS
<1>1. CASE UNCHANGED vars
  <2>1. UNCHANGED <<items, lastId, clock, config, lock, txn, call>>
    BY <1>1 DEF vars
  <2>2. TypeOK' /\ LockedIffInTxn'
    BY <2>1 DEF IInv, TypeOK, LockedIffInTxn
  <2>3. \A p \in Procs : Follows(p)'
    <3> SUFFICES ASSUME NEW p \in Procs PROVE Follows(p)'
      OBVIOUS
    <3>1. Follows(p)
      BY DEF IInv, WorkFollowsStatements
    <3> QED
      BY <2>1, <3>1 DEF Follows, Untouched, Stored, PinsOver, PinLimit, Outcome, CutTo, MadeRoom
  <2> QED
    BY <2>2, <2>3 DEF IInv, WorkFollowsStatements
<1>2. ASSUME NEW p \in Procs, Enter(p) PROVE IInv'
  BY <1>2, EnterIInv
<1>3. ASSUME NEW p \in Procs, Statement(p) PROVE IInv'
  BY <1>3, UpsertIInv, PruneIInv, ReadPinIInv, EvictPinsIInv, UpdateRowIInv, DeleteRowsIInv
     DEF Statement
<1>4. ASSUME NEW p \in Procs, BusyTimeout(p) \/ Lookup(p) PROVE IInv'
  <2>1. call[p].pc \notin InTxn
    BY <1>4 DEF BusyTimeout, Lookup, InTxn
  <2> QED
    BY <1>4, <2>1, ReturnIInv DEF BusyTimeout, Lookup, IInv, TypeOK
<1>5. ASSUME NEW p \in Procs, Rollback(p) PROVE IInv'
  BY <1>5, ReturnIInv DEF Rollback, IInv, TypeOK
<1>6. ASSUME NEW p \in Procs, Crash(p) PROVE IInv'
  <2>1. lock = p <=> call[p].pc \in InTxn
    BY DEF IInv, LockedIffInTxn
  <2>2. PICK c \in Configs : config' = [config EXCEPT ![p] = c]
    BY <1>6 DEF Crash
  <2>3. config' \in [Procs -> Configs] /\ \A q \in Procs \ {p} : config'[q] = config[q]
    BY <2>2 DEF IInv, TypeOK
  <2> QED
    BY <1>6, <2>1, <2>3, ReturnIInv DEF Crash
<1> QED
  BY <1>1, <1>2, <1>3, <1>4, <1>5, <1>6, BeginIInv, CommitIInv DEF Next, Continue

\* The lock discipline and the contents of an open transaction, for any processes.
THEOREM Invariance == Spec => []IInv
<1> QED
  BY InitIInv, NextIInv, PTL DEF Spec

(***************************************************************************)
(* The refinement: COMMIT is the operation of BoundedHistory that its call *)
(* promises; every other step leaves the history as it is.                 *)
(***************************************************************************)
LEMMA SameTables ==
    /\ BH!Times = Times
    /\ BH!NoRows = NoRows
    /\ \A r : BH!Pinned(r) = Pinned(r) /\ BH!Unpinned(r) = Unpinned(r)
    /\ \A r, gone : BH!Without(r, gone) = Without(r, gone)
    /\ \A r, out : BH!UnpinRows(r, out) = UnpinRows(r, out)
    /\ \A r, s, out : BH!Oldest(r, s, out) = Oldest(r, s, out)
    /\ \A r, id, pl, now : BH!UpsertRow(r, id, pl, now) = UpsertRow(r, id, pl, now)
    /\ \A r, id, pin, now : BH!StampRow(r, id, pin, now) = StampRow(r, id, pin, now)
    /\ \A n : BH!AtLeastOne(n) = AtLeastOne(n)
    /\ \A s : BH!Cardinality(s) = Cardinality(s)
<1>9. \A s : BH!Cardinality(s) = Cardinality(s)
  BY DEF BH!Cardinality, Cardinality
<1>1. \A r, pl : BH!Holders(r, pl) = Holders(r, pl)
  BY DEF BH!Holders, Holders
<1>2. \A r, id, pl, now : BH!UpsertRow(r, id, pl, now) = UpsertRow(r, id, pl, now)
  BY <1>1 DEF BH!UpsertRow, UpsertRow
<1>3. \A r : BH!Pinned(r) = Pinned(r) /\ BH!Unpinned(r) = Unpinned(r)
  BY DEF BH!Pinned, Pinned, BH!Unpinned, Unpinned
<1>4. \A r, gone : BH!Without(r, gone) = Without(r, gone)
  BY DEF BH!Without, Without
<1>5. \A r, out : BH!UnpinRows(r, out) = UnpinRows(r, out)
  BY DEF BH!UnpinRows, UnpinRows
<1>6. \A r, s, out : BH!Oldest(r, s, out) = Oldest(r, s, out)
  BY DEF BH!Oldest, Oldest
<1>7. \A r, id, pin, now : BH!StampRow(r, id, pin, now) = StampRow(r, id, pin, now)
  BY DEF BH!StampRow, StampRow
<1>8. BH!Times = Times /\ BH!NoRows = NoRows /\ \A n : BH!AtLeastOne(n) = AtLeastOne(n)
  BY DEF BH!Times, Times, BH!NoRows, NoRows, BH!AtLeastOne, AtLeastOne
<1> QED
  BY <1>2, <1>3, <1>4, <1>5, <1>6, <1>7, <1>8, <1>9

\* A COMMIT publishes exactly one operation of BoundedHistory, or nothing.
LEMMA CommitRefines ==
    ASSUME IInv, NEW p \in Procs, Commit(p)
    PROVE  BH!Next \/ UNCHANGED <<items, lastId>>
<1>1. Outcome(p) /\ items' = txn.rows /\ lastId' = txn.lastId /\ call[p].pc = "commit"
  BY DEF IInv, WorkFollowsStatements, Follows, Commit
<1>2. config[p] \in Configs /\ call[p].payload \in Payloads \cup {NoPayload}
      /\ call[p].now \in Times
  BY DEF IInv, TypeOK, Call
<1>3. CASE Untouched
  BY <1>1, <1>3 DEF Untouched
<1>4. CASE call[p].op = "insert" /\ txn.lastId = lastId + 1
           /\ \E gone \in SUBSET Unpinned(Stored(p)) :
                  CutTo(p, gone) /\ txn.rows = Without(Stored(p), gone)
  <2>1. BH!Capture(call[p].payload, call[p].now, AtLeastOne(config[p].maxItems))
    <3> DEFINE stored == BH!UpsertRow(items, lastId + 1, call[p].payload, call[p].now)
               limit == BH!AtLeastOne(config[p].maxItems)
    <3>1. stored = Stored(p) /\ limit = AtLeastOne(config[p].maxItems)
      BY SameTables DEF Stored
    <3>2. PICK gone \in SUBSET Unpinned(Stored(p)) :
                CutTo(p, gone) /\ txn.rows = Without(Stored(p), gone)
      BY <1>4
    <3>3. /\ gone \in SUBSET BH!Unpinned(stored)
          /\ items' = BH!Without(stored, gone)
          /\ BH!Oldest(stored, BH!Unpinned(stored), gone)
          /\ BH!Cardinality(BH!Unpinned(stored) \ gone) <= limit
          /\ gone # {} => BH!Cardinality(BH!Unpinned(stored) \ gone) = limit
          /\ lastId' = lastId + 1
      <4> HIDE DEF stored, limit
      <4> QED
        BY <1>1, <1>4, <3>1, <3>2, SameTables DEF CutTo
    <3>4. limit = AtLeastOne(config[p].maxItems)
      BY <3>1
    <3> HIDE DEF limit
    <3> QED
      BY <3>3, <3>4 DEF BH!Capture
  <2>2. call[p].payload \in Payloads
    BY <1>4 DEF IInv, WorkFollowsStatements, Follows
  <2> QED
    BY <1>2, <2>1, <2>2, SameTables DEF BH!Next
<1>5. ASSUME NEW now \in Times, call[p].id \in DOMAIN items, txn.lastId = lastId,
             txn.rows = StampRow(items, call[p].id, items[call[p].id].pinned, now)
      PROVE  BH!Next
  BY <1>1, <1>5, SameTables DEF BH!Next, BH!Touch
<1>6. ASSUME NEW now \in Times, call[p].id \in Pinned(items), txn.lastId = lastId,
             txn.rows = StampRow(items, call[p].id, FALSE, now)
      PROVE  BH!Next
  <2>1. BH!Unpin(call[p].id, now) /\ call[p].id \in DOMAIN items
    BY <1>1, <1>6, SameTables DEF BH!Unpin, Pinned
  <2> QED
    BY <2>1, SameTables DEF BH!Next
<1>7. ASSUME NEW now \in Times, call[p].id \in Unpinned(items), txn.lastId = lastId,
             NEW out \in SUBSET Pinned(items), MadeRoom(p, out),
             txn.rows = StampRow(UnpinRows(items, out), call[p].id, TRUE, now)
      PROVE  BH!Next
  <2>1. BH!Pin(call[p].id, now, AtLeastOne(config[p].pinLimit)) /\ call[p].id \in DOMAIN items
    <3> DEFINE limit == AtLeastOne(config[p].pinLimit)
    <3>1. /\ call[p].id \in BH!Unpinned(items)
          /\ out \in SUBSET BH!Pinned(items)
          /\ items' = BH!StampRow(BH!UnpinRows(items, out), call[p].id, TRUE, now)
          /\ BH!Oldest(items, BH!Pinned(items), out)
          /\ BH!Cardinality(BH!Pinned(items) \ out) < limit
          /\ out # {} => BH!Cardinality(BH!Pinned(items) \ out) = limit - 1
          /\ lastId' = lastId
      BY <1>1, <1>7, SameTables DEF MadeRoom, PinLimit
    <3> HIDE DEF limit
    <3>2. BH!Pin(call[p].id, now, limit)
      BY <3>1 DEF BH!Pin
    <3> QED
      BY <3>2, <1>7 DEF limit, Unpinned
  <2> QED
    BY <1>2, <2>1, SameTables DEF BH!Next
<1>8. CASE txn = [rows |-> Without(items, {call[p].id}), lastId |-> lastId]
  <2>1. BH!Remove({call[p].id})
    BY <1>1, <1>8, SameTables DEF BH!Remove
  <2>2. CASE call[p].id \in DOMAIN items
    <3>1. 0 \in BH!Times
      BY RowsAssumption, SameTables DEF Times
    <3> QED
      BY <2>1, <2>2, <3>1 DEF BH!Next
  <2>3. CASE call[p].id \notin DOMAIN items
    <3>1. Without(items, {call[p].id}) = items
      BY <2>3, TxnTables DEF Without, IsTable, IInv
    <3> QED
      BY <1>1, <1>8, <3>1
  <2> QED
    BY <2>2, <2>3
<1>9. CASE txn.lastId = lastId
           /\ txn.rows \in {Without(items, Unpinned(items)), Without(items, DOMAIN items)}
  BY <1>1, <1>9, SameTables DEF BH!Next, BH!Remove
<1> QED
  BY <1>1, <1>3, <1>4, <1>5, <1>6, <1>7, <1>8, <1>9 DEF Outcome

\* Every other step leaves the committed rows alone.
LEMMA NextRefines == IInv /\ [Next]_vars => [BH!Next]_<<items, lastId>>
<1> SUFFICES ASSUME IInv, Next, ~UNCHANGED <<items, lastId>> PROVE BH!Next
  BY DEF vars
<1>1. PICK p \in Procs : Commit(p)
  BY DEF Next, Enter, Continue, Statement, BeginInsert, BeginRowCall, BeginClear, SetConfig,
         Begin, BusyTimeout, Upsert, Prune, ReadPin, EvictPins, UpdateRow, DeleteRows,
         Lookup, Rollback, Crash
<1> QED
  BY <1>1, CommitRefines

\* storage.py implements the atomic, bounded history.
THEOREM StoreImplementsBoundedHistory == Spec => ImplementsBoundedHistory
<1>1. Init => BH!Init
  BY SameTables DEF Init, BH!Init
<1> QED
  BY <1>1, NextRefines, Invariance, PTL DEF Spec, ImplementsBoundedHistory, BH!Spec, BH!vars

--------------------------------------------------------------------------------
(***************************************************************************)
(* BoundedHistory keeps its promises for every set of payloads, every      *)
(* fingerprint function, every settings and every bound on time; so does   *)
(* whatever implements it, and the database of storage.py does.            *)
(*                                                                         *)
(* The inductive invariant HistoryInv is the types, the two bounds and one *)
(* row for each fingerprint.  The bounds alone are not inductive: the size *)
(* after a capture is what the prune leaves unpinned plus the pins, so the *)
(* number of pins must be bounded, and the domain finite.                  *)
(***************************************************************************)
HistoryType ==
    /\ lastId \in Nat
    /\ DOMAIN items \subseteq 1..lastId
    /\ items \in [DOMAIN items -> Row]

SizeBounded ==
    /\ Cardinality(Pinned(items)) <= PinCeiling
    /\ Cardinality(DOMAIN items) <= ItemCeiling + PinCeiling

OneEach ==
    \A i, j \in DOMAIN items :
        HashOf[items[i].payload] = HashOf[items[j].payload] => i = j

HistoryInv == HistoryType /\ SizeBounded /\ OneEach

\* The operations of BoundedHistory on items, in the operators the lemmas speak of.
LEMMA CaptureIs ==
    ASSUME NEW pl, NEW now, NEW limit, BH!Capture(pl, now, limit)
    PROVE  /\ lastId' = lastId + 1
           /\ \E gone \in SUBSET Unpinned(UpsertRow(items, lastId + 1, pl, now)) :
                  /\ items' = Without(UpsertRow(items, lastId + 1, pl, now), gone)
                  /\ Cardinality(Unpinned(UpsertRow(items, lastId + 1, pl, now)) \ gone)
                        <= limit
<1> DEFINE stored == UpsertRow(items, lastId + 1, pl, now)
           other == BH!UpsertRow(items, lastId + 1, pl, now)
<1>1. other = stored
  BY SameTables
<1>2. /\ lastId' = lastId + 1
      /\ \E gone \in SUBSET BH!Unpinned(other) :
             /\ items' = BH!Without(other, gone)
             /\ BH!Cardinality(BH!Unpinned(other) \ gone) <= limit
  BY DEF BH!Capture
<1> HIDE DEF stored, other
<1>3. \E gone \in SUBSET Unpinned(stored) :
          items' = Without(stored, gone) /\ Cardinality(Unpinned(stored) \ gone) <= limit
  BY <1>1, <1>2, SameTables
<1> QED
  BY <1>2, <1>3 DEF stored

\* A pin, likewise.
LEMMA PinIs ==
    ASSUME NEW id, NEW now, NEW limit, BH!Pin(id, now, limit)
    PROVE  /\ lastId' = lastId /\ id \in Unpinned(items)
           /\ \E out \in SUBSET Pinned(items) :
                  /\ items' = StampRow(UnpinRows(items, out), id, TRUE, now)
                  /\ Cardinality(Pinned(items) \ out) < limit
  BY SameTables DEF BH!Pin

\* The stamps and the deletions, likewise.
LEMMA StampsAre ==
    /\ \A id, now : BH!Unpin(id, now) =>
          /\ id \in Pinned(items) /\ lastId' = lastId
          /\ items' = StampRow(items, id, FALSE, now)
    /\ \A id, now : BH!Touch(id, now) =>
          /\ id \in DOMAIN items /\ lastId' = lastId
          /\ items' = StampRow(items, id, items[id].pinned, now)
    /\ \A gone : BH!Remove(gone) => items' = Without(items, gone) /\ lastId' = lastId
  BY SameTables DEF BH!Unpin, BH!Touch, BH!Remove

\* The promises of BoundedHistory are the two last parts of the invariant.
LEMMA PromisesAre == (BH!Bounded <=> SizeBounded) /\ (BH!OneRowPerHash <=> OneEach)
  BY SameTables DEF BH!Bounded, BH!OneRowPerHash, SizeBounded, OneEach

\* What the lemmas about tables ask for follows from the types: the next id is unused.
LEMMA TableOfHistory ==
    ASSUME HistoryType
    PROVE  IsTable(items) /\ IsFiniteSet(DOMAIN items) /\ lastId + 1 \notin DOMAIN items
<1>1. IsFiniteSet(1..lastId)
  BY FS_Interval DEF HistoryType
<1>2. IsFiniteSet(DOMAIN items)
  BY <1>1, FS_Subset DEF HistoryType
<1> QED
  BY <1>2 DEF HistoryType, IsTable

\* An empty history satisfies the invariant.
LEMMA HistoryInit == BH!Init => HistoryInv
<1> SUFFICES ASSUME BH!Init PROVE HistoryInv
  OBVIOUS
<1>1. items = NoRows /\ lastId = 0 /\ DOMAIN items = {}
  BY SameTables DEF BH!Init, NoRows
<1>2. HistoryType
  BY <1>1 DEF HistoryType, NoRows
<1>3. Pinned(items) = {}
  BY <1>1 DEF Pinned
<1>4. SizeBounded
  BY <1>1, <1>3, FS_EmptySet, RowsAssumption DEF SizeBounded
<1>5. OneEach
  BY <1>1 DEF OneEach
<1> QED
  BY <1>2, <1>4, <1>5 DEF HistoryInv

\* A capture ends with at most max_items unpinned rows, and with the pins it found.
LEMMA CaptureKeeps ==
    ASSUME HistoryInv, NEW pl \in Payloads, NEW now \in Times, NEW limit \in Nat,
           limit <= ItemCeiling, BH!Capture(pl, now, limit)
    PROVE  HistoryInv'
<1> DEFINE stored == UpsertRow(items, lastId + 1, pl, now)
<1>1. PICK gone \in SUBSET Unpinned(stored) :
          /\ items' = Without(stored, gone)
          /\ Cardinality(Unpinned(stored) \ gone) <= limit
          /\ lastId' = lastId + 1
  BY CaptureIs
<1>2. IsTable(items) /\ IsFiniteSet(DOMAIN items) /\ lastId + 1 \notin DOMAIN items
  BY TableOfHistory DEF HistoryInv
<1>3. /\ IsTable(stored)
      /\ DOMAIN stored \subseteq DOMAIN items \cup {lastId + 1}
      /\ Pinned(stored) = Pinned(items)
      /\ \A i \in DOMAIN items : HashOf[stored[i].payload] = HashOf[items[i].payload]
      /\ lastId + 1 \in DOMAIN stored => /\ Holders(items, pl) = {}
                                         /\ stored[lastId + 1].payload = pl
  <2> HIDE DEF stored
  <2> QED BY <1>2, UpsertTable DEF stored
<1> HIDE DEF stored
<1>4. /\ IsTable(items')
      /\ DOMAIN items' = DOMAIN stored \ gone
      /\ \A i \in DOMAIN stored \ gone : items'[i] = stored[i]
      /\ Pinned(items') = Pinned(stored) \ gone
      /\ Unpinned(items') = Unpinned(stored) \ gone
  <2> DEFINE w == Without(stored, gone)
  <2>1. /\ IsTable(w)
        /\ DOMAIN w = DOMAIN stored \ gone
        /\ \A i \in DOMAIN stored \ gone : w[i] = stored[i]
        /\ Pinned(w) = Pinned(stored) \ gone
        /\ Unpinned(w) = Unpinned(stored) \ gone
    BY <1>3, WithoutTable, Zenon
  <2>2. items' = w
    BY <1>1
  <2> HIDE DEF w
  <2> QED
    BY <2>1, <2>2, Zenon
<1>5. Pinned(items') = Pinned(items)
  BY <1>3, <1>4 DEF Pinned, Unpinned
<1>6. HistoryType'
  BY <1>1, <1>3, <1>4 DEF HistoryInv, HistoryType, IsTable
<1>7. IsFiniteSet(DOMAIN items')
  <2>1. IsFiniteSet(DOMAIN items \cup {lastId + 1})
    BY <1>2, FS_AddElement
  <2> QED
    BY <2>1, <1>3, <1>4, FS_Subset
<1>8. SizeBounded'
  <2>1. Cardinality(DOMAIN items') = Cardinality(Pinned(items')) + Cardinality(Unpinned(items'))
        /\ Cardinality(Pinned(items')) \in Nat /\ Cardinality(Unpinned(items')) \in Nat
    BY <1>7, PinnedPlusUnpinned
  <2>2. Cardinality(Unpinned(items')) <= ItemCeiling
    BY <1>1, <1>4, <2>1, RowsAssumption
  <2> QED
    BY <1>5, <2>1, <2>2, RowsAssumption DEF HistoryInv, SizeBounded
<1>9. OneEach'
  <2> SUFFICES ASSUME NEW i \in DOMAIN items', NEW j \in DOMAIN items',
                      HashOf[items'[i].payload] = HashOf[items'[j].payload]
               PROVE  i = j
    BY DEF OneEach
  <2>1. HashOf[stored[i].payload] = HashOf[stored[j].payload]
    BY <1>4
  <2>2. i \in DOMAIN stored /\ j \in DOMAIN stored
    BY <1>4
  <2>3. CASE i \in DOMAIN items /\ j \in DOMAIN items
    BY <1>3, <2>1, <2>3 DEF HistoryInv, OneEach
  <2>4. CASE i = lastId + 1 /\ j \in DOMAIN items
    BY <1>3, <2>1, <2>2, <2>4 DEF Holders
  <2>5. CASE j = lastId + 1 /\ i \in DOMAIN items
    BY <1>3, <2>1, <2>2, <2>5 DEF Holders
  <2> QED
    BY <1>3, <2>2, <2>3, <2>4, <2>5
<1> QED
  BY <1>6, <1>8, <1>9 DEF HistoryInv

\* What pinning, unpinning and touching share: the ids and the payloads stay.
LEMMA StampKeeps ==
    ASSUME HistoryInv, NEW out, NEW id \in DOMAIN items, NEW pin \in BOOLEAN, NEW now \in Times,
           items' = StampRow(UnpinRows(items, out), id, pin, now),
           lastId' = lastId,
           Cardinality(Pinned(items')) <= PinCeiling
    PROVE  HistoryInv'
<1>1. IsTable(items)
  BY TableOfHistory DEF HistoryInv
<1>2. /\ IsTable(items')
      /\ DOMAIN items' = DOMAIN items
      /\ \A i \in DOMAIN items : items'[i].payload = items[i].payload
  BY <1>1, StampTable
<1>3. HistoryType'
  BY <1>2 DEF HistoryInv, HistoryType, IsTable
<1>4. SizeBounded'
  BY <1>2 DEF HistoryInv, SizeBounded
<1>5. OneEach'
  BY <1>2 DEF HistoryInv, OneEach
<1> QED
  BY <1>3, <1>4, <1>5 DEF HistoryInv

\* A pin first makes room: at most limit - 1 pins stay, and the new one is added.
LEMMA PinKeeps ==
    ASSUME HistoryInv, NEW id \in DOMAIN items, NEW now \in Times, NEW limit \in Nat,
           limit <= PinCeiling, BH!Pin(id, now, limit)
    PROVE  HistoryInv'
<1>1. PICK out \in SUBSET Pinned(items) :
          /\ items' = StampRow(UnpinRows(items, out), id, TRUE, now)
          /\ Cardinality(Pinned(items) \ out) < limit
  BY PinIs
<1>2. IsTable(items) /\ IsFiniteSet(DOMAIN items)
  BY TableOfHistory DEF HistoryInv
<1>3. id \notin Pinned(items) /\ lastId' = lastId
  BY PinIs DEF Pinned, Unpinned
<1>4. Pinned(items') = (Pinned(items) \ out) \cup {id}
  <2> DEFINE u == UnpinRows(items, out)
  <2>1. DOMAIN u = DOMAIN items /\ Pinned(u) = Pinned(items) \ out
    BY <1>2 DEF UnpinRows, IsTable, Row, Pinned
  <2>2. Pinned(StampRow(u, id, TRUE, now)) = Pinned(u) \cup {id}
    <3> HIDE DEF u
    <3> QED
      BY <2>1 DEF StampRow, Pinned
  <2> QED
    BY <1>1, <2>1, <2>2
<1>5. id \notin Pinned(items) \ out
  BY <1>3
<1>6. IsFiniteSet(Pinned(items) \ out)
  BY <1>2, FS_Subset DEF Pinned
<1>7. Cardinality(Pinned(items')) = Cardinality(Pinned(items) \ out) + 1
  BY <1>4, <1>5, <1>6, FS_AddElement
<1>8. Cardinality(Pinned(items')) <= PinCeiling
  <2> DEFINE kept == Cardinality(Pinned(items) \ out)
  <2>1. kept \in Nat
    BY <1>6, FS_CardinalityType
  <2>2. kept < limit /\ Cardinality(Pinned(items')) = kept + 1
    BY <1>1, <1>7
  <2> HIDE DEF kept
  <2> QED
    BY <2>1, <2>2, RowsAssumption
<1> QED
  BY <1>1, <1>3, <1>8, StampKeeps

\* A stamp that pins nothing leaves at most the pins there were.
LEMMA RestampKeeps ==
    ASSUME HistoryInv, NEW id \in DOMAIN items, NEW pin \in BOOLEAN, NEW now \in Times,
           pin => items[id].pinned,
           items' = StampRow(items, id, pin, now), lastId' = lastId
    PROVE  HistoryInv'
<1>1. IsTable(items) /\ IsFiniteSet(DOMAIN items)
  BY TableOfHistory DEF HistoryInv
<1>2. UnpinRows(items, {}) = items
  BY <1>1 DEF UnpinRows, IsTable
<1>3. /\ DOMAIN items' = DOMAIN items
      /\ \A i \in DOMAIN items \ {id} : items'[i].pinned <=> items[i].pinned
      /\ items'[id].pinned = pin
  BY <1>1, <1>2, StampTable
<1>4. Pinned(items') \subseteq Pinned(items)
  BY <1>3 DEF Pinned
<1>5. IsFiniteSet(Pinned(items))
  BY <1>1, FS_Subset DEF Pinned
<1>6. /\ Cardinality(Pinned(items')) <= Cardinality(Pinned(items))
      /\ Cardinality(Pinned(items')) \in Nat
      /\ Cardinality(Pinned(items)) \in Nat
  BY <1>4, <1>5, FS_Subset, FS_CardinalityType
<1>7. Cardinality(Pinned(items')) <= PinCeiling
  BY <1>6, RowsAssumption DEF HistoryInv, SizeBounded
<1> QED
  BY <1>2, <1>7, StampKeeps

\* Deleting rows (delete, clear) only shrinks the table.
LEMMA RemoveKeeps ==
    ASSUME HistoryInv, NEW gone, BH!Remove(gone)
    PROVE  HistoryInv'
<1>1. IsTable(items) /\ IsFiniteSet(DOMAIN items) /\ lastId' = lastId
  BY TableOfHistory, StampsAre DEF HistoryInv
<1>2. /\ IsTable(items')
      /\ DOMAIN items' = DOMAIN items \ gone
      /\ \A i \in DOMAIN items \ gone : items'[i] = items[i]
      /\ Pinned(items') = Pinned(items) \ gone
  <2>1. items' = Without(items, gone)
    BY StampsAre
  <2> QED
    BY <1>1, <2>1, WithoutTable, Zenon
<1>3. HistoryType'
  BY <1>1, <1>2 DEF HistoryInv, HistoryType, IsTable
<1>4. IsFiniteSet(Pinned(items))
  BY <1>1, FS_Subset DEF Pinned
<1>5. /\ Cardinality(Pinned(items')) <= Cardinality(Pinned(items))
      /\ Cardinality(DOMAIN items') <= Cardinality(DOMAIN items)
      /\ Cardinality(Pinned(items')) \in Nat /\ Cardinality(Pinned(items)) \in Nat
      /\ Cardinality(DOMAIN items') \in Nat /\ Cardinality(DOMAIN items) \in Nat
  BY <1>1, <1>2, <1>4, FS_Subset, FS_CardinalityType
<1>6. SizeBounded'
  BY <1>5, RowsAssumption DEF HistoryInv, SizeBounded
<1>7. OneEach'
  BY <1>2 DEF HistoryInv, OneEach
<1> QED
  BY <1>3, <1>6, <1>7 DEF HistoryInv

\* The limits an operation works with stay within the ceilings of the settings.
LEMMA Limits ==
    ASSUME NEW c \in Configs
    PROVE  /\ AtLeastOne(c.maxItems) \in Nat /\ AtLeastOne(c.maxItems) <= ItemCeiling
           /\ AtLeastOne(c.pinLimit) \in Nat /\ AtLeastOne(c.pinLimit) <= PinCeiling
  BY RowsAssumption DEF AtLeastOne, Config

\* Every operation of the history preserves the invariant, case by case.
LEMMA HistoryNextStep == HistoryInv /\ [BH!Next]_BH!vars => HistoryInv'
<1> SUFFICES ASSUME HistoryInv, [BH!Next]_BH!vars PROVE HistoryInv'
  OBVIOUS
<1>1. CASE UNCHANGED BH!vars
  BY <1>1 DEF BH!vars, HistoryInv, HistoryType, SizeBounded, OneEach
<1>2. ASSUME NEW pl \in Payloads, NEW now \in Times, NEW c \in Configs,
             BH!Capture(pl, now, AtLeastOne(c.maxItems))
      PROVE  HistoryInv'
  BY <1>2, Limits, CaptureKeeps
<1>3. ASSUME NEW id \in DOMAIN items, NEW now \in Times, NEW c \in Configs,
             BH!Pin(id, now, AtLeastOne(c.pinLimit))
      PROVE  HistoryInv'
  BY <1>3, Limits, PinKeeps
<1>4. ASSUME NEW id \in DOMAIN items, NEW now \in Times, BH!Unpin(id, now)
      PROVE  HistoryInv'
  BY <1>4, StampsAre, RestampKeeps
<1>5. ASSUME NEW id \in DOMAIN items, NEW now \in Times, BH!Touch(id, now)
      PROVE  HistoryInv'
  <2>1. items[id].pinned \in BOOLEAN
    BY DEF HistoryInv, HistoryType, Row
  <2> QED
    BY <1>5, <2>1, StampsAre, RestampKeeps
<1>6. ASSUME NEW gone, BH!Remove(gone)
      PROVE  HistoryInv'
  BY <1>6, RemoveKeeps
<1> QED
  BY <1>1, <1>2, <1>3, <1>4, <1>5, <1>6, SameTables DEF BH!Next

\* What one step does to the ids: a removed one stays removed, a kept one keeps its
\* fingerprint.
KeepsIds ==
    \A i \in 1..lastId :
        i \in DOMAIN items' =>
            /\ i \in DOMAIN items
            /\ HashOf[items'[i].payload] = HashOf[items[i].payload]

\* Ids only grow, and no statement changes the fingerprint of a row.
LEMMA StepKeepsIds == HistoryInv /\ [BH!Next]_BH!vars => [KeepsIds]_BH!vars
<1> SUFFICES ASSUME HistoryInv, BH!Next PROVE KeepsIds
  OBVIOUS
<1> USE DEF KeepsIds
<1>1. IsTable(items) /\ lastId + 1 \notin DOMAIN items
  BY TableOfHistory DEF HistoryInv
<1>2. ASSUME NEW pl \in Payloads, NEW now \in Times, NEW limit,
             BH!Capture(pl, now, limit)
      PROVE  KeepsIds
  <2> DEFINE stored == UpsertRow(items, lastId + 1, pl, now)
  <2>1. PICK gone \in SUBSET Unpinned(stored) : items' = Without(stored, gone)
    BY <1>2, CaptureIs
  <2>2. /\ DOMAIN stored \subseteq DOMAIN items \cup {lastId + 1}
        /\ \A i \in DOMAIN items : HashOf[stored[i].payload] = HashOf[items[i].payload]
    BY <1>1, UpsertTable
  <2>3. /\ DOMAIN items' = DOMAIN stored \ gone
        /\ \A i \in DOMAIN stored \ gone : items'[i] = stored[i]
    BY <2>1 DEF Without
  <2>4. lastId + 1 \notin 1..lastId
    BY DEF HistoryInv, HistoryType
  <2> HIDE DEF stored
  <2> QED
    BY <2>2, <2>3, <2>4
<1>3. ASSUME NEW id \in DOMAIN items, NEW now \in Times, NEW limit,
             BH!Pin(id, now, limit)
      PROVE  KeepsIds
  <2>1. PICK out : items' = StampRow(UnpinRows(items, out), id, TRUE, now)
    BY <1>3, PinIs
  <2> QED
    BY <2>1 DEF StampRow, UnpinRows
<1>4. ASSUME NEW id \in DOMAIN items, NEW now \in Times, BH!Unpin(id, now)
      PROVE  KeepsIds
  BY <1>4, StampsAre DEF StampRow
<1>5. ASSUME NEW id \in DOMAIN items, NEW now \in Times, BH!Touch(id, now)
      PROVE  KeepsIds
  BY <1>5, StampsAre DEF StampRow
<1>6. ASSUME NEW gone, BH!Remove(gone)
      PROVE  KeepsIds
  <2>1. items' = Without(items, gone)
    BY <1>6, StampsAre
  <2> QED
    BY <2>1 DEF Without
<1> QED
  BY <1>2, <1>3, <1>4, <1>5, <1>6, SameTables DEF BH!Next

\* The atomic history keeps the invariant.
LEMMA HistoryInvariance == BH!Spec => []HistoryInv
<1> QED
  BY HistoryInit, HistoryNextStep, PTL DEF BH!Spec

\* At most PinCeiling pins and ItemCeiling + PinCeiling rows, although unpinning is not
\* followed by a prune (storage.py toggle_pin).
THEOREM HistoryIsBounded == BH!Spec => []BH!Bounded
<1>1. HistoryInv => BH!Bounded
  BY PromisesAre DEF HistoryInv
<1> QED
  BY <1>1, HistoryInvariance, PTL

\* The UNIQUE column "hash": one row for each fingerprint.
THEOREM FingerprintsAreUnique == BH!Spec => []BH!OneRowPerHash
<1>1. HistoryInv => BH!OneRowPerHash
  BY PromisesAre DEF HistoryInv
<1> QED
  BY <1>1, HistoryInvariance, PTL

\* A remembered id is never given to another payload (AUTOINCREMENT).
THEOREM IdsAreStable == BH!Spec => BH!IdsNeverReused
<1> QED
  BY StepKeepsIds, HistoryInvariance, PTL DEF BH!Spec, BH!IdsNeverReused, KeepsIds

\* At most PinCeiling pins and ItemCeiling + PinCeiling rows, whatever the settings of
\* the processes and the order of their calls.
THEOREM StoreIsBounded == Spec => []HistoryBounded
<1> QED
  BY StoreImplementsBoundedHistory, HistoryIsBounded, PTL
     DEF ImplementsBoundedHistory, HistoryBounded

\* The UNIQUE fingerprint: no interleaving of calls leaves two rows with one payload.
THEOREM StoreKeepsOneRow == Spec => []OneRowPerHash
<1> QED
  BY StoreImplementsBoundedHistory, FingerprintsAreUnique, PTL
     DEF ImplementsBoundedHistory, OneRowPerHash

\* An id that a window or a command still holds never comes to denote another payload.
THEOREM StaleIdsAreInert == Spec => StaleIdsInert
<1> QED
  BY StoreImplementsBoundedHistory, IdsAreStable, PTL
     DEF ImplementsBoundedHistory, StaleIdsInert

--------------------------------------------------------------------------------
(***************************************************************************)
(* One process, with a clock that does not step back: what passes the      *)
(* filter is found again.  ClockInv says why: every row is older than the  *)
(* capture that is under way, so a prune that must drop unpinned rows      *)
(* drops them all before the new one, and at least one place is kept.      *)
(***************************************************************************)
ClockInv ==
    /\ \A i \in DOMAIN items : items[i].created < clock
    /\ \A i \in DOMAIN txn.rows : txn.rows[i].created < clock
    /\ \A p \in Procs :
         /\ call[p].op = "insert" /\ call[p].pc \in {"begin", "upsert", "prune"} =>
               /\ call[p].now < clock
               /\ \A i \in DOMAIN items : items[i].created < call[p].now
         /\ call[p].op = "insert" /\ call[p].pc = "commit" =>
               Holders(txn.rows, call[p].payload) # {}
         /\ call[p].pc = "lookup" => Holders(items, call[p].payload) # {}

\* An upsert leaves a row with the fingerprint; it is pinned or stamped now.
LEMMA UpsertHolds ==
    ASSUME NEW r, IsTable(r), NEW id, id \notin DOMAIN r,
           NEW pl \in Payloads, NEW now \in Times
    PROVE  LET s == UpsertRow(r, id, pl, now) IN
           /\ \E i \in DOMAIN s : /\ i \in Holders(s, pl)
                                  /\ s[i].pinned \/ s[i].created = now
           /\ \A i \in DOMAIN s : \/ i \in Holders(s, pl)
                                  \/ i \in DOMAIN r /\ s[i] = r[i]
           /\ \A i \in DOMAIN s : \/ s[i].created = now
                                  \/ i \in DOMAIN r /\ s[i].created = r[i].created
<1> DEFINE s == UpsertRow(r, id, pl, now)
<1>1. CASE Holders(r, pl) = {}
  BY <1>1 DEF UpsertRow, Holders
<1>2. CASE Holders(r, pl) # {}
  <2>1. s = [i \in DOMAIN r |->
               IF i \in Holders(r, pl)
               THEN [payload |-> pl, pinned |-> r[i].pinned,
                     created |-> IF r[i].pinned THEN r[i].created ELSE now]
               ELSE r[i]]
    BY <1>2 DEF UpsertRow
  <2>2. PICK h \in DOMAIN r : h \in Holders(r, pl)
    BY <1>2 DEF Holders
  <2> HIDE DEF s
  <2>3. \A i \in Holders(r, pl) : i \in Holders(s, pl)
    BY <2>1 DEF Holders
  <2> QED
    BY <2>1, <2>2, <2>3 DEF s, Holders
<1> QED
  BY <1>1, <1>2

\* An empty database without a call satisfies it.
LEMMA InitClock == Init => ClockInv
<1> SUFFICES ASSUME Init PROVE ClockInv
  OBVIOUS
<1>1. DOMAIN NoRows = {}
  BY DEF NoRows
<1>2. \A p \in Procs : call[p].pc = "idle" /\ call[p].op = "none"
  BY DEF Init, Idle
<1>3. items = NoRows /\ txn.rows = NoRows
  BY DEF Init, NoTxn
<1> QED
  BY <1>1, <1>2, <1>3 DEF ClockInv

\* The types of the rows and of the clock, as the steps below need them.
LEMMA CreatedTypes ==
    ASSUME IInv
    PROVE  /\ clock \in Nat
           /\ \A i \in DOMAIN items : items[i].created \in Nat
           /\ \A i \in DOMAIN txn.rows : txn.rows[i].created \in Nat
           /\ \A p \in Procs : call[p].now \in Nat
<1>1. \A t \in Times : t \in Nat
  BY RowsAssumption DEF Times
<1>2. IsTable(items) /\ IsTable(txn.rows)
  BY TxnTables DEF IInv, IsTable
<1>3. \A p \in Procs : call[p] \in Call
  BY DEF IInv, TypeOK
<1> QED
  BY <1>1, <1>2, <1>3 DEF IsTable, Row, Call, IInv, TypeOK

\* The upsert stamps with the reading of the call, which is later than every row.
LEMMA UpsertClock ==
    ASSUME IInv, ClockInv, NEW p \in Procs, \A q \in Procs : q = p, Upsert(p)
    PROVE  ClockInv'
<1> DEFINE s == UpsertRow(txn.rows, txn.lastId + 1, call[p].payload, call[p].now)
<1>1. /\ IsTable(items) /\ txn.rows = items /\ txn.lastId = lastId
      /\ lastId + 1 \notin DOMAIN items
      /\ call[p].payload \in Payloads /\ call[p].op = "insert" /\ call[p].now \in Times
  BY TxnTables DEF IInv, TypeOK, WorkFollowsStatements, Follows, Untouched, Upsert, Call
<1>2. \A i \in DOMAIN s : \/ s[i].created = call[p].now
                          \/ i \in DOMAIN items /\ s[i].created = items[i].created
  <2> HIDE DEF s
  <2> QED
    BY <1>1, UpsertHolds DEF s
<1>3. txn'.rows = s /\ UNCHANGED <<items, clock>>
  BY DEF Upsert
<1>4. call'[p].pc = "prune" /\ call'[p].op = "insert" /\ call'[p].now = call[p].now
  BY <1>1, GotoCall DEF Upsert, IInv, InTxn
<1>5. call[p].now < clock /\ \A i \in DOMAIN items : items[i].created < call[p].now
  BY <1>1 DEF ClockInv, Upsert
<1> HIDE DEF s
<1> QED
  BY <1>2, <1>3, <1>4, <1>5, CreatedTypes DEF ClockInv

\* The prune keeps a row with the new fingerprint: were the new row dropped, a place would
\* be left (the limit is at least one), and an older row would have it.
LEMMA PruneClock ==
    ASSUME IInv, ClockInv, IInv', NEW p \in Procs, \A q \in Procs : q = p, Prune(p)
    PROVE  ClockInv'
<1> DEFINE s == UpsertRow(items, lastId + 1, call[p].payload, call[p].now)
           c == call[p]
           limit == AtLeastOne(config[p].maxItems)
<1>1. /\ IsTable(items) /\ lastId + 1 \notin DOMAIN items
      /\ c.payload \in Payloads /\ c.op = "insert" /\ c.now \in Times
      /\ txn.rows = s /\ config[p] \in Configs
  BY TxnTables DEF IInv, TypeOK, WorkFollowsStatements, Follows, Stored, Prune, Call
<1>2. /\ call'[p].pc = "commit" /\ call'[p].op = "insert"
      /\ call'[p].payload = c.payload /\ call'[p].now = c.now
      /\ UNCHANGED <<items, lastId, clock, config>>
  BY <1>1 DEF Prune, Goto, IInv, TypeOK
<1>3. PICK gone : /\ gone \subseteq Unpinned(s)
                  /\ Oldest(s, Unpinned(s), gone)
                  /\ gone # {} => Cardinality(Unpinned(s) \ gone) = limit
                  /\ txn'.rows = Without(s, gone)
  <2>1. Outcome(p)'
    BY <1>2 DEF IInv, WorkFollowsStatements, Follows
  <2>2. Stored(p)' = s
    BY <1>2 DEF Stored
  <2> HIDE DEF s
  <2> QED
    BY <1>2, <2>1, <2>2 DEF Outcome, CutTo
<1>4. limit \in Nat /\ limit >= 1
  BY <1>1, RowsAssumption DEF AtLeastOne, Config
<1>5. PICK h \in DOMAIN s : /\ h \in Holders(s, c.payload)
                            /\ s[h].pinned \/ s[h].created = c.now
  <2> HIDE DEF s
  <2> QED
    BY <1>1, UpsertHolds DEF s
<1>6. \A i \in DOMAIN s : \/ i \in Holders(s, c.payload)
                          \/ i \in DOMAIN items /\ s[i] = items[i]
  <2> HIDE DEF s
  <2> QED
    BY <1>1, UpsertHolds DEF s
<1>7. \A i \in DOMAIN items : items[i].created < c.now
  BY <1>1 DEF ClockInv, Prune
<1>8. \A i \in DOMAIN s : s[i].created < clock
  BY <1>1 DEF ClockInv
<1> HIDE DEF s, c, limit
<1>9. PICK x \in DOMAIN s \ gone : x \in Holders(s, c.payload)
  <2>1. CASE h \notin gone
    BY <1>5, <2>1
  <2>2. CASE h \in gone
    <3>1. Unpinned(s) \ gone # {}
      <4>1. Cardinality(Unpinned(s) \ gone) >= 1
        BY <1>3, <1>4, <2>2
      <4> QED
        BY <4>1, FS_EmptySet
    <3>2. PICK j \in Unpinned(s) : j \notin gone
      BY <3>1
    <3>3. j \in DOMAIN s /\ s[h].created <= s[j].created
      BY <1>3, <2>2, <3>2 DEF Oldest, Unpinned
    <3>4. s[h].created = c.now
      BY <1>3, <1>5, <2>2 DEF Unpinned
    <3>5. CASE j \in Holders(s, c.payload)
      BY <3>2, <3>3, <3>5
    <3>6. CASE j \in DOMAIN items /\ s[j] = items[j]
      BY <1>7, <3>3, <3>4, <3>6, CreatedTypes DEF c
    <3> QED
      BY <1>6, <3>3, <3>5, <3>6
  <2> QED
    BY <2>1, <2>2
<1>10. x \in Holders(txn'.rows, c.payload)
  BY <1>3, <1>9 DEF Without, Holders
<1>11. \A i \in DOMAIN txn'.rows : txn'.rows[i].created < clock
  BY <1>3, <1>8 DEF Without
<1>12. \A i \in DOMAIN items : items[i].created < clock
  BY DEF ClockInv
<1> QED
  BY <1>2, <1>10, <1>11, <1>12 DEF ClockInv, c

\* The other statements of a transaction: rows are kept, or stamped with the next reading.
LEMMA StatementClock ==
    ASSUME IInv, ClockInv, ~ClockStepsBack, NEW p \in Procs, \A q \in Procs : q = p,
           ReadPin(p) \/ EvictPins(p) \/ UpdateRow(p) \/ DeleteRows(p)
    PROVE  ClockInv'
<1>1. call[p].op # "insert"
  BY DEF IInv, WorkFollowsStatements, Follows, ReadPin, EvictPins, UpdateRow, DeleteRows
<1>2. UNCHANGED items /\ clock' \in Nat /\ clock <= clock'
  BY CreatedTypes DEF ReadPin, EvictPins, UpdateRow, DeleteRows, ReadClock
<1>3. call'[p].op = call[p].op /\ call'[p].pc # "lookup"
  <2>1. CASE \E step \in {"update", "commit"} : Goto(p, step)
    BY <2>1, GotoCall DEF IInv, InTxn
  <2>2. ASSUME ReadPin(p), ~\E step \in {"update", "commit"} : Goto(p, step)
        PROVE  call'[p].op = call[p].op /\ call'[p].pc # "lookup"
    <3>1. call[p] \in Call /\ call \in [Procs -> Call]
      BY DEF IInv, TypeOK
    <3>2. CASE txn.rows[call[p].id].pinned
      BY <2>2, <3>1, <3>2 DEF ReadPin, Call
    <3>3. CASE ~txn.rows[call[p].id].pinned
      <4> DEFINE over == IF PinsOver(p) > 0 THEN PinsOver(p) ELSE 0
                 step == IF PinsOver(p) > 0 THEN "evict" ELSE "update"
      <4>1. call' = [call EXCEPT ![p].pc = step, ![p].flag = TRUE, ![p].over = over]
        BY <2>2, <3>3 DEF ReadPin
      <4>2. step # "lookup"
        OBVIOUS
      <4> HIDE DEF over, step
      <4> QED
        BY <3>1, <4>1, <4>2 DEF Call
    <3> QED
      BY <3>2, <3>3
  <2> QED
    BY <2>1, <2>2 DEF EvictPins, UpdateRow, DeleteRows
<1>4. \A i \in DOMAIN txn'.rows : txn'.rows[i].created < clock'
  <2> DEFINE r == txn.rows
  <2>0. \A i \in DOMAIN r : r[i].created < clock /\ r[i].created \in Nat
    BY CreatedTypes DEF ClockInv
  <2>1. CASE ReadPin(p)
    BY <1>2, <2>0, <2>1, CreatedTypes DEF ReadPin
  <2>2. CASE EvictPins(p)
    <3>1. PICK out : txn'.rows = UnpinRows(r, out) /\ UNCHANGED clock
      BY <2>2 DEF EvictPins, Work, IInv, TypeOK
    <3>2. IsTable(r)
      BY TxnTables DEF IInv, IsTable
    <3> QED
      BY <2>0, <3>1, <3>2 DEF UnpinRows, IsTable, Row
  <2>3. CASE UpdateRow(p)
    <3>1. PICK now : /\ now = clock /\ clock' = clock + 1
                     /\ \/ UNCHANGED txn
                        \/ \E pin : txn'.rows = StampRow(r, call[p].id, pin, now)
      BY <2>3 DEF UpdateRow, ReadClock, Work, IInv, TypeOK
    <3>2. CASE UNCHANGED txn
      BY <2>0, <3>1, <3>2, CreatedTypes
    <3>3. ASSUME NEW pin, txn'.rows = StampRow(r, call[p].id, pin, now)
          PROVE  \A i \in DOMAIN txn'.rows : txn'.rows[i].created < clock'
      BY <2>0, <3>1, <3>3, CreatedTypes DEF StampRow
    <3> QED
      BY <3>1, <3>2, <3>3
  <2>4. CASE DeleteRows(p)
    <3>1. PICK gone : txn'.rows = Without(r, gone) /\ UNCHANGED clock
      BY <2>4 DEF DeleteRows, Work, IInv, TypeOK
    <3> QED
      BY <2>0, <3>1 DEF Without
  <2> QED
    BY <2>1, <2>2, <2>3, <2>4
<1> QED
  BY <1>1, <1>2, <1>3, <1>4, CreatedTypes DEF ClockInv

\* Every step of the one process keeps it.
LEMMA NextClock ==
    ASSUME ~ClockStepsBack, \A p, q \in Procs : p = q
    PROVE  IInv /\ IInv' /\ ClockInv /\ [Next]_vars => ClockInv'
<1> SUFFICES ASSUME IInv, IInv', ClockInv, [Next]_vars PROVE ClockInv'
  OBVIOUS
<1>1. CASE UNCHANGED vars
  BY <1>1 DEF vars, ClockInv
<1>2. ASSUME NEW p \in Procs, Enter(p) PROVE ClockInv'
  <2>1. UNCHANGED <<items, txn>> /\ clock' \in Nat /\ clock <= clock'
    <3>1. UNCHANGED <<items, txn>> /\ (UNCHANGED clock \/ \E now : ReadClock(now))
      BY <1>2 DEF Enter, BeginInsert, BeginRowCall, BeginClear, SetConfig
    <3> QED
      BY <3>1, CreatedTypes DEF ReadClock
  <2>2. \/ call'[p].op # "insert" /\ call'[p].pc \in {"idle", "begin"}
        \/ /\ call'[p].op = "insert" /\ call'[p].pc = "begin"
           /\ call'[p].now = clock /\ clock' = clock + 1
    BY <1>2 DEF Enter, BeginInsert, BeginRowCall, BeginClear, SetConfig, ReadClock, Made,
                Idle, IInv, TypeOK
  <2> QED
    BY <2>1, <2>2, CreatedTypes DEF ClockInv
<1>3. ASSUME NEW p \in Procs, Begin(p) PROVE ClockInv'
  <2>1. /\ call'[p].op = call[p].op /\ call'[p].now = call[p].now
        /\ call'[p].pc = FirstStep[call[p].op] /\ txn'.rows = items
        /\ UNCHANGED <<items, clock>>
    BY <1>3 DEF Begin, Goto, IInv, TypeOK
  <2>2. call[p].op \in Ops
    BY <1>3 DEF Begin, IInv, WorkFollowsStatements, Follows
  <2>3. call'[p].pc \in {"upsert", "read", "update", "delete"}
    BY <2>1, <2>2 DEF FirstStep, Ops
  <2> QED
    BY <1>3, <2>1, <2>2, <2>3 DEF ClockInv, Begin
<1>4. ASSUME NEW p \in Procs, Statement(p) PROVE ClockInv'
  BY <1>4, UpsertClock, PruneClock, StatementClock DEF Statement
<1>5. ASSUME NEW p \in Procs, Commit(p) PROVE ClockInv'
  <2>1. items' = txn.rows /\ UNCHANGED clock /\ DOMAIN txn'.rows = {}
    BY <1>5 DEF Commit, Unlock, NoTxn, NoRows
  <2>2. \/ /\ call[p].op = "insert" /\ call'[p].pc = "lookup"
           /\ call'[p].payload = call[p].payload
        \/ call'[p].pc = "idle"
    <3>1. call[p] \in Call /\ call \in [Procs -> Call]
      BY DEF IInv, TypeOK
    <3>2. CASE Goto(p, "lookup") /\ call[p].op = "insert"
      BY <3>1, <3>2 DEF Goto, Call
    <3>3. CASE Return(p)
      BY <3>1, <3>3 DEF Return, Idle
    <3> QED
      BY <1>5, <3>2, <3>3 DEF Commit
  <2> QED
    BY <1>5, <2>1, <2>2 DEF ClockInv, Commit
<1>6. ASSUME NEW p \in Procs, BusyTimeout(p) \/ Lookup(p) \/ Rollback(p) \/ Crash(p)
      PROVE  ClockInv'
  <2>1. UNCHANGED <<items, clock>> /\ (UNCHANGED txn \/ DOMAIN txn'.rows = {})
    BY <1>6 DEF BusyTimeout, Lookup, Rollback, Crash, Unlock, NoTxn, NoRows
  <2>2. call'[p].pc = "idle"
    BY <1>6 DEF BusyTimeout, Lookup, Rollback, Crash, Return, Idle, IInv, TypeOK
  <2> QED
    BY <2>1, <2>2 DEF ClockInv
<1> QED
  BY <1>1, <1>2, <1>3, <1>4, <1>5, <1>6 DEF Next, Continue

\* add_text, add_image and add_files return None only for what the settings refuse: with one
\* process and a clock that does not step back, what was recorded is found by its hash.
THEOREM RecordedIsFound ==
    ASSUME ~ClockStepsBack, \A p, q \in Procs : p = q
    PROVE  Spec => NoneOnlyWhenFiltered
<1>1. ClockInv => (\A p \in Procs : Lookup(p) => Holders(items, call[p].payload) # {})
  BY DEF ClockInv, Lookup
<1> QED
  BY <1>1, InitClock, NextClock, Invariance, PTL DEF Spec, NoneOnlyWhenFiltered
================================================================================
